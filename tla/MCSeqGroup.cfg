SPECIFICATION FairSpec
CONSTANTS
  None = None
  Seqs = {0, 1}
  MaxNewTokens = 3
  Backends = {"sglang", "vllm"}
  MaxAborts = 2
INVARIANTS
  ResponsesIntact DeliveredEnded
  LogprobsMatchResponse
PROPERTIES CompletedIsFinal GroupDelivered
CHECK_DEADLOCK FALSE
