---------------------------- MODULE SeqGroupProofs ----------------------------
(***************************************************************************)
(* Proofs about SeqGroup for any group size, token budget and number of    *)
(* aborts.                                                                 *)
(***************************************************************************)
EXTENDS SeqGroup, FiniteSetTheorems, TLAPS

(***************************************************************************)
(* What the budget arithmetic of _async_generate_group sees of a recorded  *)
(* result: a number of tokens within the budget.                           *)
(***************************************************************************)
LEMMA GeneratedType ==
    ASSUME TypeOK, ResponsesIntact, NEW i \in Seqs
    PROVE  Generated(i) \in 0..MaxNewTokens
<1>1. CASE results[i] = None
  BY <1>1, SeqGroupAssumption DEF Generated
<1>2. CASE results[i] # None
  <2>1. results[i] \in Results
    BY <1>2 DEF TypeOK
  <2>2. Len(results[i].output_ids) \in Nat
    BY <2>1 DEF Results
  <2>. QED
    BY <1>2, <2>2, SeqGroupAssumption DEF Generated, ResponsesIntact
<1>. QED
  BY <1>1, <1>2

(***************************************************************************)
(* A request for a sequence with tokens left is a well-formed one.         *)
(***************************************************************************)
LEMMA RequestType ==
    ASSUME TypeOK, ResponsesIntact, NEW i \in Seqs, Generated(i) < MaxNewTokens
    PROVE  /\ Request(i) \in Requests
           /\ Request(i) # None
           /\ Request(i).state = "created"
           /\ Request(i).context = Generated(i)
           /\ Request(i).limit = MaxNewTokens - Generated(i)
           /\ ~Request(i).abort
           /\ Request(i).finish = None
<1>1. Generated(i) \in 0..MaxNewTokens
  BY GeneratedType
<1>2. Request(i) \in Requests
  BY <1>1, SeqGroupAssumption DEF Request, Requests
<1>. QED
  BY <1>2, NoneAssumption DEF Request

(***************************************************************************)
(* The tokens of one request follow the tokens in its context, and its     *)
(* log-probabilities are theirs.                                           *)
(***************************************************************************)
LEMMA ReturnedTokens ==
    ASSUME NEW r \in Requests, r.finish \in Reasons
    PROVE  /\ Returned(r) \in Results
           /\ Returned(r).finish = r.finish
           /\ Returned(r).logprobs = Returned(r).output_ids
           /\ Len(Returned(r).output_ids) = r.new
           /\ \A k \in 1..r.new : Returned(r).output_ids[k] = r.context + k
<1>1. r.new \in Nat /\ r.context \in Nat
  BY SeqGroupAssumption DEF Requests
<1>2. \A k \in 1..r.new : r.context + k \in Nat
  BY <1>1
<1>3. NewTokens(r) \in Seq(Nat)
  BY <1>1, <1>2 DEF NewTokens
<1>4. Len(NewTokens(r)) = r.new /\ \A k \in 1..r.new : NewTokens(r)[k] = r.context + k
  BY <1>1 DEF NewTokens
<1>. QED
  BY <1>3, <1>4 DEF Returned, Results

(***************************************************************************)
(* Aggregated outputs, by position.                                        *)
(***************************************************************************)
LEMMA ConcatTokens ==
    ASSUME NEW s \in Seq(Nat), NEW t \in Seq(Nat)
    PROVE  /\ s \o t \in Seq(Nat)
           /\ Len(s \o t) = Len(s) + Len(t)
           /\ \A k \in 1..Len(s \o t) :
                (s \o t)[k] = IF k <= Len(s) THEN s[k] ELSE t[k - Len(s)]
  BY SMTT(20)

(***************************************************************************)
(* Recording a result appends its tokens to what the sequence has, takes   *)
(* its finish reason, and keeps one log-probability per token unless a     *)
(* SGLang result is merged with an earlier one.                            *)
(***************************************************************************)
LEMMA MergeAppends ==
    ASSUME TypeOK, NEW i \in Seqs, NEW new \in Results
    PROVE  LET m == Merge(results[i], new)
               n == Generated(i)
           IN  /\ m \in Results
               /\ m.finish = new.finish
               /\ Len(m.output_ids) = n + Len(new.output_ids)
               /\ \A k \in 1..Len(m.output_ids) :
                    m.output_ids[k] = IF k <= n THEN results[i].output_ids[k]
                                                ELSE new.output_ids[k - n]
               /\ /\ new.logprobs = new.output_ids
                  /\ \/ results[i] = None
                     \/ /\ backend = "vllm"
                        /\ results[i].logprobs = results[i].output_ids
                  => m.logprobs = m.output_ids
<1> DEFINE p == results[i]
           m == Merge(p, new)
           n == Generated(i)
<1>0. /\ new.output_ids \in Seq(Nat) /\ new.logprobs \in Seq(Nat)
      /\ new.finish \in Reasons
  BY DEF Results
<1>1. CASE p = None
  <2>1. m = new /\ n = 0
    BY <1>1 DEF Merge, Generated
  <2>2. \A k \in 1..Len(new.output_ids) : k - 0 = k /\ ~(k <= 0)
    OBVIOUS
  <2>. QED
    BY <1>0, <2>1, <2>2
<1>2. CASE p # None
  <2>1. p \in Results /\ p.output_ids \in Seq(Nat) /\ p.logprobs \in Seq(Nat)
    BY <1>2 DEF TypeOK, Results
  <2>2. n = Len(p.output_ids)
    BY <1>2 DEF Generated
  <2>3. CASE backend = "sglang"
    <3>1. m = [new EXCEPT !.output_ids = p.output_ids \o new.output_ids]
      BY <1>2, <2>3 DEF Merge, MergeSglang
    <3>2. m = [output_ids |-> p.output_ids \o new.output_ids,
               logprobs |-> new.logprobs, finish |-> new.finish]
      BY <3>1 DEF Results
    <3>. QED
      BY <1>0, <1>2, <2>1, <2>2, <2>3, <3>2 DEF Results
  <2>4. CASE backend # "sglang"
    <3>1. m = [new EXCEPT !.output_ids = p.output_ids \o new.output_ids,
                          !.logprobs = p.logprobs \o new.logprobs]
      BY <1>2, <2>4 DEF Merge, MergeVllm
    <3>2. m = [output_ids |-> p.output_ids \o new.output_ids,
               logprobs |-> p.logprobs \o new.logprobs, finish |-> new.finish]
      BY <3>1 DEF Results
    <3> DEFINE s == p.output_ids  t == new.output_ids
    <3>0. s \in Seq(Nat) /\ t \in Seq(Nat) /\ n = Len(s)
      BY <1>0, <2>1, <2>2
    <3>3. p.logprobs \o new.logprobs \in Seq(Nat)
      BY <1>0, <2>1, ConcatTokens
    <3>4. /\ s \o t \in Seq(Nat)
          /\ Len(s \o t) = n + Len(t)
          /\ \A k \in 1..Len(s \o t) :
               (s \o t)[k] = IF k <= n THEN s[k] ELSE t[k - n]
      <4> HIDE DEF s, t, n
      <4>. QED BY <3>0, ConcatTokens
    <3> HIDE DEF m, n, p
    <3>5. m \in Results /\ m.output_ids = p.output_ids \o new.output_ids
      BY <1>0, <3>2, <3>3, <3>4 DEF Results
    <3>6. m.finish = new.finish /\ m.logprobs = p.logprobs \o new.logprobs
      BY <3>2
    <3>7. new.logprobs = new.output_ids /\ p.logprobs = p.output_ids
            => m.logprobs = m.output_ids
      BY <3>5, <3>6
    <3>. QED
      BY <1>2, <3>4, <3>5, <3>6, <3>7 DEF m, n, p
  <2>. QED
    BY <2>3, <2>4
<1>. QED
  BY <1>1, <1>2
-----------------------------------------------------------------------------
(***************************************************************************)
(* The initial states satisfy the inductive invariant.                     *)
(***************************************************************************)
LEMMA InitIInv == Init => IInv
<1> SUFFICES ASSUME Init PROVE IInv
  OBVIOUS
<1>1. TypeOK
  BY SeqGroupAssumption DEF Init, TypeOK
<1>2. EachSequenceOnce /\ TasksContinue /\ CompletedEnded
  BY DEF Init, EachSequenceOnce, TasksContinue, CompletedEnded
<1>3. ResponsesIntact /\ MergedTogether
  BY DEF Init, ResponsesIntact, MergedTogether
<1>. QED
  BY <1>1, <1>2, <1>3 DEF IInv

(***************************************************************************)
(* The tasks of _async_generate_group: created for sequences that have     *)
(* tokens left, they continue what is recorded.                            *)
(***************************************************************************)
LEMMA CreateTasksType ==
    ASSUME TypeOK, ResponsesIntact, NEW idx \in SUBSET Seqs, CreateTasks(idx),
           \A i \in idx : Generated(i) < MaxNewTokens
    PROVE  /\ requests' \in [Seqs -> Requests \cup {None}]
           /\ \A i \in idx :
                /\ requests'[i] # None
                /\ requests'[i].state = "created"
                /\ requests'[i].context = Generated(i)
                /\ requests'[i].limit = MaxNewTokens - Generated(i)
                /\ ~requests'[i].abort
                /\ requests'[i].finish = None
           /\ \A i \in Seqs \ idx : requests'[i] = requests[i]
<1>1. \A i \in idx : requests'[i] = Request(i)
  BY DEF CreateTasks
<1>2. \A i \in idx : Request(i) \in Requests
  BY RequestType
<1>3. requests' \in [Seqs -> Requests \cup {None}]
  BY <1>2 DEF CreateTasks, TypeOK
<1>4. \A i \in Seqs \ idx : requests'[i] = requests[i]
  BY DEF CreateTasks
<1>. QED
  BY <1>1, <1>3, <1>4, RequestType

(***************************************************************************)
(* The first _async_generate_group of a group: nothing is recorded, so the *)
(* assertion on num_returned holds and every sequence gets a task.         *)
(***************************************************************************)
LEMMA GenerateFreshStep ==
    ASSUME IInv, GenerateFresh
    PROVE  IInv'
<1> USE DEF IInv
<1>1. /\ phase = "new" /\ idx_completed = {} /\ idx_aborted = {}
      /\ \A i \in Seqs : results[i] = None
  BY DEF GenerateFresh, EachSequenceOnce
<1>2. num_returned = 0
  BY <1>1, FS_EmptySet DEF num_returned
<1>3. phase' = "generating" /\ CreateTasks(Seqs)
  BY <1>2 DEF GenerateFresh
<1>4. UNCHANGED <<backend, idx_completed, idx_aborted, results, aborts>>
  BY DEF GenerateFresh
<1>5. \A i \in Seqs : Generated(i) = 0 /\ Generated(i)' = 0
  BY <1>1, <1>4 DEF Generated
<1>6. /\ requests' \in [Seqs -> Requests \cup {None}]
      /\ \A i \in Seqs :
           /\ requests'[i] # None
           /\ requests'[i].state = "created"
           /\ requests'[i].context = Generated(i)
           /\ requests'[i].limit = MaxNewTokens - Generated(i)
           /\ ~requests'[i].abort
           /\ requests'[i].finish = None
  BY <1>3, <1>5, CreateTasksType, SeqGroupAssumption
<1>7. TypeOK'
  BY <1>3, <1>4, <1>6 DEF TypeOK
<1>8. EachSequenceOnce'
  BY <1>1, <1>3, <1>4, <1>6 DEF EachSequenceOnce
<1>9. TasksContinue'
  BY <1>5, <1>6 DEF TasksContinue
<1>10. ResponsesIntact' /\ CompletedEnded'
  BY <1>1, <1>4 DEF ResponsesIntact, CompletedEnded
<1>11. MergedTogether'
  BY <1>1, <1>4, <1>6, NoneAssumption DEF MergedTogether, Reasons
<1>. QED
  BY <1>7, <1>8, <1>9, <1>10, <1>11

(***************************************************************************)
(* The aborted sequences without tokens left are those at their limit.     *)
(***************************************************************************)
LEMMA ExhaustedFull ==
    ASSUME IInv
    PROVE  /\ \A i \in Exhausted : /\ i \in idx_aborted
                                  /\ results[i] # None
                                  /\ Len(results[i].output_ids) = MaxNewTokens
           /\ \A i \in idx_aborted \ Exhausted : Generated(i) < MaxNewTokens
<1> USE DEF IInv
<1>1. \A i \in idx_aborted : i \in Seqs /\ results[i] # None
  BY DEF TypeOK, CompletedEnded
<1>2. \A i \in idx_aborted : Generated(i) \in 0..MaxNewTokens
  BY <1>1, GeneratedType
<1>3. \A i \in idx_aborted : Generated(i) = Len(results[i].output_ids)
  BY <1>1 DEF Generated
<1>. QED
  BY <1>1, <1>2, <1>3, SeqGroupAssumption DEF Exhausted

(***************************************************************************)
(* SGLang continues an aborted group: the exhausted sequences complete,    *)
(* the others get a task for what is left of their budget.                 *)
(***************************************************************************)
LEMMA ContinueSglangStep ==
    ASSUME IInv, GenerateContinue, backend = "sglang"
    PROVE  IInv'
<1> USE DEF IInv
<1>1. /\ phase = "aborted" /\ ContinueSglang
      /\ UNCHANGED <<backend, aborts>>
  BY DEF GenerateContinue
<1>2. /\ phase' = "generating" /\ idx_aborted' = {}
      /\ idx_completed' = idx_completed \cup Exhausted
      /\ CreateTasks(idx_aborted \ Exhausted)
  BY <1>1 DEF ContinueSglang
<1>3. aborts # 0 /\ aborts' = aborts /\ backend' = "sglang"
  BY <1>1 DEF MergedTogether, GenerateContinue
<1>4. \A i \in Exhausted : i \in idx_aborted /\ i \in Seqs /\ i \notin idx_completed
  BY <1>1, ExhaustedFull DEF TypeOK, EachSequenceOnce
<1>5. \A i \in Seqs \ Exhausted : results'[i] = results[i]
  BY <1>1 DEF ContinueSglang
<1>6. \A i \in Exhausted :
        /\ results'[i] \in Results
        /\ results'[i].output_ids = results[i].output_ids
        /\ results'[i].finish = "length"
  <2> SUFFICES ASSUME NEW i \in Exhausted
               PROVE  /\ results'[i] \in Results
                      /\ results'[i].output_ids = results[i].output_ids
                      /\ results'[i].finish = "length"
    OBVIOUS
  <2>1. results[i] \in Results
    BY <1>4, ExhaustedFull DEF TypeOK
  <2>2. results'[i] = [results[i] EXCEPT !.finish = "length"]
    BY <1>1, <1>4 DEF ContinueSglang
  <2>. QED
    BY <2>1, <2>2 DEF Results, Reasons
<1>7. results' \in [Seqs -> Results \cup {None}]
  <2>1. \A i \in Seqs : results'[i] \in Results \cup {None}
    BY <1>5, <1>6 DEF TypeOK
  <2>2. DOMAIN results' = Seqs /\ results' = [i \in Seqs |-> results'[i]]
    BY <1>1 DEF ContinueSglang
  <2>. QED
    BY <2>1, <2>2
<1>8. \A i \in Seqs : (results'[i] = None) = (results[i] = None)
  BY <1>5, <1>6, ExhaustedFull, NoneAssumption
<1>9. \A i \in Seqs : results[i] # None =>
        results'[i].output_ids = results[i].output_ids
  BY <1>5, <1>6
<1>10. \A i \in Seqs : Generated(i)' = Generated(i)
  BY <1>8, <1>9 DEF Generated
<1>11. /\ requests' \in [Seqs -> Requests \cup {None}]
       /\ \A i \in idx_aborted \ Exhausted :
            /\ requests'[i] # None
            /\ requests'[i].state = "created"
            /\ requests'[i].context = Generated(i)
            /\ requests'[i].limit = MaxNewTokens - Generated(i)
       /\ \A i \in Seqs \ (idx_aborted \ Exhausted) : requests'[i] = None
  <2>1. \A i \in Seqs : requests[i] = None
    BY <1>1 DEF EachSequenceOnce
  <2>2. idx_aborted \ Exhausted \in SUBSET Seqs
    BY DEF TypeOK
  <2>. QED
    BY <1>2, <2>1, <2>2, ExhaustedFull, CreateTasksType
<1>12. TypeOK'
  BY <1>1, <1>2, <1>4, <1>7, <1>11 DEF TypeOK
<1>13. EachSequenceOnce'
  BY <1>1, <1>2, <1>4, <1>11 DEF EachSequenceOnce
<1>14. TasksContinue'
  BY <1>10, <1>11 DEF TasksContinue
<1>15. ResponsesIntact'
  BY <1>8, <1>9 DEF ResponsesIntact
<1>16. CompletedEnded'
  BY <1>2, <1>5, <1>6, <1>8, <1>4, ExhaustedFull DEF CompletedEnded, TypeOK
<1>17. MergedTogether'
  BY <1>3 DEF MergedTogether
<1>. QED
  BY <1>12, <1>13, <1>14, <1>15, <1>16, <1>17

(***************************************************************************)
(* vLLM continues an aborted group, or raises with one result changed.     *)
(***************************************************************************)
LEMMA ContinueVllmStep ==
    ASSUME IInv, GenerateContinue, backend # "sglang"
    PROVE  IInv'
<1> USE DEF IInv
<1>1. /\ phase = "aborted" /\ ContinueVllm
      /\ UNCHANGED <<backend, aborts, idx_completed>> /\ idx_aborted' = {}
  BY DEF GenerateContinue, ContinueVllm
<1>2. aborts # 0
  BY DEF MergedTogether, GenerateContinue
<1>3. \A i \in Seqs : requests[i] = None
  BY <1>1 DEF EachSequenceOnce
<1>4. CASE Exhausted = {}
  <2>1. /\ phase' = "generating" /\ CreateTasks(idx_aborted)
        /\ UNCHANGED results
    BY <1>1, <1>4 DEF ContinueVllm
  <2>2. \A i \in Seqs : Generated(i)' = Generated(i)
    BY <2>1 DEF Generated
  <2>3. /\ requests' \in [Seqs -> Requests \cup {None}]
        /\ \A i \in idx_aborted :
             /\ requests'[i] # None
             /\ requests'[i].state = "created"
             /\ requests'[i].context = Generated(i)
             /\ requests'[i].limit = MaxNewTokens - Generated(i)
        /\ \A i \in Seqs \ idx_aborted : requests'[i] = None
    <3>1. idx_aborted \in SUBSET Seqs /\ \A i \in idx_aborted : Generated(i) < MaxNewTokens
      BY <1>4, ExhaustedFull DEF TypeOK
    <3>. QED
      BY <1>3, <2>1, <3>1, CreateTasksType
  <2>4. TypeOK'
    BY <1>1, <2>1, <2>3 DEF TypeOK
  <2>5. EachSequenceOnce'
    BY <1>1, <2>1, <2>3 DEF EachSequenceOnce
  <2>6. TasksContinue'
    BY <2>2, <2>3 DEF TasksContinue
  <2>7. ResponsesIntact' /\ CompletedEnded' /\ MergedTogether'
    BY <1>1, <1>2, <2>1 DEF ResponsesIntact, CompletedEnded, MergedTogether
  <2>. QED
    BY <2>4, <2>5, <2>6, <2>7
<1>5. CASE Exhausted # {}
  <2>1. phase' = "raised" /\ UNCHANGED requests
    BY <1>1, <1>5 DEF ContinueVllm
  <2>2. PICK i \in Exhausted : results' = [results EXCEPT ![i].finish = "length"]
    BY <1>1, <1>5 DEF ContinueVllm
  <2>3. i \in Seqs /\ i \notin idx_completed /\ results[i] \in Results
    BY <1>1, ExhaustedFull DEF TypeOK, EachSequenceOnce
  <2>4. /\ results'[i] = [results[i] EXCEPT !.finish = "length"]
        /\ DOMAIN results' = Seqs
        /\ \A j \in Seqs \ {i} : results'[j] = results[j]
    BY <2>2, <2>3 DEF TypeOK
  <2>5. /\ results'[i] \in Results
        /\ results'[i].output_ids = results[i].output_ids
        /\ results'[i].logprobs = results[i].logprobs
    BY <2>3, <2>4 DEF Results, Reasons
  <2>6. results' \in [Seqs -> Results \cup {None}]
    BY <2>2, <2>3, <2>5, <2>4 DEF TypeOK
  <2>7. TypeOK' /\ EachSequenceOnce' /\ TasksContinue'
    BY <1>1, <2>1, <2>6 DEF TypeOK, EachSequenceOnce, TasksContinue
  <2>8. ResponsesIntact'
    BY <2>3, <2>4, <2>5, NoneAssumption DEF ResponsesIntact
  <2>9. CompletedEnded'
    BY <1>1, <2>3, <2>4 DEF CompletedEnded, TypeOK
  <2>10. MergedTogether'
    BY <1>1, <1>2, <2>3, <2>4, <2>5, NoneAssumption DEF MergedTogether
  <2>. QED
    BY <2>7, <2>8, <2>9, <2>10
<1>. QED
  BY <1>4, <1>5

(***************************************************************************)
(* A step that leaves the recorded results alone and turns each request    *)
(* into one with the same context and limit keeps the invariant, as long   *)
(* as what a returned request says is true.                                *)
(***************************************************************************)
TaskGoesOn(i) ==
    /\ requests'[i] = None <=> requests[i] = None
    /\ requests[i] # None =>
         /\ requests'[i].context = requests[i].context
         /\ requests'[i].limit = requests[i].limit
         /\ aborts' = 0 => /\ requests'[i].abort = requests[i].abort
                           /\ requests'[i].finish # "abort"
         /\ phase = "generating" /\ requests'[i].state = "returned" =>
              /\ requests'[i].finish \in Reasons
              /\ requests'[i].new <= requests'[i].limit
              /\ requests'[i].finish = "length" =>
                   requests'[i].new = requests'[i].limit

LEMMA RequestStep ==
    ASSUME IInv,
           UNCHANGED <<backend, phase, idx_completed, idx_aborted, results>>,
           aborts' \in 0..MaxAborts, aborts' = 0 => aborts = 0,
           requests' \in [Seqs -> Requests \cup {None}],
           \A i \in Seqs : TaskGoesOn(i)
    PROVE  IInv'
<1> USE DEF IInv, TaskGoesOn
<1>1. TypeOK'
  BY DEF TypeOK
<1>2. EachSequenceOnce'
  BY DEF EachSequenceOnce
<1>3. \A i \in Seqs : Generated(i)' = Generated(i)
  BY DEF Generated
<1>4. TasksContinue'
  BY <1>3 DEF TasksContinue
<1>5. ResponsesIntact' /\ CompletedEnded'
  BY DEF ResponsesIntact, CompletedEnded
<1>6. MergedTogether'
  BY DEF MergedTogether
<1>. QED
  BY <1>1, <1>2, <1>4, <1>5, <1>6

(***************************************************************************)
(* A task hands its request to the engine.                                 *)
(***************************************************************************)
LEMMA SubmitStep ==
    ASSUME IInv, NEW i \in Seqs, Submit(i)
    PROVE  IInv'
<1> USE DEF IInv
<1>1. requests[i] \in Requests /\ requests[i] # None
  BY DEF Submit, TypeOK
<1>2. requests' = [requests EXCEPT ![i] = [requests[i] EXCEPT !.state = "submitted"]]
  BY DEF Submit
<1>3. [requests[i] EXCEPT !.state = "submitted"] \in Requests
  BY <1>1 DEF Requests
<1>4. requests' \in [Seqs -> Requests \cup {None}]
  BY <1>2, <1>3 DEF TypeOK
<1>5. \A j \in Seqs \ {i} : requests'[j] = requests[j]
  BY <1>2 DEF TypeOK
<1>6. /\ requests'[i] # None
      /\ requests'[i].state = "submitted"
      /\ requests'[i].context = requests[i].context
      /\ requests'[i].limit = requests[i].limit
      /\ requests'[i].abort = requests[i].abort
      /\ requests'[i].finish = requests[i].finish
  BY <1>1, <1>2, <1>3, NoneAssumption DEF TypeOK, Requests
<1>7. UNCHANGED <<backend, phase, idx_completed, idx_aborted, results, aborts>>
  BY DEF Submit
<1>8. \A j \in Seqs : TaskGoesOn(j)
  BY <1>1, <1>5, <1>6, <1>7 DEF MergedTogether, TasksContinue, TaskGoesOn
<1>9. aborts' \in 0..MaxAborts /\ (aborts' = 0 => aborts = 0)
  BY <1>7 DEF TypeOK
<1>. QED
  BY <1>4, <1>7, <1>8, <1>9, RequestStep

(***************************************************************************)
(* abort_generation marks what the engine has.                             *)
(***************************************************************************)
LEMMA AbortGenerationStep ==
    ASSUME IInv, AbortGeneration
    PROVE  IInv'
<1> USE DEF IInv
<1>1. /\ UNCHANGED <<backend, phase, idx_completed, idx_aborted, results>>
      /\ aborts' = aborts + 1 /\ aborts < MaxAborts
  BY DEF AbortGeneration
<1>2. aborts' \in 0..MaxAborts /\ aborts' # 0
  BY <1>1, SeqGroupAssumption DEF TypeOK
<1>3. \A i \in Seqs : \/ requests'[i] = requests[i]
                       \/ /\ requests[i] # None
                          /\ requests'[i] = [requests[i] EXCEPT !.abort = TRUE]
  BY DEF AbortGeneration
<1>4. \A i \in Seqs : requests[i] # None =>
        /\ requests[i] \in Requests
        /\ [requests[i] EXCEPT !.abort = TRUE] \in Requests
  BY DEF TypeOK, Requests
<1>5. requests' \in [Seqs -> Requests \cup {None}]
  <2>1. \A i \in Seqs : requests'[i] \in Requests \cup {None}
    BY <1>3, <1>4 DEF TypeOK
  <2>2. DOMAIN requests' = Seqs /\ requests' = [i \in Seqs |-> requests'[i]]
    BY DEF AbortGeneration
  <2>. QED
    BY <2>1, <2>2
<1>6. \A i \in Seqs : TaskGoesOn(i)
  <2> SUFFICES ASSUME NEW i \in Seqs
               PROVE  TaskGoesOn(i)
    OBVIOUS
  <2>1. CASE requests'[i] = requests[i]
    BY <1>2, <2>1 DEF TaskGoesOn, TasksContinue
  <2>2. CASE requests[i] # None /\ requests'[i] = [requests[i] EXCEPT !.abort = TRUE]
    <3>1. requests[i] \in Requests /\ requests'[i] # None
      BY <1>4, <2>2, NoneAssumption
    <3>2. /\ requests'[i].context = requests[i].context
          /\ requests'[i].limit = requests[i].limit
          /\ requests'[i].state = requests[i].state
          /\ requests'[i].new = requests[i].new
          /\ requests'[i].finish = requests[i].finish
      BY <2>2, <3>1 DEF Requests
    <3>. QED
      BY <1>2, <2>2, <3>1, <3>2 DEF TaskGoesOn, TasksContinue
  <2>. QED
    BY <1>3, <2>1, <2>2
<1>. QED
  BY <1>1, <1>2, <1>5, <1>6, RequestStep

(***************************************************************************)
(* The engine ends a request, within its limit and for a reason that is    *)
(* true of it.                                                             *)
(***************************************************************************)
LEMMA EngineReturnStep ==
    ASSUME IInv, NEW i \in Seqs, EngineReturn(i)
    PROVE  IInv'
<1> USE DEF IInv
<1>1. requests[i] \in Requests /\ requests[i] # None
  BY DEF EngineReturn, TypeOK
<1>2. PICK n \in 0..requests[i].limit, reason \in Reasons :
        /\ reason = "length" => n = requests[i].limit
        /\ reason = "abort" => requests[i].abort
        /\ requests' = [requests EXCEPT ![i].state = "returned",
                           ![i].new = n, ![i].finish = reason]
  BY DEF EngineReturn
<1>3. requests'[i] = [requests[i] EXCEPT !.state = "returned",
                        !.new = n, !.finish = reason]
  BY <1>1, <1>2, Zenon DEF TypeOK
<1>4. requests[i].limit \in 1..MaxNewTokens /\ n \in 0..MaxNewTokens
  BY <1>1, <1>2, SeqGroupAssumption DEF Requests
<1>5. requests'[i] \in Requests
  <2> DEFINE r == requests[i]
  <2>1. requests'[i] = [state |-> "returned", context |-> r.context,
                        limit |-> r.limit, abort |-> r.abort,
                        new |-> n, finish |-> reason]
    BY <1>1, <1>3 DEF Requests
  <2>2. r.context \in Nat /\ r.abort \in BOOLEAN
    BY <1>1 DEF Requests
  <2>. QED
    BY <1>4, <2>1, <2>2 DEF Requests
<1>6. /\ requests' \in [Seqs -> Requests \cup {None}]
      /\ \A j \in Seqs \ {i} : requests'[j] = requests[j]
  <2>1. requests' = [requests EXCEPT ![i] = requests'[i]]
    BY <1>2 DEF TypeOK
  <2>. QED
    BY <1>5, <2>1 DEF TypeOK
<1>7. /\ requests'[i] # None
      /\ requests'[i].context = requests[i].context
      /\ requests'[i].limit = requests[i].limit
      /\ requests'[i].abort = requests[i].abort
      /\ requests'[i].finish = reason
      /\ requests'[i].new = n
  BY <1>1, <1>3, <1>5, NoneAssumption DEF Requests
<1>8. UNCHANGED <<backend, phase, idx_completed, idx_aborted, results, aborts>>
  BY DEF EngineReturn
<1>9. n <= requests[i].limit
  BY <1>2, <1>4
<1>10. \A j \in Seqs \ {i} : TaskGoesOn(j)
  BY <1>6, <1>8 DEF MergedTogether, TasksContinue, TaskGoesOn
<1>11. TaskGoesOn(i)
  BY <1>1, <1>2, <1>7, <1>8, <1>9 DEF MergedTogether, TaskGoesOn
<1>12. aborts' \in 0..MaxAborts /\ (aborts' = 0 => aborts = 0)
  BY <1>8 DEF TypeOK
<1>. QED
  BY <1>6, <1>8, <1>10, <1>11, <1>12, RequestStep

(***************************************************************************)
(* A result is recorded: the response grows by the request's tokens, and   *)
(* one that finished for lack of budget has used it up.                    *)
(***************************************************************************)
LEMMA RecordStep ==
    ASSUME IInv, NEW i \in Seqs, Record(i)
    PROVE  IInv'
<1> USE DEF IInv
<1> DEFINE r == requests[i]
           n == Generated(i)
           m == Merge(results[i], Returned(r))
<1>1. /\ phase = "generating" /\ r # None /\ r.state = "returned"
      /\ UNCHANGED <<backend, aborts>>
      /\ requests' = [requests EXCEPT ![i] = None]
  BY DEF Record
<1>2. r \in Requests
  BY <1>1 DEF TypeOK
<1>3. /\ r.finish \in Reasons /\ r.context = n
      /\ r.limit = MaxNewTokens - n /\ r.new <= r.limit
      /\ r.finish = "length" => r.new = r.limit
  BY <1>1 DEF TasksContinue
<1>4. n \in 0..MaxNewTokens /\ r.new \in Nat
  BY <1>2, GeneratedType, SeqGroupAssumption DEF Requests
<1>5. /\ requests' \in [Seqs -> Requests \cup {None}]
      /\ requests'[i] = None
      /\ \A j \in Seqs \ {i} : requests'[j] = requests[j]
  BY <1>1 DEF TypeOK
<1>6. i \notin idx_completed /\ i \notin idx_aborted
  BY <1>1 DEF EachSequenceOnce
<1>7. CASE NoOutput(r)
  <2>1. phase' = "raised" /\ UNCHANGED <<idx_completed, idx_aborted, results>>
    BY <1>7 DEF Record
  <2>2. TypeOK' /\ EachSequenceOnce' /\ TasksContinue'
    BY <1>1, <1>5, <2>1 DEF TypeOK, EachSequenceOnce, TasksContinue
  <2>3. ResponsesIntact' /\ CompletedEnded'
    BY <2>1 DEF ResponsesIntact, CompletedEnded
  <2>4. MergedTogether'
    BY <1>1, <1>5, <2>1 DEF MergedTogether
  <2>. QED
    BY <2>2, <2>3, <2>4
<1>8. CASE ~NoOutput(r)
  <2>1. phase' = phase /\ results' = [results EXCEPT ![i] = m]
    BY <1>8 DEF Record
  <2>2. \/ /\ r.finish = "abort"
           /\ idx_aborted' = idx_aborted \cup {i}
           /\ idx_completed' = idx_completed
        \/ /\ r.finish # "abort"
           /\ idx_completed' = idx_completed \cup {i}
           /\ idx_aborted' = idx_aborted
    BY <1>8 DEF Record
  <2>3. /\ Returned(r) \in Results
        /\ Returned(r).finish = r.finish
        /\ Returned(r).logprobs = Returned(r).output_ids
        /\ Len(Returned(r).output_ids) = r.new
        /\ \A k \in 1..r.new : Returned(r).output_ids[k] = r.context + k
    BY <1>2, <1>3, ReturnedTokens
  <2>4. /\ m \in Results /\ m.finish = r.finish
        /\ Len(m.output_ids) = n + r.new
        /\ \A k \in 1..Len(m.output_ids) :
             m.output_ids[k] = IF k <= n THEN results[i].output_ids[k]
                                         ELSE Returned(r).output_ids[k - n]
        /\ (\/ results[i] = None
            \/ backend = "vllm" /\ results[i].logprobs = results[i].output_ids)
           => m.logprobs = m.output_ids
    BY <2>3, MergeAppends
  <2>5. \A k \in 1..n : results[i].output_ids[k] = k
    BY <1>4 DEF ResponsesIntact, Generated
  <2> HIDE DEF m, n, r
  <2>6. Len(m.output_ids) <= MaxNewTokens
    BY <1>3, <1>4, <2>4, SeqGroupAssumption
  <2>7. \A k \in 1..Len(m.output_ids) : m.output_ids[k] = k
    <3> SUFFICES ASSUME NEW k \in 1..Len(m.output_ids)
                 PROVE  m.output_ids[k] = k
      OBVIOUS
    <3>1. CASE k <= n
      BY <1>4, <2>4, <2>5, <3>1
    <3>2. CASE ~(k <= n)
      <4>1. k - n \in 1..r.new /\ n + (k - n) = k
        BY <1>4, <2>4, <3>2
      <4>2. m.output_ids[k] = n + (k - n)
        BY <1>3, <2>3, <2>4, <3>2, <4>1
      <4>. QED
        BY <4>1, <4>2
    <3>. QED
      BY <3>1, <3>2
  <2>8. /\ results' \in [Seqs -> Results \cup {None}]
        /\ results'[i] = m /\ m # None
        /\ \A j \in Seqs \ {i} : results'[j] = results[j]
    BY <2>1, <2>4, NoneAssumption DEF TypeOK
  <2>9. TypeOK'
    BY <1>1, <1>5, <2>1, <2>2, <2>8 DEF TypeOK
  <2>10. EachSequenceOnce'
    BY <1>1, <1>5, <1>6, <2>1, <2>2 DEF EachSequenceOnce
  <2>11. TasksContinue'
    <3>1. \A j \in Seqs \ {i} : Generated(j)' = Generated(j)
      BY <2>8 DEF Generated
    <3>. QED
      BY <1>1, <1>5, <3>1 DEF TasksContinue
  <2>12. ResponsesIntact'
    BY <2>6, <2>7, <2>8 DEF ResponsesIntact
  <2>13. CompletedEnded'
    <3>1. \A j \in idx_aborted \cup idx_completed : j # i /\ results'[j] = results[j]
      BY <1>6, <2>8 DEF TypeOK
    <3>2. r.finish = "length" => Len(m.output_ids) = MaxNewTokens
      BY <1>3, <1>4, <2>4, SeqGroupAssumption
    <3>3. r.finish # "abort" => m.finish = "stop" \/ m.finish = "length"
      BY <1>3, <2>4 DEF Reasons
    <3>. QED
      BY <2>2, <2>4, <2>8, <3>1, <3>2, <3>3 DEF CompletedEnded
  <2>14. MergedTogether'
    <3>1. aborts = 0 => results[i] = None /\ r.finish # "abort"
      BY <1>1 DEF MergedTogether, r
    <3>2. backend = "vllm" \/ aborts = 0 => m.logprobs = m.output_ids
      BY <2>4, <3>1 DEF MergedTogether
    <3>3. aborts = 0 => idx_aborted' = {}
      BY <2>2, <3>1 DEF MergedTogether
    <3>. QED
      BY <1>1, <1>5, <2>8, <3>2, <3>3 DEF MergedTogether
  <2>. QED
    BY <2>9, <2>10, <2>11, <2>12, <2>13, <2>14
<1>. QED
  BY <1>7, <1>8

(***************************************************************************)
(* all_completed counts: as many completed as there are sequences means    *)
(* that all of them are.                                                   *)
(***************************************************************************)
LEMMA AllCompleted ==
    ASSUME TypeOK
    PROVE  all_completed <=> idx_completed = Seqs
  BY SeqGroupAssumption, FS_Subset DEF all_completed, TypeOK

(***************************************************************************)
(* rollout() delivers a group all of whose sequences are completed, and    *)
(* sends back one that has an aborted sequence.                            *)
(***************************************************************************)
LEMMA GroupReturnedStep ==
    ASSUME IInv, Deliver \/ MarkAborted
    PROVE  IInv'
<1> USE DEF IInv
<1>1. /\ UNCHANGED <<backend, idx_completed, idx_aborted, results, requests, aborts>>
      /\ phase = "generating" /\ \A i \in Seqs : requests[i] = None
  BY DEF Deliver, MarkAborted, GroupReturned
<1>2. \/ phase' = "delivered" /\ idx_completed = Seqs
      \/ phase' = "aborted" /\ idx_completed # Seqs
  BY AllCompleted DEF Deliver, MarkAborted
<1>3. Seqs = idx_completed \cup idx_aborted
  BY <1>1 DEF EachSequenceOnce, TypeOK
<1>4. EachSequenceOnce'
  BY <1>1, <1>2, <1>3 DEF EachSequenceOnce
<1>5. TypeOK' /\ TasksContinue'
  BY <1>1, <1>2 DEF TypeOK, TasksContinue
<1>6. ResponsesIntact' /\ CompletedEnded' /\ MergedTogether'
  BY <1>1 DEF ResponsesIntact, CompletedEnded, MergedTogether
<1>. QED
  BY <1>4, <1>5, <1>6

-----------------------------------------------------------------------------
(***************************************************************************)
(* The invariant is inductive.                                             *)
(***************************************************************************)
LEMMA NextIInv == IInv /\ [Next]_vars => IInv'
<1> SUFFICES ASSUME IInv, [Next]_vars
             PROVE  IInv'
  OBVIOUS
<1>1. CASE GenerateFresh
  BY <1>1, GenerateFreshStep
<1>2. CASE GenerateContinue
  BY <1>2, ContinueSglangStep, ContinueVllmStep
<1>3. CASE AbortGeneration
  BY <1>3, AbortGenerationStep
<1>4. CASE \E i \in Seqs : Submit(i) \/ EngineReturn(i) \/ Record(i)
  BY <1>4, SubmitStep, EngineReturnStep, RecordStep
<1>5. CASE Deliver \/ MarkAborted
  BY <1>5, GroupReturnedStep
<1>6. CASE UNCHANGED vars
  <2> USE <1>6 DEF vars
  <2>1. TypeOK' /\ EachSequenceOnce' /\ CompletedEnded'
    BY DEF IInv, TypeOK, EachSequenceOnce, CompletedEnded
  <2>2. TasksContinue'
    BY DEF IInv, TasksContinue, Generated
  <2>3. ResponsesIntact' /\ MergedTogether'
    BY DEF IInv, ResponsesIntact, MergedTogether
  <2>. QED
    BY <2>1, <2>2, <2>3 DEF IInv
<1>. QED
  BY <1>1, <1>2, <1>3, <1>4, <1>5, <1>6 DEF Next

(***************************************************************************)
(* The inductive invariant holds in every reachable state: in particular a *)
(* sequence of a group on its way is completed, aborted or being           *)
(* generated, exactly one of the three, and its task continues exactly     *)
(* what SeqGroupInfo has recorded.                                         *)
(***************************************************************************)
THEOREM InductiveInvariant == Spec => []IInv
<1>1. Init => IInv
  BY InitIInv
<1>2. IInv /\ [Next]_vars => IInv'
  BY NextIInv
<1>. QED
  BY <1>1, <1>2, PTL DEF Spec

(***************************************************************************)
(* The fields of SeqGroupInfo and the requests keep their types.           *)
(***************************************************************************)
THEOREM TypeCorrect == Spec => []TypeOK
<1>1. IInv => TypeOK
  BY DEF IInv
<1>. QED
  BY <1>1, InductiveInvariant, PTL

(***************************************************************************)
(* Whatever is aborted how often, a response loses, repeats and reorders   *)
(* no token and stays within max_new_tokens.                               *)
(***************************************************************************)
THEOREM ResponsesStayIntact == Spec => []ResponsesIntact
<1>1. IInv => ResponsesIntact
  BY DEF IInv
<1>. QED
  BY <1>1, InductiveInvariant, PTL

(***************************************************************************)
(* What rollout() delivers are ended responses.                            *)
(***************************************************************************)
THEOREM OnlyEndedDelivered == Spec => []DeliveredEnded
<1>1. IInv => DeliveredEnded
  BY DEF IInv, DeliveredEnded, EachSequenceOnce, CompletedEnded
<1>. QED
  BY <1>1, InductiveInvariant, PTL

(***************************************************************************)
(* The log-probabilities of a delivered response are those of its tokens,  *)
(* with vLLM always and with SGLang unless the group was aborted.          *)
(***************************************************************************)
THEOREM LogprobsMatch == Spec => []LogprobsMatchResponse
<1>1. IInv => LogprobsMatchResponse
  BY DEF IInv, LogprobsMatchResponse, MergedTogether, EachSequenceOnce, CompletedEnded
<1>. QED
  BY <1>1, InductiveInvariant, PTL

(***************************************************************************)
(* A step that completes or continues a sequence touches no completed one. *)
(***************************************************************************)
LEMMA CompletedKept ==
    ASSUME IInv, [Next]_vars, NEW i \in idx_completed
    PROVE  i \in idx_completed' /\ results'[i] = results[i]
<1> USE DEF IInv
<1>0. i \in Seqs
  BY DEF TypeOK
<1>1. CASE GenerateContinue
  <2>1. i \notin Exhausted
    BY <1>1 DEF Exhausted, GenerateContinue, EachSequenceOnce
  <2>2. CASE backend = "sglang"
    BY <1>0, <1>1, <2>1, <2>2 DEF GenerateContinue, ContinueSglang
  <2>3. CASE backend # "sglang"
    BY <1>0, <1>1, <2>1, <2>3 DEF GenerateContinue, ContinueVllm, TypeOK
  <2>. QED
    BY <2>2, <2>3
<1>2. ASSUME NEW j \in Seqs, Record(j)
      PROVE  i \in idx_completed' /\ results'[i] = results[i]
  <2>1. i # j
    BY <1>2 DEF Record, EachSequenceOnce
  <2>2. i \in idx_completed'
    BY <1>2 DEF Record
  <2>3. results' = results \/ \E m : results' = [results EXCEPT ![j] = m]
    BY <1>2, Zenon DEF Record
  <2>. QED
    BY <1>0, <2>1, <2>2, <2>3 DEF TypeOK
<1>3. CASE \E j \in Seqs : Submit(j) \/ EngineReturn(j)
  BY <1>3 DEF Submit, EngineReturn
<1>4. CASE GenerateFresh \/ AbortGeneration \/ Deliver \/ MarkAborted \/ UNCHANGED vars
  BY <1>4 DEF GenerateFresh, AbortGeneration, Deliver, MarkAborted, vars
<1>. QED
  BY <1>1, <1>2, <1>3, <1>4 DEF Next

(***************************************************************************)
(* A completed sequence stays completed and its response does not change   *)
(* while others of its group are aborted and generated again.              *)
(***************************************************************************)
THEOREM CompletedStays == Spec => CompletedIsFinal
<1>1. IInv /\ [Next]_vars =>
        [\A i \in idx_completed :
            i \in idx_completed' /\ results'[i] = results[i]]_vars
  BY CompletedKept
<1>. QED
  BY <1>1, InductiveInvariant, PTL DEF Spec, CompletedIsFinal
=============================================================================
