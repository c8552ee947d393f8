------------------------------- MODULE SeqGroup -------------------------------
(***************************************************************************)
(* One sequence group (SeqGroupInfo) on its way through generation: the    *)
(* group_size responses to one prompt are generated concurrently, an       *)
(* abort (a Migrate_Out) may cut any of them short at any time, and the    *)
(* next _async_generate_group, on this or on another rollout instance,     *)
(* continues the aborted ones from the tokens they already have and merges *)
(* the new result with the old one.                                        *)
(*                                                                         *)
(* A token is the number of response tokens in the context it was          *)
(* generated from, plus one, so a response is intact iff it reads 1, 2, 3, *)
(* ...; a log-probability is named by the token it belongs to.             *)
(* The inference engine (SGLang or vLLM) is external: it returns, for each *)
(* request, some tokens and a finish reason.                               *)
(***************************************************************************)
EXTENDS Integers, Sequences, FiniteSets

CONSTANTS
    Seqs,          \* the indices 0..group_size-1 of the group's sequences
    MaxNewTokens,  \* max_new_tokens (SGLang) or max_tokens (vLLM)
    Backends,      \* the rollout_backends considered
    MaxAborts,     \* bound: abort_generation calls that hit this group
    None           \* Python's None

ASSUME SeqGroupAssumption ==
    /\ IsFiniteSet(Seqs) /\ Seqs # {}
    /\ MaxNewTokens \in Nat \ {0}
    /\ Backends \subseteq {"sglang", "vllm"} /\ Backends # {}
    /\ MaxAborts \in Nat

VARIABLES
    backend,
    phase,          \* where the group is
    idx_completed, idx_aborted, results,  \* the fields of SeqGroupInfo
    requests,       \* the generation task of each sequence, None without one
    aborts          \* abort_generation calls so far

vars == <<backend, phase, idx_completed, idx_aborted, results, requests, aborts>>

Reasons == {"stop", "length", "abort"}

Results == [output_ids : Seq(Nat), logprobs : Seq(Nat), finish : Reasons]

\* context: response tokens in the prompt; limit: the request's max_new_tokens.
Requests ==
    [state : {"created", "submitted", "returned"}, context : Nat,
     limit : 1..MaxNewTokens, abort : BOOLEAN, new : 0..MaxNewTokens,
     finish : Reasons \cup {None}]

\* None is none of them: Python tells a missing value by `is None'.
ASSUME NoneAssumption == None \notin Results \cup Requests \cup Reasons

TypeOK ==
    /\ backend \in Backends
    /\ phase \in {"new", "generating", "aborted", "delivered", "raised"}
    /\ idx_completed \subseteq Seqs
    /\ idx_aborted \subseteq Seqs
    /\ results \in [Seqs -> Results \cup {None}]
    /\ requests \in [Seqs -> Requests \cup {None}]
    /\ aborts \in 0..MaxAborts

Init ==
    /\ backend \in Backends
    /\ phase = "new"
    /\ idx_completed = {}
    /\ idx_aborted = {}
    /\ results = [i \in Seqs |-> None]
    /\ requests = [i \in Seqs |-> None]
    /\ aborts = 0

num_returned == Cardinality(idx_completed) + Cardinality(idx_aborted)
all_completed == Cardinality(idx_completed) = Cardinality(Seqs)

-----------------------------------------------------------------------------
(* _async_generate_group up to the creation of its tasks.                  *)

Generated(i) == IF results[i] = None THEN 0 ELSE Len(results[i].output_ids)

\* Mutant: the continuation forgets the tokens in the prompt.
RequestFromPrompt(i) ==
    [state |-> "created", context |-> 0,
     limit |-> MaxNewTokens - Generated(i), abort |-> FALSE,
     new |-> 0, finish |-> None]

\* The request for sequence i: its input and its share of the token budget.
Request(i) ==
    [state |-> "created", context |-> Generated(i),
     limit |-> MaxNewTokens - Generated(i), abort |-> FALSE,
     new |-> 0, finish |-> None]

CreateTasks(idx) ==
    requests' = [i \in Seqs |-> IF i \in idx THEN Request(i) ELSE requests[i]]

\* No aborted sequence: the group is taken to be new, which is asserted.
GenerateFresh ==
    /\ phase \in {"new", "aborted"}
    /\ idx_aborted = {}
    /\ IF num_returned = 0
       THEN phase' = "generating" /\ CreateTasks(Seqs)
       ELSE phase' = "raised" /\ UNCHANGED requests
    /\ UNCHANGED <<backend, idx_completed, idx_aborted, results, aborts>>

\* The aborted sequences that have no token left to generate.
Exhausted == {i \in idx_aborted : Generated(i) >= MaxNewTokens}

\* Mutants: every sequence is requested again; an exhausted one keeps its reason
\* or stays aborted.
ContinueAll ==
    /\ phase' = "generating"
    /\ idx_aborted' = {}
    /\ CreateTasks(Seqs \ Exhausted)
    /\ idx_completed' = idx_completed \cup Exhausted
    /\ UNCHANGED results
ContinueKeepReason ==
    /\ phase' = "generating"
    /\ idx_aborted' = {}
    /\ idx_completed' = idx_completed \cup Exhausted
    /\ CreateTasks(idx_aborted \ Exhausted)
    /\ UNCHANGED results
ContinueStillAborted ==
    /\ phase' = "generating"
    /\ idx_aborted' = Exhausted
    /\ CreateTasks(idx_aborted \ Exhausted)
    /\ UNCHANGED <<idx_completed, results>>

ContinueSglang ==
    /\ phase' = "generating"
    /\ idx_aborted' = {}
    /\ idx_completed' = idx_completed \cup Exhausted
    /\ results' = [i \in Seqs |-> IF i \in Exhausted
                                  THEN [results[i] EXCEPT !.finish = "length"]
                                  ELSE results[i]]
    /\ CreateTasks(idx_aborted \ Exhausted)

\* vLLM: idx_aborted has been cleared when remove(idx) is called for the first
\* exhausted sequence: KeyError.
ContinueVllm ==
    /\ idx_aborted' = {}
    /\ IF Exhausted = {}
       THEN /\ phase' = "generating"
            /\ CreateTasks(idx_aborted)
            /\ UNCHANGED results
       ELSE /\ phase' = "raised"
            /\ \E i \in Exhausted :
                  results' = [results EXCEPT ![i].finish = "length"]
            /\ UNCHANGED requests
    /\ UNCHANGED idx_completed

\* The scheduler has migrated the group, or rolled it out again where it was.
GenerateContinue ==
    /\ phase = "aborted"
    /\ idx_aborted # {}
    /\ IF backend = "sglang" THEN ContinueSglang ELSE ContinueVllm
    /\ UNCHANGED <<backend, aborts>>

-----------------------------------------------------------------------------
(* The generation tasks, the engine and abort_generation.                  *)

\* A task runs for the first time and hands its request to the engine; from
\* here on abort_generation reaches it.
Submit(i) ==
    /\ requests[i] # None
    /\ requests[i].state = "created"
    /\ requests' = [requests EXCEPT ![i].state = "submitted"]
    /\ UNCHANGED <<backend, phase, idx_completed, idx_aborted, results, aborts>>

\* abort_generation: what is in the engine at this moment is to be aborted;
\* what has not been submitted yet is not affected.
AbortGeneration ==
    /\ phase = "generating"
    /\ aborts < MaxAborts
    /\ aborts' = aborts + 1
    /\ requests' = [i \in Seqs |->
          IF requests[i] # None /\ requests[i].state = "submitted"
          THEN [requests[i] EXCEPT !.abort = TRUE] ELSE requests[i]]
    /\ UNCHANGED <<backend, phase, idx_completed, idx_aborted, results>>

\* The engine ends a request.  One that is being aborted may still finish, and
\* may have any number of tokens when it does not.
EngineReturn(i) ==
    /\ requests[i] # None
    /\ requests[i].state = "submitted"
    /\ \E n \in 0..requests[i].limit, reason \in Reasons :
          /\ reason = "stop" => n > 0
          /\ reason = "length" => n = requests[i].limit
          /\ reason = "abort" => requests[i].abort
          /\ requests' = [requests EXCEPT ![i].state = "returned",
                             ![i].new = n, ![i].finish = reason]
    /\ UNCHANGED <<backend, phase, idx_completed, idx_aborted, results, aborts>>

NewTokens(r) == [k \in 1..r.new |-> r.context + k]

Returned(r) ==
    [output_ids |-> NewTokens(r), logprobs |-> NewTokens(r), finish |-> r.finish]

\* record_sglang_result keeps meta_info, and with it the log-probabilities, of
\* the new result only.
MergeSglang(prev, new) ==
    [new EXCEPT !.output_ids = prev.output_ids \o new.output_ids]

\* Mutant: the token ids are aggregated, the log-probabilities are not.
MergeVllmNewest(prev, new) ==
    [new EXCEPT !.output_ids = prev.output_ids \o new.output_ids]

\* RequestOutput.add(aggregate=True) extends the old output.
MergeVllm(prev, new) ==
    [new EXCEPT !.output_ids = prev.output_ids \o new.output_ids,
                !.logprobs = prev.logprobs \o new.logprobs]

Merge(prev, new) ==
    IF prev = None THEN new
    ELSE IF backend = "sglang" THEN MergeSglang(prev, new) ELSE MergeVllm(prev, new)

\* A cancelled vLLM task that has seen no output returns None.
NoOutput(r) == backend = "vllm" /\ r.finish = "abort" /\ r.new = 0

\* as_completed yields the result of sequence i, which is recorded.
Record(i) ==
    /\ phase = "generating"
    /\ requests[i] # None
    /\ requests[i].state = "returned"
    /\ LET r == requests[i] IN
       IF NoOutput(r)
       THEN /\ phase' = "raised"
            /\ UNCHANGED <<idx_completed, idx_aborted, results>>
       ELSE /\ IF r.finish = "abort"
               THEN /\ idx_aborted' = idx_aborted \cup {i}
                    /\ UNCHANGED idx_completed
               ELSE /\ idx_completed' = idx_completed \cup {i}
                    /\ UNCHANGED idx_aborted
            /\ results' = [results EXCEPT ![i] = Merge(@, Returned(r))]
            /\ UNCHANGED phase
    /\ requests' = [requests EXCEPT ![i] = None]
    /\ UNCHANGED <<backend, aborts>>

-----------------------------------------------------------------------------
(* rollout() handles the group its task returns.                           *)

GroupReturned == phase = "generating" /\ \A i \in Seqs : requests[i] = None

\* The result is put on the output channel; the group is marked done.
Deliver ==
    /\ GroupReturned
    /\ all_completed
    /\ phase' = "delivered"
    /\ UNCHANGED <<backend, idx_completed, idx_aborted, results, requests, aborts>>

MarkAborted ==
    /\ GroupReturned
    /\ ~all_completed
    /\ phase' = "aborted"
    /\ UNCHANGED <<backend, idx_completed, idx_aborted, results, requests, aborts>>

Next ==
    \/ GenerateFresh \/ GenerateContinue \/ AbortGeneration
    \/ \E i \in Seqs : Submit(i) \/ EngineReturn(i) \/ Record(i)
    \/ Deliver \/ MarkAborted

Spec == Init /\ [][Next]_vars

(***************************************************************************)
(* The event loop runs every task that is ready, the engine ends every     *)
(* request, and the scheduler hands every aborted group to an instance     *)
(* (StepsEnd of DynamicScheduler).  Nothing obliges anyone to abort.       *)
(***************************************************************************)
FairSpec ==
    /\ Spec
    /\ WF_vars(GenerateFresh) /\ WF_vars(GenerateContinue)
    /\ \A i \in Seqs :
          WF_vars(Submit(i)) /\ WF_vars(EngineReturn(i)) /\ WF_vars(Record(i))
    /\ WF_vars(Deliver) /\ WF_vars(MarkAborted)

-----------------------------------------------------------------------------
(***************************************************************************)
(* record_sglang_result and record_vllm_result lose, repeat and reorder no *)
(* token, whatever was aborted how often: a response reads 1, 2, 3, ...;   *)
(* and its parts add up to at most max_new_tokens ("avoid genererating for *)
(* sequences that have already meet their max_new_tokens",                 *)
(* sglang_worker.py:367).                                                  *)
(***************************************************************************)
ResponsesIntact ==
    \A i \in Seqs : results[i] # None =>
        LET ids == results[i].output_ids
        IN  Len(ids) <= MaxNewTokens /\ \A k \in 1..Len(ids) : ids[k] = k

(***************************************************************************)
(* What rollout() puts on the output channel are ended responses: no       *)
(* sequence is left marked aborted, and one that is not at its end         *)
(* (is_end, reasoning_results.py) used up its budget.                      *)
(***************************************************************************)
DeliveredEnded ==
    phase = "delivered" => \A i \in Seqs :
        /\ results[i] # None
        /\ \/ results[i].finish = "stop"
           \/ results[i].finish = "length"
                /\ Len(results[i].output_ids) = MaxNewTokens

(***************************************************************************)
(* A completed sequence ("ready for evaluation") stays completed, and its  *)
(* response does not change while others of its group are generated again. *)
(***************************************************************************)
CompletedIsFinal ==
    [][\A i \in idx_completed :
          i \in idx_completed' /\ results'[i] = results[i]]_vars

(***************************************************************************)
(* The group is delivered in the end; only a vLLM coroutine may have       *)
(* raised: with SGLang neither an abort nor a continuation raises,         *)
(* whenever it comes.                                                      *)
(***************************************************************************)
GroupDelivered ==
    <>(phase = "delivered" \/ (backend = "vllm" /\ phase = "raised"))

(***************************************************************************)
(* The log-probabilities of a delivered response belong to its tokens, one *)
(* each and in order (reasoning_results.py:569 gives rollout_logprobs the  *)
(* "true response length"): always with vLLM, whose outputs are            *)
(* aggregated; with SGLang, whose merge keeps the newest meta_info, only   *)
(* for a group that no abort has touched.                                  *)
(***************************************************************************)
LogprobsMatchResponse ==
    phase = "delivered" /\ (backend = "vllm" \/ aborts = 0) =>
        \A i \in Seqs : results[i].logprobs = results[i].output_ids

-----------------------------------------------------------------------------
(***************************************************************************)
(* The inductive invariant behind these.  A sequence of a group on its way *)
(* is completed, aborted or has a task, one of the three; a task continues *)
(* exactly what is recorded, on what is left of the budget; a completed    *)
(* response has ended; and log-probabilities and tokens part only in an    *)
(* SGLang merge, which takes an abort.                                     *)
(***************************************************************************)
EachSequenceOnce ==
    /\ phase = "new" =>
         /\ idx_completed = {} /\ idx_aborted = {}
         /\ \A i \in Seqs : results[i] = None /\ requests[i] = None
    /\ phase \in {"generating", "aborted", "delivered"} =>
         /\ idx_completed \cap idx_aborted = {}
         /\ \A i \in Seqs :
              requests[i] = None <=> i \in idx_completed \cup idx_aborted
    /\ phase = "aborted" => idx_aborted # {} /\ \A i \in Seqs : requests[i] = None
    /\ phase = "delivered" => idx_completed = Seqs

TasksContinue ==
    phase = "generating" => \A i \in Seqs : requests[i] # None =>
        LET r == requests[i] IN
        /\ r.context = Generated(i)
        /\ r.limit = MaxNewTokens - Generated(i)
        /\ r.state = "returned" =>
             /\ r.finish \in Reasons
             /\ r.new <= r.limit
             /\ r.finish = "length" => r.new = r.limit

CompletedEnded ==
    /\ \A i \in idx_aborted : results[i] # None
    /\ \A i \in idx_completed :
         /\ results[i] # None
         /\ \/ results[i].finish = "stop"
            \/ results[i].finish = "length"
                 /\ Len(results[i].output_ids) = MaxNewTokens

MergedTogether ==
    /\ backend = "vllm" \/ aborts = 0 =>
         \A i \in Seqs : results[i] # None =>
             results[i].logprobs = results[i].output_ids
    /\ aborts = 0 =>
         /\ idx_aborted = {}
         /\ \A i \in Seqs : requests[i] # None =>
              /\ results[i] = None
              /\ ~requests[i].abort
              /\ requests[i].finish # "abort"

IInv ==
    /\ TypeOK /\ EachSequenceOnce /\ TasksContinue /\ ResponsesIntact
    /\ CompletedEnded /\ MergedTogether
=============================================================================
