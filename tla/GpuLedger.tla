------------------------------ MODULE GpuLedger ------------------------------
(***************************************************************************)
(* What the dynamic scheduler promises about GPUs, without the messages it *)
(* takes to carry it out: one global step of training as a sequence of     *)
(* turns of the component managers over the scheduler's books.             *)
(*                                                                         *)
(*   cur        current_instance_num of each ComponentManager              *)
(*   available  available_gpu_num of _DynamicSchedulerState                *)
(*   iter       train_iter of SchedulerWorker.main_loop                    *)
(*   turn       the component of the workflow whose turn it is             *)
(*                                                                         *)
(* DynamicScheduler implements this specification.                         *)
(***************************************************************************)
EXTENDS SchedulerResources

VARIABLES cur, available, iter, turn

vars == <<cur, available, iter, turn>>

Components == {"rollout", "inference", "actor"}

TypeOK ==
    /\ cur \in [Components -> Nat]
    /\ available \in Nat
    /\ iter \in 0..(NMinibatches - 1)
    /\ turn \in {"pre_process", "rollout", "inference", "actor"}

(* ComponentManager.reset                                                  *)
InitCur ==
    [c \in Components |-> CASE c = "rollout"   -> RolloutInstances
                            [] c = "inference" -> InferenceInstances
                            [] c = "actor"     -> ActorInstances]

Init ==
    /\ cur = InitCur
    /\ available = 0
    /\ iter = 0
    /\ turn = "pre_process"

LastIter == iter = NMinibatches - 1

(* The rollout's manager resets itself at the start of a global step and   *)
(* may then stay in its pre-processing for a while.                        *)
RolloutReset ==
    /\ turn = "pre_process"
    /\ cur' = [cur EXCEPT !["rollout"] = RolloutInstances]
    /\ UNCHANGED <<available, iter, turn>>

(* A variant of PreProcess that does not reset available_gpu_num.          *)
PreProcessWithoutReset ==
    /\ turn = "pre_process"
    /\ cur' = [InitCur EXCEPT !["rollout"] =
                    IF UsePreProcess THEN @ - PreRelease ELSE @]
    /\ turn' = "rollout"
    /\ UNCHANGED <<available, iter>>

(* SchedulerWorker.pre_process: with the policy, the rollout gives the     *)
(* actor its GPUs back; available_gpu_num is then reset.                   *)
PreProcess ==
    /\ turn = "pre_process"
    /\ cur' = [InitCur EXCEPT !["rollout"] =
                    IF UsePreProcess THEN @ - PreRelease ELSE @]
    /\ available' = 0
    /\ turn' = "rollout"
    /\ UNCHANGED iter

(* The instances RolloutManager.release_resource can release: none, all    *)
(* (finish), or what migrate_policy says.                                  *)
RolloutReleases ==
    {0, cur["rollout"]}
        \cup {ReleaseNeeded(most, cur["actor"]) : most \in 1..(cur["rollout"] - 1)}

RolloutTurn ==
    /\ turn = "rollout"
    /\ IF LastIter
       THEN /\ cur' = [cur EXCEPT !["rollout"] = 0]
            /\ UNCHANGED available
       ELSE \E n \in RolloutReleases :
                /\ cur' = [cur EXCEPT !["rollout"] = @ - n]
                /\ available' = available + n * RolloutMP
    /\ turn' = "inference"
    /\ UNCHANGED iter

(* A variant of InferenceTurn that releases again what it has released.    *)
InferenceTurnTwice ==
    /\ turn = "inference"
    /\ \E n \in {0, cur["inference"]} :
          /\ available' = available + n * InferenceMP
          /\ UNCHANGED cur
    /\ turn' = "actor"
    /\ UNCHANGED iter

(* InferenceManager: all of its instances or none.                         *)
InferenceTurn ==
    /\ turn = "inference"
    /\ \E n \in {0, cur["inference"]} :
          IF LastIter
          THEN UNCHANGED <<cur, available>>
          ELSE /\ cur' = [cur EXCEPT !["inference"] = @ - n]
               /\ available' = available + n * InferenceMP
    /\ turn' = "actor"
    /\ UNCHANGED iter

(* ActorManager.allocate_resource, or main_loop_finalize after the last    *)
(* train step.                                                             *)
ActorTurn ==
    /\ turn = "actor"
    /\ IF LastIter
       THEN /\ cur' = [cur EXCEPT !["actor"] = ActorInstances]
            /\ UNCHANGED available
       ELSE LET grown == Increment(cur["actor"], available)
            IN  /\ cur' = [cur EXCEPT !["actor"] = (@ * ActorMP + grown) \div ActorMP]
                /\ available' = available - grown
    /\ iter' = IF LastIter THEN 0 ELSE iter + 1
    /\ turn' = IF LastIter THEN "pre_process" ELSE "rollout"

Next ==
    RolloutReset \/ PreProcess \/ RolloutTurn \/ InferenceTurn \/ ActorTurn

Spec == Init /\ [][Next]_vars

-----------------------------------------------------------------------------
GpusOwned ==
    cur["rollout"] * RolloutMP + cur["inference"] * InferenceMP
        + cur["actor"] * ActorMP

(* While the train steps of a global step are being scheduled, every GPU   *)
(* of the cluster is either owned by exactly one component or counted in   *)
(* available_gpu_num: releasing and allocating neither lose nor invent one. *)
GpusConserved ==
    turn \in {"rollout", "inference", "actor"} /\ ~(LastIter /\ turn # "rollout")
        => GpusOwned + available = TotalGpus

(* try_allocate's assertion never fails when the actor's turn comes before *)
(* the last train step: the actor has a valid size, and if GPUs are free   *)
(* there is a larger size to grow to.                                      *)
AllocateNeverAsserts ==
    turn = "actor" /\ ~LastIter => TryAllocateAsserts(cur["actor"], available)

(* The actor only ever has a size the training step was configured for.    *)
ActorSizeValid == cur["actor"] \in ValidDpSizes

=============================================================================
