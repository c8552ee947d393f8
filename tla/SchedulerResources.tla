-------------------------- MODULE SchedulerResources --------------------------
(***************************************************************************)
(* The static side of the dynamic scheduler: how the AUTO placement lays   *)
(* the components out on the cluster's GPUs (rlinf/utils/placement.py) and *)
(* the arithmetic by which the managers decide how many rollout instances  *)
(* to release and how far the actor may grow                               *)
(* (rlinf/scheduler/dynamic_scheduler/manager.py and utils.py).            *)
(*                                                                         *)
(* An instance of a component owns that component's model-parallel size in *)
(* GPUs.  GPUs are numbered from 0 in the order actor, rollout, inference. *)
(***************************************************************************)
EXTENDS Integers, FiniteSets

CONSTANTS
    RolloutInstances,    \* rollout_dp_size: init_instance_num of the rollout
    RolloutMP,           \* GPUs of one rollout instance
    InferenceInstances,  \* 0 when there is no dedicated inference
    InferenceMP,
    ActorInstances,      \* actor_world_size / ActorMP
    ActorMP,
    PromptsPerIter,      \* trainer_iter_batch_size / group_size
    MaxRunningRequests,  \* cfg.rollout.max_running_requests
    NMinibatches,        \* cfg.algorithm.n_minibatches
    UsePreProcess,       \* use_pre_process_policy as the scheduler reads it
    WorkersPreProcess    \* the same option as placement and workers read it

ASSUME ConfigAssumption ==
    /\ RolloutInstances \in Nat \ {0}
    /\ RolloutMP \in Nat \ {0}
    /\ InferenceInstances \in Nat
    /\ InferenceMP \in Nat \ {0}
    /\ ActorInstances \in Nat \ {0}
    /\ ActorMP \in Nat \ {0}
    /\ PromptsPerIter \in Nat \ {0}
    /\ MaxRunningRequests \in Nat \ {0}
    /\ NMinibatches \in Nat \ {0}
    /\ UsePreProcess \in BOOLEAN
    /\ WorkersPreProcess \in BOOLEAN

-----------------------------------------------------------------------------
(* Placement in AUTO mode. With the pre-process policy the rollout starts  *)
(* on the actor's GPUs as well as its own.                                 *)

ActorGpus == ActorInstances * ActorMP

RolloutBase == IF WorkersPreProcess THEN 0 ELSE ActorGpus

InferenceBase == RolloutBase + RolloutInstances * RolloutMP

TotalGpus == InferenceBase + InferenceInstances * InferenceMP

(* get_valid_dp_sizes: the data-parallel sizes that divide a train step's  *)
(* prompts evenly.                                                         *)
ValidDpSizes ==
    {d \in 1..(TotalGpus \div ActorMP) : PromptsPerIter % d = 0}

-----------------------------------------------------------------------------
CeilDiv(a, b) == (a + b - 1) \div b

(* The valid sizes an actor of `actor` instances could grow to with `gpus` *)
(* more GPUs. The code walks the sizes upwards and stops at the first that *)
(* does not fit, which is the largest of these.                            *)
Affordable(actor, gpus) ==
    {d \in ValidDpSizes : d > actor /\ (d - actor) * ActorMP <= gpus}

Largest(S) == CHOOSE d \in S : \A e \in S : e <= d

(* ActorManager.try_allocate, and the same loop in                         *)
(* find_release_instance_num_needed: the GPUs the actor grows by.          *)
Increment(actor, gpus) ==
    IF Affordable(actor, gpus) = {}
    THEN 0
    ELSE (Largest(Affordable(actor, gpus)) - actor) * ActorMP

(* RolloutManager.find_release_instance_num_needed: of at most `most`      *)
(* rollout instances, as many as the actor's next valid size needs.        *)
ReleaseNeeded(most, actor) ==
    CeilDiv(Increment(actor, most * RolloutMP), RolloutMP)

(* RolloutManager.migrate_policy: keep enough instances for the running    *)
(* tasks.                                                                  *)
MigratePolicy(rollout, actor, running) ==
    LET needed == CeilDiv(running, MaxRunningRequests)
    IN  IF rollout <= 1 \/ needed >= rollout
        THEN 0
        ELSE ReleaseNeeded(rollout - needed, actor)

(* RolloutManager.pre_process_impl: the instances on the actor's GPUs.     *)
PreRelease == ActorGpus \div RolloutMP

(* What placement.py and megatron_worker.py assert of a configuration      *)
(* before the scheduler runs: the actor's first size is a valid one, the   *)
(* largest valid size is the whole cluster, the actor's GPUs are a whole   *)
(* number of rollout instances, and the rollout has GPUs of its own.       *)
ASSUME PlacementAssumption ==
    /\ UsePreProcess = WorkersPreProcess
    /\ ActorInstances \in ValidDpSizes
    /\ TotalGpus \div ActorMP \in ValidDpSizes
    /\ (TotalGpus \div ActorMP) * ActorMP = TotalGpus
    /\ UsePreProcess => /\ PreRelease * RolloutMP = ActorGpus
                        /\ PreRelease < RolloutInstances

(* ActorManager.try_allocate asserts this once there is a model's worth of *)
(* free GPUs.                                                              *)
TryAllocateAsserts(actor, gpus) ==
    gpus >= ActorMP => /\ actor \in ValidDpSizes
                       /\ \E d \in ValidDpSizes : d > actor

=============================================================================
