--------------------------- MODULE DynamicScheduler ---------------------------
(***************************************************************************)
(* One or more global steps of training under the dynamic scheduler:       *)
(*                                                                         *)
(*  - SchedulerWorker and its three component managers (one coroutine),    *)
(*  - every rollout instance: its rollout() coroutine, the main_loop of    *)
(*    its RolloutScalingScheduler and the RunningStatusManager they share, *)
(*  - the actor's training loop and the inference's end-of-step signal,    *)
(*  - the request and response queues between them.                        *)
(*                                                                         *)
(* An action is what runs between two awaits.  A message put on a queue is *)
(* read at any later time, so a scatter to several instances is one step.  *)
(* A sequence group stands for all of its sequences, which are aborted or  *)
(* completed together (a group with one aborted sequence is aborted).      *)
(***************************************************************************)
EXTENDS SchedulerResources, SequencesExt

CONSTANTS
    Groups,             \* the sequence groups of one global step
    Requests,           \* [Instances -> SUBSET Groups]: each instance's share
    UseWaitBeforeLast,  \* use_wait_before_last_iter_policy
    MaxRounds,          \* bound: global steps explored
    None                \* the empty message

Instances == 0..(RolloutInstances - 1)

ASSUME RequestsAssumption ==
    /\ IsFiniteSet(Groups)
    /\ Requests \in [Instances -> (SUBSET Groups) \ {{}}]
    /\ UNION {Requests[i] : i \in Instances} = Groups
    /\ \A i, j \in Instances : i # j => Requests[i] \cap Requests[j] = {}
    /\ Cardinality(Groups) % NMinibatches = 0
    /\ None \notin Nat

VARIABLES
    spc,        \* where the scheduler coroutine waits
    iter,       \* train_iter of main_loop, -1 outside it
    cur,        \* current_instance_num of each manager
    available,  \* available_gpu_num
    reports,    \* RolloutManager.reports, the running tasks of each
    awaited,    \* the instances whose responses are being gathered
    req, resp,  \* the request and response queue of each rollout instance
    inst,       \* the rollout instances
    gen,        \* what has become of each group in the engine
    output,     \* how often each group was put on the output channel
    act,        \* the actor: its pc, train step and world size
    actorReq, actorResp,  \* the actor's request queue, its pending responses
    inf,        \* the inference: running or finished
    round

schedVars == <<spc, iter, cur, available, reports, awaited>>
instVars == <<inst, gen, output>>
actorVars == <<act, actorReq, actorResp>>
vars == <<schedVars, req, resp, instVars, actorVars, inf, round>>

Components == {"rollout", "inference", "actor"}

SchedPCs == {"pre_process", "report", "migrate_out", "finish", "wait_actor",
             "inference", "actor", "done"}

Messages ==
    [action : {"Report", "Migrate_Out", "Finish", "Wait_For_Finish"}]
        \cup [action : {"Migrate_In"}, data : Seq(Groups)]

Responses ==
    [action : {"Report"}, running : Nat, total : Nat]
        \cup [action : {"Migrate_Out"}, data : Seq(Groups)]
        \cup [action : {"Offloaded"}]

InstanceStates ==
    [roll    : {"idle", "wait", "process", "notify", "offload", "end", "failed"},
     todo    : SUBSET Groups,    \* asyncio.wait's tasks, or those it returned
     loop    : {"get", "migrate_out", "finish"},
     running : SUBSET Groups,    \* _running_seq_group
     done    : SUBSET Groups,    \* _done_seq_group
     aborted : Seq(Groups),      \* _aborted_seq_group
     event   : BOOLEAN]          \* exit_rollout_iter

TypeOK ==
    /\ spc \in SchedPCs
    /\ iter \in -1..(NMinibatches - 1)
    /\ cur \in [Components -> Nat]
    /\ available \in Nat
    /\ reports \in [Instances -> Nat]
    /\ awaited \subseteq Instances
    /\ req \in [Instances -> Seq(Messages)]
    /\ resp \in [Instances -> Seq(Responses)]
    /\ inst \in [Instances -> InstanceStates]
    /\ gen \in [Groups -> {"new", "gen", "completed", "aborted"}]
    /\ output \in [Groups -> Nat]
    /\ act \in [pc : {"pre", "train", "sync", "end"}, iter : 0..NMinibatches, world : Nat]
    /\ actorReq \in Seq({None} \cup Nat)
    /\ actorResp \in Nat
    /\ inf \in {"run", "finished"}
    /\ round \in Nat

InitCur ==
    [c \in Components |-> CASE c = "rollout"   -> RolloutInstances
                            [] c = "inference" -> InferenceInstances
                            [] c = "actor"     -> ActorInstances]

IdleInstance == [roll |-> "idle", todo |-> {}, loop |-> "get", running |-> {},
                 done |-> {}, aborted |-> <<>>, event |-> FALSE]

Init ==
    /\ spc = "pre_process"
    /\ iter = -1
    /\ cur = InitCur
    /\ available = 0
    /\ reports = [i \in Instances |-> 0]
    /\ awaited = {}
    /\ req = [i \in Instances |-> <<>>]
    /\ resp = [i \in Instances |-> <<>>]
    /\ inst = [i \in Instances |-> IdleInstance]
    /\ gen = [g \in Groups |-> "new"]
    /\ output = [g \in Groups |-> 0]
    /\ act = [pc |-> "pre", iter |-> 0, world |-> ActorGpus]
    /\ actorReq = <<>>
    /\ actorResp = 0
    /\ inf = "run"
    /\ round = 1

-----------------------------------------------------------------------------
(* The scheduler's messages to and from the rollout instances.             *)

LastIter == iter = NMinibatches - 1

(* current_instance_offset: what has been released since the reset.        *)
Offset == RolloutInstances - cur["rollout"]

(* _get_running_instances: the instances from the offset up.               *)
Alive == Offset..(RolloutInstances - 1)

(* running_instance_ids[:n]                                                *)
LowestAlive(n) == {i \in Alive : i < Offset + n}

Scatter(ids, action) ==
    req' = [i \in Instances |-> IF i \in ids
                                THEN Append(req[i], [action |-> action])
                                ELSE req[i]]

(* _gather_responses returns once every instance has answered.             *)
Answered(ids) == \A i \in ids : resp[i] # <<>>

Gather(ids) ==
    resp' = [i \in Instances |-> IF i \in ids THEN Tail(resp[i]) ELSE resp[i]]

(* The sum of the counts f[i], i in ids, as the size of a disjoint union.  *)
Sum(ids, f) == Cardinality(UNION {{i} \X (1..f[i]) : i \in ids})

RunningTasks == Sum(Alive, [i \in Alive |-> Head(resp[i]).running])
TotalTasks == Sum(Alive, [i \in Alive |-> Head(resp[i]).total])

AskReports == Scatter(Alive, "Report") /\ spc' = "report"

(* finish: Finish or Wait_For_Finish to all of ids, then their Offloaded.  *)
Finish(ids, action) ==
    /\ Scatter(ids, action)
    /\ awaited' = ids
    /\ spc' = "finish"

Migrate(n) ==
    /\ Scatter(LowestAlive(n), "Migrate_Out")
    /\ awaited' = LowestAlive(n)
    /\ spc' = "migrate_out"

-----------------------------------------------------------------------------
(* SchedulerWorker.pre_process.                                            *)

(* The other managers reset, the actor is told to start, and               *)
(* _DynamicSchedulerState.reset forgets the free GPUs.                     *)
EndPreProcess(rollout) ==
    /\ cur' = [InitCur EXCEPT !["rollout"] = rollout]
    /\ available' = 0
    /\ actorReq' = IF UsePreProcess THEN Append(actorReq, None) ELSE actorReq
    /\ iter' = 0
    /\ spc' = "wait_actor"

RolloutPreProcess ==
    /\ spc = "pre_process"
    /\ IF UsePreProcess
       THEN /\ cur' = [cur EXCEPT !["rollout"] = RolloutInstances]
            /\ req' = [i \in Instances |-> Append(req[i], [action |-> "Report"])]
            /\ spc' = "report"
            /\ UNCHANGED <<iter, available, actorReq>>
       ELSE EndPreProcess(RolloutInstances) /\ UNCHANGED req
    /\ UNCHANGED <<reports, awaited, resp, instVars, act, actorResp, inf, round>>

(* A variant of PreReady that does not ask whether all tasks are launched. *)
PreReadyEarly(total, running) == running <= Cardinality(Groups) \div 2

(* pre_process_impl's condition for giving the actor its GPUs back: every  *)
(* task has been launched and at most half of them still run.              *)
PreReady(total, running) ==
    total = Cardinality(Groups) /\ running <= Cardinality(Groups) \div 2

PreReports ==
    /\ spc = "report" /\ iter = -1 /\ Answered(Alive)
    /\ Gather(Alive)
    /\ reports' = [i \in Instances |-> IF i \in Alive THEN Head(resp[i]).running ELSE 0]
    /\ IF PreReady(TotalTasks, RunningTasks)
       THEN Migrate(PreRelease)
       ELSE AskReports /\ UNCHANGED awaited
    /\ UNCHANGED <<iter, cur, available, instVars, actorVars, inf, round>>

-----------------------------------------------------------------------------
(* SchedulerWorker.main_loop: the rollout's turn.                          *)

(* wait_for_actor_update, then release_or_allocate of the rollout.         *)
WaitActor ==
    /\ spc = "wait_actor" /\ actorResp > 0
    /\ actorResp' = actorResp - 1
    /\ IF cur["rollout"] = 0
       THEN spc' = "inference" /\ UNCHANGED <<req, awaited>>
       ELSE IF LastIter
            THEN Finish(Alive, "Finish")
            ELSE AskReports /\ UNCHANGED awaited
    /\ UNCHANGED <<iter, cur, available, reports, resp, instVars, act, actorReq,
                   inf, round>>

(* release_resource, once the reports are in.                              *)
MainReports ==
    /\ spc = "report" /\ iter >= 0 /\ Answered(Alive)
    /\ Gather(Alive)
    /\ reports' = [i \in Instances |-> IF i \in Alive THEN Head(resp[i]).running ELSE 0]
    /\ LET n == MigratePolicy(cur["rollout"], cur["actor"], RunningTasks)
       IN  IF RunningTasks = 0
           THEN Finish(Alive, "Finish")
           ELSE IF UseWaitBeforeLast /\ iter = NMinibatches - 2
           THEN Finish(Alive, "Wait_For_Finish")
           ELSE IF n = 0
           THEN spc' = "inference" /\ UNCHANGED <<req, awaited>>
           ELSE Migrate(n)
    /\ UNCHANGED <<iter, cur, available, instVars, actorVars, inf, round>>

(* _assign_sequences_sequential hands out the batches to the instances     *)
(* first, first + 1, ... in turn: each but the last is filled up to the    *)
(* average of the running tasks reported, the rest goes to the last.       *)
(* Assigned is how many are gone once i has its share.                     *)
Assigned(first, i, batches) ==
    LET expected == Sum(Instances, reports) \div (RolloutInstances - first)
        room == [j \in Instances |->
                    IF reports[j] < expected THEN expected - reports[j] ELSE 0]
        filled == Sum(first..i, room)
    IN  IF i = RolloutInstances - 1 \/ filled > Len(batches)
        THEN Len(batches) ELSE filled

Share(first, i, batches) ==
    SubSeq(batches, Assigned(first, i - 1, batches) + 1, Assigned(first, i, batches))

(* What the instances that migrate out have given back, in their order.    *)
MigrateOutBatches ==
    FlattenSeq([k \in 1..Cardinality(awaited) |-> Head(resp[Offset + k - 1]).data])

(* migrate: with what the instances migrated out gave back, Migrate_In to  *)
(* those that stay and get a share, Finish to those that leave.            *)
Migrated ==
    /\ spc = "migrate_out" /\ Answered(awaited)
    /\ Gather(awaited)
    /\ LET ShareOf(i) == Share(Offset + Cardinality(awaited), i, MigrateOutBatches)
       IN  req' = [i \in Instances |->
                     IF i \in awaited
                     THEN Append(req[i], [action |-> "Finish"])
                     ELSE IF i \in Alive /\ ShareOf(i) # <<>>
                     THEN Append(req[i], [action |-> "Migrate_In", data |-> ShareOf(i)])
                     ELSE req[i]]
    /\ spc' = "finish"
    /\ UNCHANGED <<iter, cur, available, reports, awaited, instVars, actorVars,
                   inf, round>>

(* A variant of ReleasedGpus that counts the instances that stay, too.     *)
ReleasedAll(n) == cur["rollout"] * RolloutMP

ReleasedGpus(n) == n * RolloutMP

(* finish has its Offloaded responses: the instances are released.         *)
Finished ==
    /\ spc = "finish" /\ Answered(awaited)
    /\ Gather(awaited)
    /\ LET n == Cardinality(awaited)
       IN  IF iter = -1
           THEN EndPreProcess(cur["rollout"] - n)
           ELSE /\ cur' = [cur EXCEPT !["rollout"] = @ - n]
                /\ available' = available + (IF LastIter THEN 0 ELSE ReleasedGpus(n))
                /\ spc' = "inference"
                /\ UNCHANGED <<iter, actorReq>>
    /\ awaited' = {}
    /\ UNCHANGED <<reports, req, instVars, act, actorResp, inf, round>>

-----------------------------------------------------------------------------
(* The inference's and the actor's turn.                                   *)

(* InferenceManager.release_resource under the wait policy.                *)
NeedWaitForFinish == iter = NMinibatches - 2 \/ cur["rollout"] = 0

InferenceBlocks ==
    /\ InferenceInstances > 0 /\ inf = "run"
    /\ \/ LastIter
       \/ cur["inference"] > 0 /\ UseWaitBeforeLast /\ NeedWaitForFinish

(* A variant of InferenceReleases that never waits for the rollout.        *)
InferenceReleasesEarly == ~LastIter /\ inf = "finished"

InferenceReleases ==
    /\ ~LastIter /\ inf = "finished"
    /\ UseWaitBeforeLast => NeedWaitForFinish

InferenceTurn ==
    /\ spc = "inference" /\ ~InferenceBlocks
    /\ LET n == IF InferenceReleases THEN cur["inference"] ELSE 0
       IN  /\ cur' = [cur EXCEPT !["inference"] = @ - n]
           /\ available' = available + n * InferenceMP
    /\ spc' = "actor"
    /\ UNCHANGED <<iter, reports, awaited, req, resp, instVars, actorVars, inf, round>>

(* ActorManager.main_loop_finalize: back to init_gpu_num; and a variant    *)
(* that leaves the actor as it is.                                         *)
KeepGpus == cur["actor"] * ActorMP

FinalGpus == ActorGpus

(* allocate_resource, or main_loop_finalize: scale sends the new world     *)
(* size, or None when it stays.                                            *)
ActorTurn ==
    /\ spc = "actor"
    /\ LET old == cur["actor"] * ActorMP
           grown == Increment(cur["actor"], available)
           new == IF LastIter THEN FinalGpus ELSE old + grown
       IN  /\ actorReq' = Append(actorReq, IF new = old THEN None ELSE new)
           /\ cur' = [cur EXCEPT !["actor"] = new \div ActorMP]
           /\ available' = IF LastIter THEN available ELSE available - grown
    /\ iter' = IF LastIter THEN -1 ELSE iter + 1
    /\ spc' = IF LastIter THEN "done" ELSE "wait_actor"
    /\ UNCHANGED <<reports, awaited, req, resp, instVars, act, actorResp, inf, round>>

Scheduler ==
    \/ RolloutPreProcess \/ PreReports \/ WaitActor \/ MainReports
    \/ Migrated \/ Finished \/ InferenceTurn \/ ActorTurn

-----------------------------------------------------------------------------
(* A rollout instance: the rollout() coroutine.                            *)

OthersUnchanged == UNCHANGED <<schedVars, req, actorVars, inf, round>>

(* rollout(): nothing may be left of an earlier step, or it raises.        *)
StartRollout(i) ==
    /\ inst[i].roll = "idle"
    /\ IF inst[i].running = {} /\ inst[i].done = {} /\ inst[i].aborted = <<>>
       THEN /\ inst' = [inst EXCEPT ![i].roll = "wait", ![i].todo = Requests[i],
                                    ![i].running = Requests[i]]
            /\ gen' = [g \in Groups |-> IF g \in Requests[i] THEN "gen" ELSE gen[g]]
       ELSE inst' = [inst EXCEPT ![i].roll = "failed"] /\ UNCHANGED gen
    /\ UNCHANGED <<output, resp>> /\ OthersUnchanged

(* asyncio.wait(pending, FIRST_COMPLETED) returns the tasks that are done. *)
Returned(i) == {g \in inst[i].todo : gen[g] \in {"completed", "aborted"}}

WaitReturns(i) ==
    /\ inst[i].roll = "wait" /\ Returned(i) # {}
    /\ inst' = [inst EXCEPT ![i].roll = "process", ![i].todo = Returned(i)]
    /\ UNCHANGED <<gen, output, resp>> /\ OthersUnchanged

(* The loop over the returned groups takes g off and goes on; after the    *)
(* last one rollout() waits for the tasks still running, or, when there    *)
(* are none, for the scheduler's notification.                             *)
TakeOff(s, g) ==
    LET left == s.todo \ {g}
        running == s.running \ {g}
    IN  IF left # {}
        THEN [s EXCEPT !.todo = left, !.running = running]
        ELSE IF running # {}
        THEN [s EXCEPT !.todo = running, !.running = running, !.roll = "wait"]
        ELSE [s EXCEPT !.todo = {}, !.running = {}, !.roll = "notify"]

(* A completed group is put on the output channel; rollout() awaits that   *)
(* put before it marks the group done.                                     *)
Putting(i) == {g \in inst[i].todo : gen[g] = "completed" /\ output[g] > 0}

PutResult(i) ==
    /\ inst[i].roll = "process" /\ Putting(i) = {}
    /\ \E g \in inst[i].todo :
          /\ gen[g] = "completed"
          /\ output' = [output EXCEPT ![g] = @ + 1]
    /\ UNCHANGED <<inst, gen, resp>> /\ OthersUnchanged

MarkDone(i) ==
    /\ inst[i].roll = "process"
    /\ \E g \in Putting(i) :
          inst' = [inst EXCEPT ![i] = [TakeOff(inst[i], g) EXCEPT !.done = @ \cup {g}]]
    /\ UNCHANGED <<gen, output, resp>> /\ OthersUnchanged

MarkAborted(i) ==
    /\ inst[i].roll = "process" /\ Putting(i) = {}
    /\ \E g \in inst[i].todo :
          /\ gen[g] = "aborted"
          /\ inst' = [inst EXCEPT ![i] =
                         [TakeOff(inst[i], g) EXCEPT !.aborted = Append(@, g)]]
    /\ UNCHANGED <<gen, output, resp>> /\ OthersUnchanged

(* A variant of WaitNotification that leaves the event set.                *)
WaitWithoutClear(s) == s

(* wait_notification clears the event it has waited for.                   *)
WaitNotification(s) == [s EXCEPT !.event = FALSE]

(* Notified: go on with what has been migrated in, or leave the loop:      *)
(* RunningStatusManager.clear, then offload.                               *)
Notified(i) ==
    /\ inst[i].roll = "notify" /\ inst[i].event
    /\ LET s == WaitNotification(inst[i])
       IN  inst' = [inst EXCEPT ![i] =
              IF s.running # {}
              THEN [s EXCEPT !.roll = "wait", !.todo = s.running]
              ELSE [s EXCEPT !.roll = "offload", !.done = {}, !.aborted = <<>>,
                             !.event = FALSE]]
    /\ UNCHANGED <<gen, output, resp>> /\ OthersUnchanged

(* offload_engine and report_offloaded.                                    *)
Offload(i) ==
    /\ inst[i].roll = "offload"
    /\ inst' = [inst EXCEPT ![i].roll = "end"]
    /\ resp' = [resp EXCEPT ![i] = Append(@, [action |-> "Offloaded"])]
    /\ UNCHANGED <<gen, output>> /\ OthersUnchanged

RolloutCoroutine(i) ==
    \/ StartRollout(i) \/ WaitReturns(i) \/ PutResult(i) \/ MarkDone(i)
    \/ MarkAborted(i) \/ Notified(i) \/ Offload(i)

(* The engine finishes a group, external to this code.                     *)
Generate(g) ==
    /\ gen[g] = "gen"
    /\ gen' = [gen EXCEPT ![g] = "completed"]
    /\ UNCHANGED <<schedVars, req, resp, inst, output, actorVars, inf, round>>

-----------------------------------------------------------------------------
(* A rollout instance: RolloutScalingScheduler.main_loop.                  *)

Report(i) ==
    [action  |-> "Report",
     running |-> Cardinality({g \in inst[i].running : gen[g] = "gen"}),
     total   |-> Cardinality(inst[i].running \cup inst[i].done)]

(* _migrate_in: an idle rollout() is waiting for a notification; and a     *)
(* variant that forgets about it.                                          *)
NeverNotifies(s) == FALSE

NotifiesOnMigrateIn(s) == s.running = {}

MigrateIn(i, batches) ==
    LET data == ToSet(batches)
    IN  /\ inst' = [inst EXCEPT ![i].event = @ \/ NotifiesOnMigrateIn(inst[i]),
                                ![i].running = @ \cup data]
        /\ gen' = [g \in Groups |-> IF g \in data THEN "gen" ELSE gen[g]]

(* abort_generation: the engine returns everything it was generating.      *)
Abort(i) ==
    gen' = [g \in Groups |-> IF g \in inst[i].running /\ gen[g] = "gen"
                             THEN "aborted" ELSE gen[g]]

MainLoopGet(i) ==
    /\ inst[i].loop = "get" /\ req[i] # <<>>
    /\ req' = [req EXCEPT ![i] = Tail(@)]
    /\ LET request == Head(req[i])
       IN  \/ /\ request.action = "Report"
              /\ resp' = [resp EXCEPT ![i] = Append(@, Report(i))]
              /\ UNCHANGED <<inst, gen>>
           \/ /\ request.action = "Migrate_In"
              /\ MigrateIn(i, request.data)
              /\ UNCHANGED resp
           \/ /\ request.action = "Migrate_Out"
              /\ Abort(i)
              /\ inst' = [inst EXCEPT ![i].loop = "migrate_out"]
              /\ UNCHANGED resp
           \/ /\ request.action \in {"Finish", "Wait_For_Finish"}
              /\ inst' = [inst EXCEPT ![i].loop = "finish"]
              /\ UNCHANGED <<gen, resp>>
    /\ UNCHANGED <<schedVars, output, actorVars, inf, round>>

(* _wait_until_no_running_task; and a variant that asks the engine         *)
(* instead of the status manager.                                          *)
EngineIdle(s) == \A g \in s.running : gen[g] # "gen"

NoRunningTask(s) == s.running = {}

MigratedOut(i) ==
    /\ inst[i].loop = "migrate_out" /\ NoRunningTask(inst[i])
    /\ resp' = [resp EXCEPT ![i] =
                   Append(@, [action |-> "Migrate_Out", data |-> inst[i].aborted])]
    /\ inst' = [inst EXCEPT ![i].loop = "get"]
    /\ UNCHANGED <<schedVars, req, gen, output, actorVars, inf, round>>

NotifyFinish(i) ==
    /\ inst[i].loop = "finish" /\ NoRunningTask(inst[i])
    /\ inst' = [inst EXCEPT ![i].loop = "get", ![i].event = TRUE]
    /\ UNCHANGED <<schedVars, req, resp, gen, output, actorVars, inf, round>>

MainLoop(i) == MainLoopGet(i) \/ MigratedOut(i) \/ NotifyFinish(i)

-----------------------------------------------------------------------------
(* The actor's run_training_pipeline, the inference and the runner.        *)

Delivered == {g \in Groups : output[g] > 0}

GroupsPerIter == Cardinality(Groups) \div NMinibatches

(* scheduler_pre_process waits for the scheduler's signal.                 *)
ActorPreProcess ==
    /\ act.pc = "pre"
    /\ IF WorkersPreProcess
       THEN actorReq # <<>> /\ actorReq' = Tail(actorReq)
       ELSE UNCHANGED actorReq
    /\ act' = [act EXCEPT !.pc = "train"]
    /\ UNCHANGED <<schedVars, req, resp, instVars, actorResp, inf, round>>

(* training_step consumes a mini-batch; scheduler_scale_sync then reports. *)
ActorTrain ==
    /\ act.pc = "train"
    /\ Cardinality(Delivered) >= (act.iter + 1) * GroupsPerIter
    /\ act' = [act EXCEPT !.pc = "sync"]
    /\ actorResp' = actorResp + 1
    /\ UNCHANGED <<schedVars, req, resp, instVars, actorReq, inf, round>>

(* ... and applies the world size it is answered with.                     *)
ActorScale ==
    /\ act.pc = "sync" /\ actorReq # <<>>
    /\ actorReq' = Tail(actorReq)
    /\ act' = [act EXCEPT
                 !.world = IF Head(actorReq) = None THEN @ ELSE Head(actorReq),
                 !.iter = @ + 1,
                 !.pc = IF act.iter + 1 = NMinibatches THEN "end" ELSE "train"]
    /\ UNCHANGED <<schedVars, req, resp, instVars, actorResp, inf, round>>

Actor == ActorPreProcess \/ ActorTrain \/ ActorScale

(* run_inference has seen every group: scheduler_offload_sync.             *)
InferenceFinishes ==
    /\ inf = "run" /\ InferenceInstances > 0 /\ Delivered = Groups
    /\ inf' = "finished"
    /\ UNCHANGED <<schedVars, req, resp, instVars, actorVars, round>>

(* ReasoningRunner.run: the next global step starts once the scheduler,    *)
(* the actor, the rollout and the inference have returned.                 *)
NextRound ==
    /\ round < MaxRounds
    /\ spc = "done" /\ act.pc = "end"
    /\ \A i \in Instances : inst[i].roll = "end"
    /\ InferenceInstances > 0 => inf = "finished"
    /\ round' = round + 1
    /\ spc' = "pre_process"
    /\ inst' = [i \in Instances |-> [inst[i] EXCEPT !.roll = "idle"]]
    /\ gen' = [g \in Groups |-> "new"]
    /\ output' = [g \in Groups |-> 0]
    /\ act' = [act EXCEPT !.pc = "pre", !.iter = 0]
    /\ inf' = "run"
    /\ UNCHANGED <<iter, cur, available, reports, awaited, req, resp, actorReq,
                   actorResp>>

Next ==
    \/ Scheduler
    \/ \E i \in Instances : RolloutCoroutine(i) \/ MainLoop(i)
    \/ \E g \in Groups : Generate(g)
    \/ Actor
    \/ InferenceFinishes
    \/ NextRound

Spec == Init /\ [][Next]_vars

(* Every coroutine and process runs, and the engine finishes what it       *)
(* generates.                                                              *)
Fairness ==
    /\ WF_vars(Scheduler)
    /\ \A i \in Instances : WF_vars(RolloutCoroutine(i)) /\ WF_vars(MainLoop(i))
    /\ \A g \in Groups : WF_vars(Generate(g))
    /\ WF_vars(Actor)
    /\ WF_vars(InferenceFinishes)

FairSpec == Spec /\ Fairness

-----------------------------------------------------------------------------
(* The GPUs of the cluster. A rollout instance holds its GPUs from the     *)
(* weight sync before the step until it has offloaded; the actor holds     *)
(* those of its world size, except while the rollout borrows them.         *)

RolloutGpus(i) ==
    (RolloutBase + i * RolloutMP)..(RolloutBase + (i + 1) * RolloutMP - 1)

HoldsGpus(i) == inst[i].roll # "end"

ActorHolds == IF WorkersPreProcess /\ act.pc = "pre" THEN {} ELSE 0..(act.world - 1)

(* The actor never trains on a GPU that a rollout instance has not         *)
(* offloaded from or that the inference still uses: "Acquire the GPUs to   *)
(* ensure that no one is using them before loading models".                *)
ActorGpusFree ==
    /\ \A i \in Instances : HoldsGpus(i) => RolloutGpus(i) \cap ActorHolds = {}
    /\ inf = "run" => (InferenceBase..(TotalGpus - 1)) \cap ActorHolds = {}

(* Where a group is: with an instance that has not started, running on an  *)
(* instance, aborted and not yet handed over, in a message, or delivered.  *)
Places(g) ==
    {<<"new", i>> : i \in {j \in Instances : inst[j].roll = "idle" /\ g \in Requests[j]}}
    \cup {<<"running", i>> : i \in {j \in Instances : g \in inst[j].running}}
    \cup {<<"aborted", i>> : i \in {j \in Instances :
              inst[j].loop = "migrate_out" /\ Contains(inst[j].aborted, g)}}
    \cup (UNION {{<<"response", i, k>> : k \in {l \in 1..Len(resp[i]) :
               resp[i][l].action = "Migrate_Out" /\ Contains(resp[i][l].data, g)}}
               : i \in Instances})
    \cup (UNION {{<<"request", i, k>> : k \in {l \in 1..Len(req[i]) :
               req[i][l].action = "Migrate_In" /\ Contains(req[i][l].data, g)}}
               : i \in Instances})
    \cup (IF output[g] > 0 /\ \A i \in Instances : g \notin inst[i].running
          THEN {<<"delivered", output[g]>>} ELSE {})

(* Migration neither loses nor duplicates a sequence group: at any time it *)
(* is in exactly one place, and it is delivered at most once.              *)
OnePlace == \A g \in Groups : Cardinality(Places(g)) = 1 /\ output[g] <= 1

(* An instance leaves its rollout loop only when the scheduler has told it *)
(* to: exit_rollout_iter is there "to prevent rollout coroutine from       *)
(* exiting before potential migrations".                                   *)
StaysForMigrations ==
    \A i \in Alive : inst[i].roll \in {"offload", "end"} /\ spc \notin {"pre_process", "done"}
        => spc = "finish" /\ i \in awaited

(* rollout()'s assertion that no sequence group is left of an earlier      *)
(* step or has been migrated in before it starts.                          *)
StartsEmpty == \A i \in Instances : inst[i].roll # "failed"

(* "GPU resources of actor should be scale-down to init_gpu_num" after the *)
(* last train step.                                                        *)
ActorScaledDown == act.pc = "end" => act.world = ActorGpus

(* The scheduler keeps the books of GpuLedger.                             *)
Ledger ==
    INSTANCE GpuLedger WITH
        iter <- IF iter = -1 THEN 0 ELSE iter,
        turn <- IF iter = -1 THEN "pre_process"
                ELSE IF spc \in {"inference", "actor"} THEN spc
                ELSE "rollout"

KeepsLedger == Ledger!Spec

(***************************************************************************)
(* The inductive invariant behind KeepsLedger, ActorScaledDown,            *)
(* StaysForMigrations and ActorGpusFree.  First the scheduler: where it    *)
(* is, what it has released and which instances it is waiting for.         *)
(***************************************************************************)
Releasing ==
    \E most \in 1..(cur["rollout"] - 1) :
        awaited = LowestAlive(ReleaseNeeded(most, cur["actor"]))

BooksInv ==
    /\ cur["rollout"] <= RolloutInstances
    /\ spc \in {"pre_process", "done"} => iter = -1
    /\ spc \in {"wait_actor", "inference", "actor"} => iter >= 0
    /\ iter = -1 => cur["actor"] = ActorInstances
    /\ spc \in {"report", "migrate_out", "finish"} /\ iter = -1 =>
          UsePreProcess /\ cur["rollout"] = RolloutInstances
    /\ spc \in {"migrate_out", "finish"} /\ iter = -1 => awaited = LowestAlive(PreRelease)
    /\ spc \in {"report", "migrate_out"} /\ iter >= 0 => ~LastIter
    /\ spc = "migrate_out" /\ iter >= 0 => Releasing
    /\ spc = "finish" /\ iter >= 0 => awaited = Alive \/ (~LastIter /\ Releasing)
    /\ spc = "done" \/ (LastIter /\ spc \in {"inference", "actor"}) => cur["rollout"] = 0

(* The actor and the scheduler take turns: the actor reports a train step  *)
(* once and then waits for the one answer, which says what the scheduler   *)
(* has booked for it.                                                      *)
PreProcessing == iter = -1 /\ spc # "done"

ActorTrains ==
    /\ act.pc \in {"train", "sync"}
    /\ actorReq = <<>> /\ actorResp = IF act.pc = "sync" THEN 1 ELSE 0
    /\ act.iter < NMinibatches
    /\ \/ spc = "wait_actor" /\ iter = act.iter
       \/ PreProcessing /\ act.iter = 0 /\ ~UsePreProcess

ActorWaits ==
    /\ act.pc = "sync" /\ actorResp = 0
    /\ \/ /\ actorReq = <<>>
          /\ iter = act.iter /\ spc \notin {"pre_process", "wait_actor", "done"}
       \/ /\ Len(actorReq) = 1
          /\ IF iter = -1 THEN spc = "done" /\ act.iter = NMinibatches - 1
                          ELSE spc = "wait_actor" /\ iter = act.iter + 1

ActorInv ==
    \/ /\ act.pc = "pre" /\ act.iter = 0 /\ actorResp = 0
       /\ \/ PreProcessing /\ actorReq = <<>>
          \/ /\ spc = "wait_actor" /\ iter = 0
             /\ actorReq = IF UsePreProcess THEN <<None>> ELSE <<>>
    \/ ActorTrains
    \/ ActorWaits
    \/ act.pc = "end" /\ actorResp = 0 /\ actorReq = <<>> /\ spc = "done"

Promised == IF actorReq = <<>> \/ actorReq[1] = None THEN act.world ELSE actorReq[1]

WorldInv == Promised = cur["actor"] * ActorMP

(* A rollout instance and the scheduler: what the scheduler has asked of i *)
(* and has no answer to yet.  At most a Migrate_In may wait before it.     *)
Due(i) ==
    IF spc = "report" /\ i \in Alive THEN {"Report"}
    ELSE IF spc = "migrate_out" /\ i \in awaited THEN {"Migrate_Out"}
    ELSE IF spc = "finish" /\ i \in awaited THEN {"Finish", "Wait_For_Finish"}
    ELSE {}

IsMigrateIn(m) == m.action = "Migrate_In" /\ m.data # <<>>

Asked(i) ==
    \/ Len(req[i]) = 1 /\ req[i][1].action \in Due(i)
    \/ Len(req[i]) = 2 /\ IsMigrateIn(req[i][1]) /\ req[i][2].action \in Due(i)

Unasked(i) ==
    /\ Due(i) = {}
    /\ \/ req[i] = <<>>
       \/ Len(req[i]) = 1 /\ IsMigrateIn(req[i][1]) /\ spc # "migrate_out"

(* It has been told to finish, and has left the loop or can.               *)
Told(i) ==
    /\ req[i] = <<>> /\ inst[i].loop = "get"
    /\ \/ /\ inst[i].roll \notin {"offload", "end"} /\ inst[i].event /\ resp[i] = <<>>
          /\ inst[i].roll = "notify" => inst[i].running = {}
       \/ inst[i].roll = "offload" /\ ~inst[i].event /\ resp[i] = <<>>
       \/ /\ inst[i].roll = "end" /\ ~inst[i].event
          /\ Len(resp[i]) = 1 /\ resp[i][1].action = "Offloaded"

(* It has not been told to finish: it stays, and a pending notification is *)
(* one of groups that have been migrated in.                               *)
Stays(i) ==
    /\ inst[i].roll \notin {"offload", "end"}
    /\ inst[i].event => /\ inst[i].running # {}
                        /\ inst[i].roll \in {"idle", "notify", "failed"}

Left(i) == /\ inst[i].roll = "end" /\ ~inst[i].event /\ inst[i].loop = "get"
           /\ req[i] = <<>> /\ resp[i] = <<>>

Takes(i) == i \in Alive \/ spc = "pre_process"

Talk(i) ==
    \/ ~Takes(i) /\ Left(i)
    \/ /\ Takes(i) /\ Stays(i)
       /\ Unasked(i) \/ Asked(i)
       /\ resp[i] = <<>> /\ inst[i].loop = "get"
    \/ /\ Takes(i) /\ Stays(i)
       /\ Due(i) \in {{"Report"}, {"Migrate_Out"}}
       /\ req[i] = <<>> /\ inst[i].loop = "get"
       /\ Len(resp[i]) = 1 /\ resp[i][1].action \in Due(i)
    \/ /\ Takes(i) /\ Stays(i)
       /\ \/ Due(i) = {"Migrate_Out"} /\ inst[i].loop = "migrate_out"
          \/ Due(i) = {"Finish", "Wait_For_Finish"} /\ inst[i].loop = "finish"
       /\ req[i] = <<>> /\ resp[i] = <<>>
    \/ Takes(i) /\ Due(i) = {"Finish", "Wait_For_Finish"} /\ Told(i)

InstanceInv(i) ==
    /\ inst[i].todo \subseteq inst[i].running
    /\ inst[i].roll \in {"wait", "process"} => inst[i].running # {}
    /\ Talk(i)

TalkInv == \A i \in Instances : InstanceInv(i)

(* What the actor has or has been promised ends below the GPUs of the      *)
(* rollout instances that have not left, and below the inference's until   *)
(* it has finished.  The wait policy makes the rollout leave as a whole    *)
(* before the last train step.                                             *)
ActorBelow(n) ==
    /\ cur["rollout"] > 0 => n <= RolloutBase + Offset * RolloutMP
    /\ inf = "run" /\ InferenceInstances > 0 => n <= InferenceBase

LeavesWhole ==
    UseWaitBeforeLast /\ iter = NMinibatches - 2 /\ iter >= 0 =>
        /\ spc # "migrate_out"
        /\ spc = "finish" => awaited = Alive
        /\ spc = "inference" => cur["rollout"] = 0

GpusInv ==
    /\ LeavesWhole
    /\ iter >= 0 /\ inf = "run" => cur["inference"] = InferenceInstances
    /\ spc = "done" \/ (LastIter /\ spc = "actor") =>
          inf = "finished" \/ InferenceInstances = 0
    /\ iter >= 0 => cur["inference"] = InferenceInstances \/ cur["rollout"] = 0
    /\ iter >= 0 => ActorBelow(act.world) /\ ActorBelow(cur["actor"] * ActorMP)

IInv == TypeOK /\ BooksInv /\ ActorInv /\ WorldInv /\ TalkInv

(***************************************************************************)
(* The inductive invariant behind StartsEmpty.  Until the reports of the   *)
(* pre-process phase show that every group has been launched, an instance  *)
(* that has started still has all of its own groups and no other, and what *)
(* it reports is at most their number.                                     *)
(***************************************************************************)
Launching == spc = "pre_process" \/ (spc = "report" /\ iter = -1)

Fresh(i) == inst[i].running = {} /\ inst[i].done = {} /\ inst[i].aborted = <<>>

HasOwn(i) ==
    /\ inst[i].running \cup inst[i].done = Requests[i]
    /\ inst[i].aborted = <<>>

LaunchInv(i) ==
    /\ inst[i].roll # "idle" => HasOwn(i)
    /\ req[i] # <<>> => req[i][1].action # "Migrate_In"
    /\ resp[i] # <<>> =>
          /\ resp[i][1].total <= Cardinality(Requests[i])
          /\ inst[i].roll = "idle" => resp[i][1].total = 0

FreshInv(i) ==
    /\ inst[i].roll # "failed"
    /\ inst[i].roll \in {"idle", "offload", "end"} => Fresh(i)
    /\ IF Launching THEN LaunchInv(i) ELSE inst[i].roll # "idle"

StartInv ==
    /\ \A i \in Instances : FreshInv(i)
    /\ Launching => \A g \in Groups : gen[g] # "aborted"

(***************************************************************************)
(* The inductive invariant behind OnePlace.  Has(k, i, g): instance i, or  *)
(* a message to or from it, has group g in the way k.                      *)
(***************************************************************************)
Kinds == {"new", "running", "aborted", "response", "request"}

Has(k, i, g) ==
    \/ k = "new" /\ inst[i].roll = "idle" /\ g \in Requests[i]
    \/ k = "running" /\ g \in inst[i].running
    \/ k = "aborted" /\ inst[i].loop = "migrate_out" /\ Contains(inst[i].aborted, g)
    \/ /\ k = "response" /\ resp[i] # <<>>
       /\ resp[i][1].action = "Migrate_Out" /\ Contains(resp[i][1].data, g)
    \/ /\ k = "request" /\ req[i] # <<>>
       /\ req[i][1].action = "Migrate_In" /\ Contains(req[i][1].data, g)

(* One holder, which is the engine's as long as the group is delivered and *)
(* not yet marked done; or none, once it has been delivered.               *)
OneHolder(g) ==
    \A k, l \in Kinds, i, j \in Instances : Has(k, i, g) /\ Has(l, j, g) => k = l /\ i = j

Whereabouts(g) ==
    /\ OneHolder(g)
    /\ output[g] = 0 => \E k \in Kinds, i \in Instances : Has(k, i, g)
    /\ output[g] > 0 => /\ output[g] = 1 /\ gen[g] = "completed"
                        /\ \A k \in Kinds, i \in Instances : Has(k, i, g) => k = "running"

(* An instance has aborted groups only from its Migrate_Out to its Finish, *)
(* and each of them once.                                                  *)
AbortsInv(i) ==
    /\ \A g \in inst[i].running : gen[g] = "aborted" => inst[i].loop = "migrate_out"
    /\ inst[i].aborted # <<>> =>
          \/ inst[i].loop = "migrate_out"
          \/ spc = "migrate_out" /\ i \in awaited /\ req[i] = <<>>
          \/ spc = "finish" /\ i \in awaited
    /\ inst[i].loop = "migrate_out" => IsInjective(inst[i].aborted)
    /\ resp[i] # <<>> /\ resp[i][1].action = "Migrate_Out" => IsInjective(resp[i][1].data)

PlaceInv ==
    /\ \A g \in Groups : Whereabouts(g)
    /\ \A i \in Instances : AbortsInv(i)

(* Every global step ends: the scheduler never waits for a response that   *)
(* does not come.                                                          *)
StepsEnd == spc = "pre_process" ~> spc = "done"

=============================================================================
