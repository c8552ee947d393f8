--------------------------- MODULE AsyncTraining ----------------------------
(***************************************************************************)
(* Asynchronous PPO for embodied tasks.  Environment and rollout workers    *)
(* run for ever and exchange observations and actions; the actor trains on  *)
(* the trajectories that reach it; the runner drives the training steps and *)
(* moves the new weights to the rollout workers, waiting for the transfer   *)
(* or (sync_weight_no_wait) letting it land in the background.              *)
(*                                                                         *)
(* A weight is the number of the training step that last changed it.        *)
(* One actor rank; env worker w talks to rollout worker w; one pipeline     *)
(* stage and one rollout epoch.  RPCs of the runner to one worker start in  *)
(* the order they are submitted.                                            *)
(***************************************************************************)
EXTENDS Integers, Sequences, FiniteSets, SequencesExt

CONSTANTS Workers,     \* ranks of the rollout group and of the env group
          Params,      \* the parameters of the model
          Updates,     \* the sets of parameters one training step may change
          Modes,       \* the configurations explored, see mode
          MaxSteps,    \* runner.max_steps
          Staleness,   \* algorithm.staleness_threshold
          StoreSize,   \* algorithm.rollout_store_size_per_rank
          NChunks,     \* n_train_chunk_steps
          QueueBound   \* bound: trajectories on their way to the actor's store

ASSUME AsyncAssumption ==
    /\ Params # {} /\ IsFiniteSet(Params)
    /\ Updates \subseteq SUBSET Params
    /\ Modes \subseteq [noWait : BOOLEAN, syncer : {"patch", "bucket"},
                       init : SUBSET Params, onPolicy : 0..100]
    /\ MaxSteps \in Nat \ {0}
    /\ Staleness \in Nat
    /\ StoreSize \in Nat \ {0}
    /\ NChunks \in Nat \ {0}
    /\ QueueBound \in Nat \ {0}

VARIABLES
    mode,       \* the configuration: noWait is cfg.actor.sync_weight_no_wait, syncer
                \* cfg.weight_syncer.type, init what its init_sync transfers (nothing
                \* when disabled), onPolicy on_policy_min_ratio in hundredths
    \* runner
    pc,         \* where AsyncPPOEmbodiedRunner.run is
    gstep,      \* global_step
    pending,    \* _pending_rollout_weight_sync is not None
    issued,     \* the version the last sync was issued for (history)
    \* actor
    aver,       \* version
    weights,    \* the parameters being trained
    hist,       \* hist[v]: the weights training step v ended with (history)
    snap,       \* the patch builder's snapshot of what the receivers hold
    sending,    \* sync_model_to_rollout: none, queued, or its send in flight
    actorChan,  \* actor_channel
    recvq,      \* _recv_queue
    store,      \* rollout_store, worst trajectory first
    batch,      \* rollout_batch
    \* rollout workers
    link,       \* link[w]: the broadcasts rollout worker w has not received
    rpc,        \* rpc[w]: the sync call of the runner outstanding at worker w
    sync,       \* sync[w]: _weight_sync_requested, _work and _apply_total
    target,     \* target_apply_total of the outstanding request
    version,    \* version
    model,      \* the parameters of hf_model
    gen,        \* steps of generate_one_epoch done, or -1: no generate task
    \* env workers and the channels between env and rollout
    obs,        \* an observation waits for rollout worker w
    act,        \* the policy outputs waiting for env worker w
    env         \* env[w]: where _interact is, its chunk, the versions gathered

runnerVars == <<pc, gstep, pending, issued>>
actorVars  == <<aver, weights, hist, snap, sending>>
dataVars   == <<actorChan, recvq, store, batch>>
syncVars   == <<link, rpc, sync, target, version, model>>
loopVars   == <<gen, obs, act, env>>
vars == <<mode, runnerVars, actorVars, dataVars, syncVars, loopVars>>

NoVersion == -1    \* a policy output or parameter that carries none

Weights == [Params -> NoVersion..MaxSteps]

\* What a rollout worker holds before the first transfer: the weights the actor
\* starts from, loaded from the same place, but for what init_sync transfers.
Loaded == [p \in Params |-> IF p \in mode.init THEN NoVersion ELSE 0]

Idle == [requested |-> FALSE, work |-> "none", total |-> 0]

Init == /\ mode \in Modes
        /\ pc = "boot" /\ gstep = 0 /\ pending = FALSE /\ issued = 0
        /\ aver = 0 /\ sending = "none"
        /\ weights = [p \in Params |-> 0]
        /\ hist = [v \in 0..MaxSteps |-> [p \in Params |-> 0]]
        /\ snap = Loaded
        /\ actorChan = <<>> /\ recvq = <<>> /\ store = <<>> /\ batch = <<>>
        /\ link = [w \in Workers |-> <<>>]
        /\ rpc = [w \in Workers |-> "none"]
        /\ sync = [w \in Workers |-> Idle]
        /\ target = [w \in Workers |-> 0]
        /\ version = [w \in Workers |-> 0]
        /\ model = [w \in Workers |-> Loaded]
        /\ gen = [w \in Workers |-> -1]
        /\ obs = [w \in Workers |-> FALSE]
        /\ act = [w \in Workers |-> <<>>]
        /\ env = [w \in Workers |-> [at |-> "idle", chunk |-> 0, vers |-> <<>>]]

-----------------------------------------------------------------------------
(* Trajectories and the priority store.                                     *)

\* A trajectory is its versions tensor with what the actor computes from it: min
\* and sum (all have NChunks entries: sums are ordered as the means are).
Trajectory(vers) ==
    [vers |-> vers,
     min |-> CHOOSE v \in Range(vers) : \A u \in Range(vers) : v <= u,
     sum |-> FoldLeft(+, 0, vers)]

Fresh(t) == t.min >= aver - Staleness

\* The priority order of PriorityStore: min_version, then mean_version.
Below(t, u) == t.min < u.min \/ (t.min = u.min /\ t.sum < u.sum)

\* PriorityStore.add: refused when full and worse than the worst, otherwise
\* inserted behind its equals; the first one is evicted when over size.
StoreAdd(sl, t) ==
    LET place == Min({i \in DOMAIN sl : Below(t, sl[i])} \cup {Len(sl) + 1})
        added == InsertAt(sl, place, t)
    IN  IF Len(sl) = StoreSize /\ Below(t, sl[1]) THEN sl
        ELSE IF Len(added) > StoreSize THEN Tail(added) ELSE added

\* PriorityStore.remove_below: the list is sorted by min_version first, so
\* what is below the threshold is in front.
RemoveBelow(sl) ==
    SubSeq(sl, Min({i \in DOMAIN sl : Fresh(sl[i])} \cup {Len(sl) + 1}), Len(sl))

\* _drain_received_trajectories: adds what is still fresh, one by one.
Received == LET added[n \in 0..Len(recvq)] ==
                    IF n = 0 THEN store
                    ELSE IF Fresh(recvq[n]) THEN StoreAdd(added[n - 1], recvq[n])
                    ELSE added[n - 1]
            IN  added[Len(recvq)]

\* Mutant: without remove_below.
DrainedOnly == Received

\* What the store holds after one turn of _wait_for_rollout_store_ready.
Drained == RemoveBelow(Received)

\* get_metric: the cells that carry the actor's version, and whether they are at
\* least on_policy_min_ratio of all (a ratio of 0 asks for nothing).
OnPolicy(sl) ==
    {c \in (1..Len(sl)) \X (1..NChunks) : sl[c[1]].vers[c[2]] = aver}

EnoughOnPolicy(sl) ==
    100 * Cardinality(OnPolicy(sl)) >= mode.onPolicy * (Len(sl) * NChunks)

-----------------------------------------------------------------------------
(* The runner.                                                              *)

\* Handle.done() of both calls: the actor's coroutine and every rollout
\* worker's have returned.
HandlesDone == sending = "none" /\ \A w \in Workers : rpc[w] = "none"

\* Both calls of a synchronisation: the rollout group's, then the actor's.
Issue(call) == /\ rpc' = [w \in Workers |-> call]
               /\ sending' = "queued"
               /\ issued' = gstep

NextStep == IF gstep < MaxSteps THEN "construct" ELSE "drain"

\* run, up to the wait of its first update_rollout_weights, always blocking.
RunnerBoot == /\ pc = "boot"
              /\ pc' = "boot_wait"
              /\ Issue("blocking")
              /\ UNCHANGED <<mode, gstep, pending, aver, weights, hist, snap, dataVars,
                             link, sync, target, version, model, loopVars>>

\* The first weights have landed: env.interact (which sends the first
\* observation), rollout.generate and actor.recv_rollout_trajectories start.
RunnerStart == /\ pc = "boot_wait" /\ HandlesDone
               /\ pc' = "construct"
               /\ env' = [w \in Workers |-> [env[w] EXCEPT !.at = "yield"]]
               /\ obs' = [w \in Workers |-> TRUE]
               /\ gen' = [w \in Workers |-> 0]
               /\ UNCHANGED <<mode, gstep, pending, issued, actorVars, dataVars,
                              syncVars, act>>

\* Mutant: the store must hold more than it can.
ConstructAboveSize ==
    /\ pc = "construct" /\ sending # "queued"
    /\ store' = Drained
    /\ recvq' = <<>>
    /\ \/ /\ ~ (Len(store') > StoreSize /\ EnoughOnPolicy(store'))
          /\ UNCHANGED <<pc, batch>>
       \/ /\ Len(store') > StoreSize /\ EnoughOnPolicy(store')
          /\ batch' = Reverse(store')
          /\ pc' = "train"
    /\ UNCHANGED <<mode, gstep, pending, issued, actorVars, actorChan, syncVars, loopVars>>

\* One turn of _wait_for_rollout_store_ready: the received trajectories go to
\* the store and, when it is full and enough of it is on-policy, the best ones
\* become the training batch.  topn leaves them in the store.
ConstructRolloutBatch ==
    /\ pc = "construct" /\ sending # "queued"
    /\ store' = Drained
    /\ recvq' = <<>>
    /\ \/ /\ ~ (Len(store') >= StoreSize /\ EnoughOnPolicy(store'))
          /\ UNCHANGED <<pc, batch>>
       \/ /\ Len(store') >= StoreSize /\ EnoughOnPolicy(store')
          /\ batch' = Reverse(store')
          /\ pc' = "train"
    /\ UNCHANGED <<mode, gstep, pending, issued, actorVars, actorChan, syncVars, loopVars>>

\* run_training and the runner's global_step += 1.
RunTraining ==
    /\ pc = "train"
    /\ pc' = "set_step"
    /\ gstep' = gstep + 1
    /\ \E changed \in Updates :
          weights' = [p \in Params |-> IF p \in changed THEN gstep + 1 ELSE weights[p]]
    /\ hist' = [hist EXCEPT ![gstep + 1] = weights']
    /\ batch' = <<>>
    /\ UNCHANGED <<mode, pending, issued, aver, snap, sending, actorChan, recvq, store,
                   syncVars, loopVars>>

SetGlobalStep ==
    /\ pc = "set_step"
    /\ pc' = "sync"
    /\ aver' = gstep
    /\ UNCHANGED <<mode, gstep, pending, issued, weights, hist, snap, sending, dataVars,
                   syncVars, loopVars>>

\* update_rollout_weights of EmbodiedRunner: issue both calls and wait.
SyncBlocking ==
    /\ pc = "sync" /\ ~ mode.noWait
    /\ pc' = "sync_wait"
    /\ Issue("blocking")
    /\ UNCHANGED <<mode, gstep, pending, aver, weights, hist, snap, dataVars,
                   link, sync, target, version, model, loopVars>>

SyncLanded ==
    /\ pc = "sync_wait" /\ HandlesDone
    /\ pc' = NextStep
    /\ UNCHANGED <<mode, gstep, pending, issued, actorVars, dataVars, syncVars, loopVars>>

\* update_rollout_weights(no_wait=True): retire the previous sync when both
\* its handles are done and issue the next one ...
SyncInBackground ==
    /\ pc = "sync" /\ mode.noWait
    /\ ~ pending \/ HandlesDone
    /\ pc' = NextStep
    /\ pending' = TRUE
    /\ Issue("request")
    /\ UNCHANGED <<mode, gstep, aver, weights, hist, snap, dataVars,
                   link, sync, target, version, model, loopVars>>

\* ... or drop this one.
SyncCoalesced ==
    /\ pc = "sync" /\ mode.noWait
    /\ pending /\ ~ HandlesDone
    /\ pc' = NextStep
    /\ UNCHANGED <<mode, gstep, pending, issued, actorVars, dataVars, syncVars, loopVars>>

\* drain_pending_rollout_weight_sync.
DrainPending ==
    /\ pc = "drain"
    /\ ~ pending \/ HandlesDone
    /\ pending' = FALSE
    /\ pc' = "stop_env"
    /\ UNCHANGED <<mode, gstep, issued, actorVars, dataVars, syncVars, loopVars>>

\* env.stop() reaches worker w: only at an await of _interact, for a receive
\* of the env worker blocks its event loop.
StopEnv(w) ==
    /\ pc = "stop_env"
    /\ env[w].at = "yield"
    /\ env' = [env EXCEPT ![w].at = "stopped"]
    /\ UNCHANGED <<mode, runnerVars, actorVars, dataVars, syncVars, gen, obs, act>>

EnvsStopped ==
    /\ pc = "stop_env"
    /\ \A w \in Workers : env[w].at = "stopped"
    /\ pc' = "stop_rollout"
    /\ UNCHANGED <<mode, gstep, pending, issued, actorVars, dataVars, syncVars, loopVars>>

\* rollout.stop() cancels the generate task of worker w.
StopRollout(w) ==
    /\ pc = "stop_rollout"
    /\ gen[w] >= 0
    /\ gen' = [gen EXCEPT ![w] = -1]
    /\ UNCHANGED <<mode, runnerVars, actorVars, dataVars, syncVars, obs, act, env>>

\* The handles of interact, generate and recv_rollout_trajectories.
RunnerDone ==
    /\ pc = "stop_rollout"
    /\ \A w \in Workers : gen[w] = -1 /\ env[w].at = "stopped"
    /\ pc' = "done"
    /\ UNCHANGED <<mode, gstep, pending, issued, actorVars, dataVars, syncVars, loopVars>>

-----------------------------------------------------------------------------
(* The weights' way from the actor to the rollout workers.                  *)

\* Mutant: the message carries the version before the step it belongs to.
MessageOfStepBefore(ps, last) ==
    [ver |-> IF aver = 0 THEN 0 ELSE aver - 1, pars |-> [p \in ps |-> weights[p]],
     last |-> last]

\* A message of the weight syncer: some parameters and the actor's version.
Message(ps, last) == [ver |-> aver, pars |-> [p \in ps |-> weights[p]], last |-> last]

\* Mutant: only what the last training step changed.
PatchOfLastStep == << Message({p \in Params : weights[p] = aver}, TRUE) >>

\* PatchWeightSyncer: one message with what differs from the snapshot; the
\* first one carries what init_sync transfers.
Patch == << Message({p \in Params : weights[p] # snap[p]}, TRUE) >>

\* BucketWeightSyncer: every parameter, one per bucket, each loaded as it comes
\* (load_instant).
Buckets == LET ps == SetToSeq(Params)
           IN  [i \in 1..Len(ps) |-> Message({ps[i]}, i = Len(ps))]

Transfer == IF mode.syncer = "patch" THEN Patch ELSE Buckets

\* Mutant: the snapshot is left as it was.
SyncModelToRolloutStaleSnap ==
    /\ sending = "queued"
    /\ sending' = "in_flight"
    /\ link' = [w \in Workers |-> link[w] \o Transfer]
    /\ UNCHANGED <<mode, runnerVars, aver, weights, hist, snap, dataVars, rpc, sync, target,
                   version, model, loopVars>>

\* sync_model_to_rollout up to the await of its (last) send.
SyncModelToRollout ==
    /\ sending = "queued"
    /\ sending' = "in_flight"
    /\ link' = [w \in Workers |-> link[w] \o Transfer]
    /\ snap' = IF mode.syncer = "patch" THEN weights ELSE snap
    /\ UNCHANGED <<mode, runnerVars, aver, weights, hist, dataVars, rpc, sync, target,
                   version, model, loopVars>>

SendDone ==
    /\ sending = "in_flight"
    /\ sending' = "none"
    /\ UNCHANGED <<mode, runnerVars, aver, weights, hist, snap, dataVars, syncVars, loopVars>>

\* _start_background_weight_sync_if_needed
StartIfNeeded(s) ==
    IF s.requested /\ s.work = "none"
    THEN [s EXCEPT !.requested = FALSE, !.work = "running"] ELSE s

\* _finish_background_weight_sync of the active, finished task.
Finish(s) ==
    StartIfNeeded([requested |-> s.requested, work |-> "none", total |-> s.total + 1])

\* _poll_background_weight_sync
Poll(s) == LET t == StartIfNeeded(s) IN IF t.work = "done" THEN Finish(t) ELSE t

\* The applies already owed: for the task in flight and for a request that has
\* not started.
Owed(s) == Cardinality({x \in {"work", "request"} :
                          IF x = "work" THEN s.work # "none" ELSE s.requested})

\* Mutant: the request returns as soon as it is acknowledged.
RequestAcknowledged(w) ==
    /\ rpc[w] = "request"
    /\ rpc' = [rpc EXCEPT ![w] = "none"]
    /\ sync' = [sync EXCEPT ![w] = StartIfNeeded([@ EXCEPT !.requested = TRUE])]
    /\ UNCHANGED <<mode, runnerVars, actorVars, dataVars, link, target, version, model,
                   loopVars>>

\* request_actor_sync_model arrives: it waits for the applies already owed and
\* for its own.
RequestActorSyncModel(w) ==
    /\ rpc[w] = "request"
    /\ rpc' = [rpc EXCEPT ![w] = "waiting"]
    /\ target' = [target EXCEPT ![w] =
                    sync[w].total + Owed(sync[w]) + (IF sync[w].requested THEN 0 ELSE 1)]
    /\ sync' = [sync EXCEPT ![w] = StartIfNeeded([@ EXCEPT !.requested = TRUE])]
    /\ UNCHANGED <<mode, runnerVars, actorVars, dataVars, link, version, model, loopVars>>

\* The request's coroutine resumes when its task is done and retires the task
\* unless the poll of the generate loop has done so.
RequestResumes(w) ==
    /\ rpc[w] = "waiting"
    /\ \/ sync[w].work = "done" /\ sync' = [sync EXCEPT ![w] = Finish(@)]
       \/ sync[w].total >= target[w] /\ UNCHANGED sync
    /\ rpc' = [rpc EXCEPT ![w] = IF sync'[w].total >= target[w] THEN "none" ELSE "waiting"]
    /\ UNCHANGED <<mode, runnerVars, actorVars, dataVars, link, target, version, model,
                   loopVars>>

\* What a model holds once WeightSyncer.apply has loaded message x into it.
Load(m, x) == [p \in Params |-> IF p \in DOMAIN x.pars THEN x.pars[p] ELSE m[p]]

\* sync_model_from_actor, as the RPC itself or as the background task, resumes
\* with the next message: WeightSyncer.apply loads it and, after the last one,
\* the worker takes over the version it carries.
Receiving(w) == rpc[w] = "blocking" \/ sync[w].work = "running"

SyncModelFromActor(w) ==
    LET m == Head(link[w]) IN
    /\ Receiving(w)
    /\ link[w] # <<>>
    /\ link' = [link EXCEPT ![w] = Tail(@)]
    /\ model' = [model EXCEPT ![w] = Load(@, m)]
    /\ version' = [version EXCEPT ![w] = IF m.last THEN m.ver ELSE @]
    /\ IF ~ m.last THEN UNCHANGED <<rpc, sync>>
       ELSE \/ /\ rpc[w] = "blocking"
               /\ rpc' = [rpc EXCEPT ![w] = "none"]
               /\ UNCHANGED sync
            \/ /\ sync[w].work = "running"
               /\ sync' = [sync EXCEPT ![w].work = "done"]
               /\ UNCHANGED rpc
    /\ UNCHANGED <<mode, runnerVars, actorVars, dataVars, target, loopVars>>

-----------------------------------------------------------------------------
(* The environment loop and the rollout loop.                               *)

\* One inference of generate_one_epoch.  After the last one (the value of the
\* final observation, which adds no versions) the loop of _generate turns and,
\* with background sync, polls.
Predict(w) ==
    LET final == gen[w] = NChunks IN
    /\ gen[w] >= 0 /\ obs[w]
    /\ obs' = [obs EXCEPT ![w] = FALSE]
    /\ act' = [act EXCEPT ![w] = Append(@, IF final THEN NoVersion ELSE version[w])]
    /\ gen' = [gen EXCEPT ![w] = IF final THEN 0 ELSE @ + 1]
    /\ sync' = [sync EXCEPT ![w] = IF final /\ mode.noWait THEN Poll(@) ELSE @]
    /\ UNCHANGED <<mode, runnerVars, actorVars, dataVars, link, rpc, target, version,
                   model, env>>

\* asyncio.sleep(0) returns and the env worker blocks in recv_from.  An
\* episode begins only while QueueBound has room for its trajectory.
InEpisode(w) == env[w].at = "recv" \/ env[w].chunk > 0

EnvResumes(w) ==
    /\ env[w].at = "yield"
    /\ \/ env[w].chunk > 0
       \/ Len(actorChan) + Len(recvq) + Cardinality({u \in Workers : InEpisode(u)})
             < QueueBound
    /\ env' = [env EXCEPT ![w].at = "recv"]
    /\ UNCHANGED <<mode, runnerVars, actorVars, dataVars, syncVars, gen, obs, act>>

\* A chunk of _run_interact_once: the policy output is recorded, the
\* environment steps and the observation goes out.  The loop yields before
\* every chunk but not before the final receive.
EnvStep(w) ==
    /\ env[w].at = "recv" /\ env[w].chunk < NChunks
    /\ act[w] # <<>>
    /\ act' = [act EXCEPT ![w] = Tail(@)]
    /\ env' = [env EXCEPT ![w] =
                 [at |-> IF @.chunk + 1 < NChunks THEN "yield" ELSE "recv",
                  chunk |-> @.chunk + 1,
                  vers |-> Append(@.vers, Head(act[w]))]]
    /\ obs' = [obs EXCEPT ![w] = TRUE]
    /\ UNCHANGED <<mode, runnerVars, actorVars, dataVars, syncVars, gen>>

\* The final receive: send_rollout_trajectories, and the next turn of
\* _interact sends its first observation before it yields.
EnvFinish(w) ==
    /\ env[w].at = "recv" /\ env[w].chunk = NChunks
    /\ act[w] # <<>>
    /\ act' = [act EXCEPT ![w] = Tail(@)]
    /\ actorChan' = Append(actorChan, Trajectory(env[w].vers))
    /\ env' = [env EXCEPT ![w] = [at |-> "yield", chunk |-> 0, vers |-> <<>>]]
    /\ obs' = [obs EXCEPT ![w] = TRUE]
    /\ UNCHANGED <<mode, runnerVars, actorVars, recvq, store, batch, syncVars, gen>>

\* The actor's receiving thread takes a trajectory and drops a stale one.
RecvRolloutTrajectory ==
    /\ actorChan # <<>>
    /\ actorChan' = Tail(actorChan)
    /\ recvq' = IF Fresh(Head(actorChan)) THEN Append(recvq, Head(actorChan)) ELSE recvq
    /\ UNCHANGED <<mode, runnerVars, actorVars, store, batch, syncVars, loopVars>>

-----------------------------------------------------------------------------

Terminated == pc = "done" /\ UNCHANGED vars

RunnerNext == \/ RunnerBoot \/ RunnerStart \/ ConstructRolloutBatch \/ RunTraining
              \/ SetGlobalStep \/ SyncBlocking \/ SyncLanded \/ SyncInBackground
              \/ SyncCoalesced \/ DrainPending \/ EnvsStopped \/ RunnerDone

ActorNext == SyncModelToRollout \/ SendDone \/ RecvRolloutTrajectory

RolloutNext(w) == \/ RequestActorSyncModel(w) \/ RequestResumes(w)
                  \/ SyncModelFromActor(w) \/ Predict(w) \/ StopRollout(w)

EnvNext(w) == EnvResumes(w) \/ EnvStep(w) \/ EnvFinish(w) \/ StopEnv(w)

Next == \/ RunnerNext \/ ActorNext \/ Terminated
        \/ \E w \in Workers : RolloutNext(w) \/ EnvNext(w)

Spec == Init /\ [][Next]_vars

\* Every process keeps running.  An event loop serves all its coroutines: a
\* transfer in flight lands, an awaiting coroutine resumes, a waiting stop is
\* handled at one of the yields the env worker keeps making.
Fairness == /\ WF_vars(RunnerNext)
            /\ WF_vars(SyncModelToRollout \/ SendDone)
            /\ WF_vars(RecvRolloutTrajectory)
            /\ \A w \in Workers :
                 /\ WF_vars(RequestActorSyncModel(w) \/ RequestResumes(w))
                 /\ WF_vars(SyncModelFromActor(w))
                 /\ WF_vars(Predict(w)) /\ WF_vars(StopRollout(w))
                 /\ WF_vars(EnvResumes(w) \/ EnvStep(w) \/ EnvFinish(w))
                 /\ SF_vars(StopEnv(w))

FairSpec == Spec /\ Fairness

-----------------------------------------------------------------------------
(* Properties.                                                              *)

Trajectories == [vers : Seq(0..MaxSteps), min : 0..MaxSteps, sum : Nat]
Policies == [Params -> 0..MaxSteps]
Patches == UNION {[ps -> 0..MaxSteps] : ps \in SUBSET Params}
Messages == [ver : 0..MaxSteps, pars : Patches, last : BOOLEAN]

SyncStates == [requested : BOOLEAN, total : Nat, work : {"none", "running", "done"}]

\* Types of the runner's, the actor's and the receivers' part of a sync.
SyncTypeOK ==
    /\ mode \in Modes
    /\ pc \in {"boot", "boot_wait", "construct", "train", "set_step", "sync",
               "sync_wait", "drain", "stop_env", "stop_rollout", "done"}
    /\ gstep \in 0..MaxSteps /\ issued \in 0..MaxSteps /\ pending \in BOOLEAN
    /\ aver \in 0..MaxSteps /\ sending \in {"none", "queued", "in_flight"}
    /\ weights \in Policies /\ snap \in Weights
    /\ hist \in [0..MaxSteps -> Policies]
    /\ link \in [Workers -> Seq(Messages)]
    /\ rpc \in [Workers -> {"none", "blocking", "request", "waiting"}]
    /\ sync \in [Workers -> SyncStates]
    /\ target \in [Workers -> Nat]
    /\ version \in [Workers -> 0..MaxSteps]
    /\ model \in [Workers -> Weights]

\* Types of the state; a store, a queue or a channel never outgrows its bound.
TypeOK ==
    /\ SyncTypeOK
    /\ \A q \in {actorChan, recvq, store, batch} : q \in Seq(Trajectories)
    /\ Len(actorChan) + Len(recvq) <= QueueBound /\ Len(store) <= StoreSize
    /\ \A w \in Workers :
         /\ gen[w] \in -1..NChunks /\ obs[w] \in BOOLEAN
         /\ act[w] \in Seq(NoVersion..MaxSteps)
         /\ env[w].at \in {"idle", "yield", "recv", "stopped"}
         /\ env[w].chunk \in 0..NChunks /\ Len(env[w].vers) = env[w].chunk

Booted == pc \notin {"boot", "boot_wait"}

\* A rollout worker that may sample computes with exactly the weights of the
\* version it stamps on its samples, at every moment: between a sync issued
\* and applied, after a coalesced one, and although a patch carries only what
\* changed since the last one sent.
WeightsMatchVersion ==
    Booted => \A w \in Workers : model[w] = hist[version[w]]

\* What a receiver that holds m has once it has applied the messages ms: each
\* parameter from the last message that carries it.
Applied(m, ms) ==
    [p \in Params |->
        LET with == {i \in 1..Len(ms) : p \in DOMAIN ms[i].pars}
        IN  IF with = {} THEN m[p]
            ELSE ms[CHOOSE i \in with : \A j \in with : j <= i].pars[p]]

\* The sender diffs against a snapshot that no receiver confirms: it must be
\* what every receiver will hold after what is already on its way to it.
SnapshotIsReceivers == \A w \in Workers : Applied(model[w], link[w]) = snap

\* The actor trains only on full batches of trajectories whose oldest step is
\* within staleness_threshold of its own version, and of which no less than
\* on_policy_min_ratio is of that version itself, although trajectories wait in
\* a channel, a queue and a store while the version advances.
TrainedWithinStaleness ==
    pc = "train" => /\ Len(batch) = StoreSize
                    /\ \A i \in 1..Len(batch) : aver - batch[i].min <= Staleness
                    /\ EnoughOnPolicy(batch)

\* When both handles of a sync are done, its weights are applied everywhere:
\* nothing is on a link, no apply task is left, and every rollout worker has
\* the version the sync was issued for.
HandlesTruthful ==
    pc # "boot" /\ HandlesDone =>
       \A w \in Workers : /\ link[w] = <<>>
                          /\ ~ sync[w].requested /\ sync[w].work = "none"
                          /\ version[w] = issued

\* The whole protocol implements a register of published policies: every
\* worker holds a published policy as a whole and only moves forward.
Register == INSTANCE PolicyRegister
    WITH latest <- gstep, content <- hist, copy <- model,
         held <- [w \in Workers |->
                    IF NoVersion \in Range(model[w]) THEN -1 ELSE version[w]],
         Policies <- Weights, MaxVersion <- MaxSteps

ImplementsRegister == Register!RegSpec

\* No inference runs on weights other than those of the version it stamps.
SamplesMatchVersion ==
    [][\A w \in Workers : Len(act'[w]) > Len(act[w]) /\ Last(act'[w]) # NoVersion
                             => model[w] = hist[version[w]]]_vars

\* With the blocking sync training reaches max_steps; and in either mode, once
\* training is over, the teardown (drain the sync, stop the env workers, then
\* the rollout workers) completes.
RunFinishes == (~ mode.noWait \/ pc = "drain") ~> (pc = "done")

-----------------------------------------------------------------------------
(* The inductive invariant of the patch syncer.                             *)

\* Where worker w is in the sync: called but not started, with its apply task
\* running, with the task finished, or through.
Called(w) == rpc[w] \in {"blocking", "request"} /\ sync[w].work = "none"
Applying(w) == /\ rpc[w] = "waiting" /\ sync[w].work = "running"
               /\ target[w] = sync[w].total + 1
AppliedBy(w) == /\ rpc[w] = "waiting"
                /\ \/ sync[w].work = "done" /\ target[w] = sync[w].total + 1
                   \/ sync[w].work = "none" /\ target[w] = sync[w].total
Through(w) == rpc[w] = "none" /\ sync[w].work = "none"

Expecting(w) == Called(w) \/ Applying(w)

\* At most one sync is on its way: a worker expects exactly the message of the
\* sync issued last, which is queued at the actor or on the worker's link.
OneSyncAt(w) ==
    /\ ~ sync[w].requested
    /\ Expecting(w) \/ AppliedBy(w) \/ Through(w)
    /\ sending = "queued" => Expecting(w)
    /\ Len(link[w]) = IF Expecting(w) /\ sending # "queued" THEN 1 ELSE 0
    /\ link[w] # <<>> => link[w][1].last /\ link[w][1].ver = issued

OneSync == \A w \in Workers : OneSyncAt(w)

\* The runner issues a sync only when the one before has landed, after a new
\* training step, and the actor sends it before its version moves on.
RunnerInv ==
    /\ pc \in {"boot", "boot_wait", "construct", "train"} => gstep < MaxSteps
    /\ gstep = IF pc = "set_step" THEN aver + 1 ELSE aver
    /\ pc \in {"boot", "boot_wait"} => gstep = 0 /\ ~ pending
    /\ issued <= gstep /\ (pc \in {"set_step", "sync"} => issued < gstep)
    /\ sending = "queued" => issued = aver /\ pc \notin {"boot", "train", "set_step", "sync"}
    /\ ~ mode.noWait => ~ pending
    /\ ~ pending /\ pc \notin {"boot_wait", "sync_wait"} => HandlesDone

\* What the sender and the receivers hold: the snapshot is the policy of the
\* last sync sent, and a receiver has the policy of the version it claims,
\* one behind while it expects a message.
HeldAt(w) ==
    /\ link[w] = <<>> => model[w] = snap
    /\ link[w] # <<>> => Load(model[w], link[w][1]) = snap
    /\ IF pc = "boot" \/ (pc = "boot_wait" /\ Expecting(w))
       THEN model[w] = Loaded /\ version[w] = 0
       ELSE model[w] = hist[version[w]]
    /\ Expecting(w) /\ Booted => version[w] < issued
    /\ pc # "boot" /\ ~ Expecting(w) => version[w] = issued

HeldInv ==
    /\ weights = hist[gstep] /\ hist[0] = [p \in Params |-> 0]
    /\ pc # "boot" /\ sending # "queued" => snap = hist[issued]
    /\ \A w \in Workers : HeldAt(w)

SyncInv == SyncTypeOK /\ mode.syncer = "patch" /\ OneSync /\ RunnerInv /\ HeldInv

-----------------------------------------------------------------------------
(* The inductive invariant of the data path, for both syncers.              *)

Sorted(sl) == \A i, j \in 1..Len(sl) : i < j => sl[i].min <= sl[j].min

\* The store keeps its size and its order, and the actor's version does not
\* move between the cut of a batch and the training on it.
StoreInv ==
    /\ Len(store) <= StoreSize /\ Sorted(store)
    /\ pc = "train" => /\ Len(batch) = StoreSize /\ EnoughOnPolicy(batch)
                       /\ \A i \in 1..Len(batch) :
                             Fresh(batch[i]) /\ batch[i].min \in Int
=============================================================================
