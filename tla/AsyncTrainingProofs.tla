------------------------- MODULE AsyncTrainingProofs -------------------------
(***************************************************************************)
(* Proofs about AsyncTraining for any number of workers, parameters and    *)
(* training steps, blocking or in the background: the weight               *)
(* synchronisation with the patch syncer, and the data path from a sampled *)
(* version to the training batch with either syncer.                       *)
(***************************************************************************)
EXTENDS AsyncTraining, FiniteSetTheorems, SequenceTheorems, WellFoundedInduction,
        TLAPS

(***************************************************************************)
(* Without a request waiting, the helpers of the background task only      *)
(* retire a finished task.                                                 *)
(***************************************************************************)
LEMMA StartNotNeeded ==
    ASSUME NEW s \in SyncStates, ~ s.requested
    PROVE  StartIfNeeded(s) = s
  BY DEF StartIfNeeded

LEMMA FinishRetires ==
    ASSUME NEW s \in SyncStates, ~ s.requested
    PROVE  /\ Finish(s) \in SyncStates
           /\ ~ Finish(s).requested
           /\ Finish(s).total = s.total + 1
           /\ Finish(s).work = "none"
<1> DEFINE t == [requested |-> s.requested, work |-> "none", total |-> s.total + 1]
<1>1. /\ t.work = "none" /\ t.total = s.total + 1 /\ t.requested = s.requested
      /\ t \in SyncStates
  BY DEF SyncStates
<1>2. Finish(s) = StartIfNeeded(t)
  BY DEF Finish
<1> HIDE DEF t
<1>. QED
  BY <1>1, <1>2, StartNotNeeded

LEMMA PollRetires ==
    ASSUME NEW s \in SyncStates, ~ s.requested
    PROVE  Poll(s) = IF s.work = "done" THEN Finish(s) ELSE s
  BY StartNotNeeded DEF Poll

(***************************************************************************)
(* A request that finds no task and no other request starts its task and   *)
(* waits for one apply.                                                    *)
(***************************************************************************)
LEMMA RequestStarts ==
    ASSUME NEW s \in SyncStates, ~ s.requested, s.work = "none"
    PROVE  LET r == StartIfNeeded([s EXCEPT !.requested = TRUE])
           IN  /\ r \in SyncStates /\ ~ r.requested
               /\ r.total = s.total /\ r.work = "running"
               /\ Owed(s) = 0
<1> DEFINE t == [s EXCEPT !.requested = TRUE]
           r == [t EXCEPT !.requested = FALSE, !.work = "running"]
<1>1. t \in SyncStates /\ t.requested /\ t.total = s.total /\ t.work = "none"
  BY DEF SyncStates
<1>2. StartIfNeeded(t) = r
  BY <1>1 DEF StartIfNeeded
<1>3. r \in SyncStates /\ ~ r.requested /\ r.total = s.total /\ r.work = "running"
  <2> HIDE DEF t
  <2>. QED
    BY <1>1 DEF SyncStates
<1>4. {x \in {"work", "request"} :
         IF x = "work" THEN s.work # "none" ELSE s.requested} = {}
  OBVIOUS
<1>5. Owed(s) = 0
  BY <1>4, FS_EmptySet DEF Owed
<1>. QED
  BY <1>2, <1>3, <1>5

(***************************************************************************)
(* The message of the patch syncer: loaded into what the snapshot says the *)
(* receivers hold, it gives the actor's weights.                           *)
(***************************************************************************)
LEMMA PatchMessage ==
    ASSUME SyncTypeOK, mode.syncer = "patch"
    PROVE  \E x \in Messages :
             /\ Transfer = <<x>>
             /\ x.last /\ x.ver = aver
             /\ Load(snap, x) = weights
<1> DEFINE ps == {p \in Params : weights[p] # snap[p]}
           f == [p \in ps |-> weights[p]]
           x == Message(ps, TRUE)
<1>1. Transfer = <<x>>
  BY DEF Transfer, Patch
<1>2. x = [ver |-> aver, pars |-> f, last |-> TRUE]
  BY DEF Message
<1>3. ps \in SUBSET Params /\ f \in [ps -> 0..MaxSteps]
  BY DEF SyncTypeOK, Policies
<1>4. f \in Patches
  <2> HIDE DEF ps, f
  <2>. QED
    BY <1>3 DEF Patches
<1>5. \A p \in Params : (IF p \in DOMAIN f THEN f[p] ELSE snap[p]) = weights[p]
  OBVIOUS
<1> HIDE DEF f, x
<1>6. x \in Messages /\ x.last /\ x.ver = aver /\ x.pars = f
  BY <1>2, <1>4 DEF Messages, SyncTypeOK
<1>7. Load(snap, x) = [p \in Params |-> IF p \in DOMAIN f THEN f[p] ELSE snap[p]]
  BY <1>6 DEF Load
<1>8. Load(snap, x) = weights
  BY <1>5, <1>7 DEF SyncTypeOK, Policies
<1>. QED
  BY <1>1, <1>6, <1>8

(***************************************************************************)
(* Loading a message into weights gives weights.                           *)
(***************************************************************************)
LEMMA LoadType ==
    ASSUME NEW m \in Weights, NEW x \in Messages
    PROVE  Load(m, x) \in Weights
  BY DEF Load, Weights, Messages, Patches, NoVersion
-----------------------------------------------------------------------------
(***************************************************************************)
(* The configuration, and with it what a worker loads, never changes.      *)
(***************************************************************************)
LEMMA LoadedStays == mode' = mode => Loaded' = Loaded
  BY DEF Loaded

(***************************************************************************)
(* The initial states of the patch syncer satisfy the invariant.           *)
(***************************************************************************)
LEMMA InitSyncInv == Init /\ mode.syncer = "patch" => SyncInv
<1> SUFFICES ASSUME Init, mode.syncer = "patch"
             PROVE  SyncInv
  OBVIOUS
<1>1. 0 \in 0..MaxSteps /\ 0 < MaxSteps /\ NoVersion \in NoVersion..MaxSteps
  BY AsyncAssumption DEF NoVersion
<1>2. Idle \in SyncStates /\ ~ Idle.requested /\ Idle.work = "none"
  BY DEF Idle, SyncStates
<1>3. SyncTypeOK
  <2>1. [p \in Params |-> 0] \in Policies
    BY <1>1 DEF Policies
  <2>2. Loaded \in Weights
    BY <1>1 DEF Loaded, Weights, NoVersion
  <2>3. <<>> \in Seq(Messages)
    OBVIOUS
  <2> HIDE DEF Idle, Loaded
  <2>. QED
    BY <1>1, <1>2, <2>1, <2>2, <2>3 DEF Init, SyncTypeOK
<1>4. OneSync
  BY <1>2 DEF Init, OneSync, OneSyncAt, Expecting, Called, Applying, AppliedBy, Through
<1>5. HandlesDone
  BY DEF Init, HandlesDone
<1>6. RunnerInv
  BY <1>1, <1>5 DEF Init, RunnerInv
<1>7. HeldInv
  BY <1>1 DEF Init, HeldInv, HeldAt, Expecting, Called, Applying, Booted
<1>. QED
  BY <1>3, <1>4, <1>6, <1>7 DEF SyncInv

(***************************************************************************)
(* A step of the environment or the data path concerns no sync.            *)
(***************************************************************************)
LEMMA OtherStep ==
    ASSUME SyncInv, UNCHANGED <<mode, runnerVars, actorVars, syncVars>>
    PROVE  SyncInv'
<1> USE DEF SyncInv, runnerVars, actorVars, syncVars
<1>1. SyncTypeOK'
  BY DEF SyncTypeOK
<1>2. OneSync'
  BY DEF OneSync, OneSyncAt, Expecting, Called, Applying, AppliedBy, Through
<1>3. RunnerInv'
  BY DEF RunnerInv, HandlesDone
<1>4. HeldInv'
  BY LoadedStays DEF HeldInv, HeldAt, Expecting, Called, Applying, Booted
<1>. QED
  BY <1>1, <1>2, <1>3, <1>4

(***************************************************************************)
(* The runner goes on between two syncs, or after the one it has waited    *)
(* for: only its own position and `pending' change.                        *)
(***************************************************************************)
LEMMA RunnerGoesOn ==
    ASSUME SyncInv, UNCHANGED <<mode, gstep, issued, actorVars, syncVars>>,
           \/ RunnerStart \/ ConstructRolloutBatch \/ SyncLanded \/ SyncCoalesced
           \/ DrainPending \/ EnvsStopped \/ RunnerDone
    PROVE  SyncInv'
<1> USE DEF SyncInv, actorVars, syncVars
<1>1. /\ pc' \in {"construct", "train", "drain", "stop_env", "stop_rollout", "done"}
      /\ pending' \in BOOLEAN
      /\ pc # "boot" /\ (pc = "boot_wait" => HandlesDone)
  <2>1. pending \in BOOLEAN
    BY DEF SyncTypeOK
  <2>2. pc' = pc => pc = "construct"
    BY DEF RunnerStart, ConstructRolloutBatch, SyncLanded, SyncCoalesced,
           DrainPending, EnvsStopped, RunnerDone, NextStep
  <2>. QED
    BY <2>1, <2>2 DEF RunnerStart, ConstructRolloutBatch, SyncLanded, SyncCoalesced,
           DrainPending, EnvsStopped, RunnerDone, NextStep
<1>2. SyncTypeOK'
  BY <1>1 DEF SyncTypeOK
<1>3. OneSync'
  BY DEF OneSync, OneSyncAt, Expecting, Called, Applying, AppliedBy, Through
<1>4. HandlesDone' <=> HandlesDone
  BY DEF HandlesDone
<1>5. RunnerInv'
  BY <1>1, <1>4 DEF RunnerInv, RunnerStart, ConstructRolloutBatch, SyncLanded, SyncCoalesced,
           DrainPending, EnvsStopped, RunnerDone, NextStep
<1>6. HeldInv'
  <2>1. \A w \in Workers : pc = "boot_wait" => ~ Expecting(w)
    BY <1>1 DEF HandlesDone, Expecting, Called, Applying
  <2>2. \A w \in Workers : Expecting(w)' <=> Expecting(w)
    BY DEF Expecting, Called, Applying
  <2>3. Booted' /\ (Booted \/ pc = "boot_wait")
    BY <1>1 DEF Booted
  <2>. QED
    BY <1>1, <2>1, <2>2, <2>3 DEF HeldInv, HeldAt
<1>. QED
  BY <1>2, <1>3, <1>5, <1>6
(***************************************************************************)
(* When both handles are done every worker is through with its sync.       *)
(***************************************************************************)
LEMMA DoneMeansThrough ==
    ASSUME SyncInv, HandlesDone, NEW w \in Workers
    PROVE  /\ rpc[w] = "none" /\ Through(w) /\ ~ Expecting(w)
           /\ sending = "none" /\ link[w] = <<>>
<1>1. rpc[w] = "none" /\ sending = "none"
  BY DEF HandlesDone
<1>2. Through(w) /\ ~ Expecting(w)
  BY <1>1 DEF SyncInv, OneSync, OneSyncAt, Expecting, Called, Applying, AppliedBy, Through
<1>3. link[w] \in Seq(Messages) /\ Len(link[w]) = 0
  BY <1>2 DEF SyncInv, SyncTypeOK, OneSync, OneSyncAt
<1>. QED
  BY <1>1, <1>2, <1>3

(***************************************************************************)
(* Issuing a sync: every worker is called and the actor's call is queued,  *)
(* for a version none of them has.                                         *)
(***************************************************************************)
LEMMA IssueStep ==
    ASSUME SyncInv, RunnerBoot \/ SyncBlocking \/ SyncInBackground
    PROVE  SyncInv'
<1> USE DEF SyncInv
<1>1. PICK call \in {"blocking", "request"} : Issue(call)
  BY DEF RunnerBoot, SyncBlocking, SyncInBackground
<1>2. /\ UNCHANGED <<mode, gstep, aver, weights, hist, snap,
                     link, sync, target, version, model>>
      /\ \/ pc = "boot" /\ pc' = "boot_wait" /\ pending' = pending
         \/ pc = "sync" /\ pc' = "sync_wait" /\ pending' = pending
         \/ /\ pc = "sync" /\ pc' \in {"construct", "drain"} /\ pending'
            /\ mode.noWait /\ (pc' = "construct" => gstep < MaxSteps)
      /\ pending' \in BOOLEAN
  BY DEF RunnerBoot, SyncBlocking, SyncInBackground, NextStep, SyncTypeOK
<1>3. HandlesDone
  <2>1. CASE pc = "boot"
    BY <2>1 DEF RunnerInv, RunnerBoot, SyncBlocking, SyncInBackground
  <2>2. CASE pc = "sync"
    BY <2>2 DEF RunnerInv, RunnerBoot, SyncBlocking, SyncInBackground
  <2>. QED
    BY <1>2, <2>1, <2>2
<1>4. /\ rpc' = [w \in Workers |-> call] /\ sending' = "queued" /\ issued' = gstep
  BY <1>1 DEF Issue
<1>5. SyncTypeOK'
  BY <1>2, <1>4 DEF SyncTypeOK
<1>6. \A w \in Workers : /\ Called(w)' /\ Expecting(w)' /\ ~ AppliedBy(w)' /\ ~ Through(w)'
                         /\ link'[w] = <<>>
  BY <1>2, <1>3, <1>4, DoneMeansThrough DEF Called, Expecting, Through, AppliedBy
<1>7. OneSync'
  BY <1>2, <1>4, <1>6 DEF OneSync, OneSyncAt
<1>8. ~ HandlesDone'
  BY <1>4 DEF HandlesDone
<1>9. RunnerInv'
  BY <1>2, <1>4, <1>8, AsyncAssumption DEF RunnerInv, SyncTypeOK
<1>10. HeldInv'
  <2> SUFFICES ASSUME NEW w \in Workers
               PROVE  /\ model[w] = snap
                      /\ pc = "boot" => model[w] = Loaded /\ version[w] = 0
                      /\ pc = "sync" => model[w] = hist[version[w]] /\ version[w] < gstep
    BY <1>2, <1>4, <1>6, LoadedStays DEF HeldInv, HeldAt, Booted
  <2>1. ~ Expecting(w) /\ link[w] = <<>>
    BY <1>3, DoneMeansThrough
  <2>2. pc = "sync" => version[w] = issued /\ issued < gstep
    BY <2>1 DEF HeldInv, HeldAt, RunnerInv
  <2>. QED
    BY <2>1, <2>2 DEF HeldInv, HeldAt
<1>. QED
  BY <1>2, <1>5, <1>7, <1>9, <1>10

(***************************************************************************)
(* A training step publishes a new policy and leaves the older ones alone. *)
(***************************************************************************)
LEMMA RunTrainingStep ==
    ASSUME SyncInv, RunTraining
    PROVE  SyncInv'
<1> USE DEF SyncInv
<1>1. /\ pc = "train" /\ pc' = "set_step" /\ gstep' = gstep + 1
      /\ hist' = [hist EXCEPT ![gstep + 1] = weights']
      /\ UNCHANGED <<mode, pending, issued, aver, snap, sending, syncVars>>
  BY DEF RunTraining
<1>2. gstep \in 0..MaxSteps /\ gstep < MaxSteps /\ gstep + 1 \in 0..MaxSteps
  BY <1>1, AsyncAssumption DEF RunnerInv, SyncTypeOK
<1>3. weights' \in Policies
  <2>1. PICK changed \in Updates :
          weights' = [p \in Params |-> IF p \in changed THEN gstep + 1 ELSE weights[p]]
    BY DEF RunTraining
  <2>. QED
    BY <1>2, <2>1 DEF SyncTypeOK, Policies
<1>4. /\ hist' \in [0..MaxSteps -> Policies] /\ hist'[gstep'] = weights'
      /\ \A v \in 0..MaxSteps : v <= gstep => hist'[v] = hist[v]
  BY <1>1, <1>2, <1>3 DEF SyncTypeOK
<1>5. SyncTypeOK'
  BY <1>1, <1>2, <1>3, <1>4 DEF SyncTypeOK, syncVars
<1>6. OneSync'
  BY <1>1 DEF OneSync, OneSyncAt, Expecting, Called, Applying, AppliedBy, Through, syncVars
<1>7. RunnerInv'
  BY <1>1, <1>2 DEF RunnerInv, HandlesDone, syncVars, SyncTypeOK
<1>8. HeldInv'
  <2>1. issued \in 0..MaxSteps /\ issued <= gstep /\ hist'[issued] = hist[issued]
    BY <1>2, <1>4 DEF RunnerInv, SyncTypeOK
  <2>2. \A w \in Workers : /\ Expecting(w)' <=> Expecting(w)
                           /\ version[w] \in 0..MaxSteps
    BY <1>1 DEF Expecting, Called, Applying, syncVars, SyncTypeOK
  <2>3. Booted /\ Booted'
    BY <1>1 DEF Booted
  <2>4. \A w \in Workers : version[w] <= gstep
    BY <1>1, <1>2, <2>1, <2>2, <2>3 DEF HeldInv, HeldAt
  <2>5. \A w \in Workers : hist'[version[w]] = hist[version[w]]
    BY <1>4, <2>2, <2>4
  <2>6. weights' = hist'[gstep'] /\ hist'[0] = [p \in Params |-> 0]
    <3>1. 0 \in 0..MaxSteps /\ 0 <= gstep
      BY <1>2, AsyncAssumption
    <3>2. hist'[0] = hist[0]
      BY <1>4, <3>1
    <3>3. hist[0] = [p \in Params |-> 0]
      BY DEF HeldInv
    <3>. QED
      BY <1>4, <3>2, <3>3
  <2>7. sending' = sending /\ snap' = snap /\ issued' = issued /\ link' = link /\ model' = model
    BY <1>1 DEF syncVars
  <2>8. sending # "queued" => snap = hist[issued]
    BY <1>1 DEF HeldInv
  <2>9. ASSUME NEW w \in Workers PROVE HeldAt(w)'
    <3>1. HeldAt(w)
      BY DEF HeldInv
    <3>2. /\ link[w] = <<>> => model[w] = snap
          /\ link[w] # <<>> => Load(model[w], link[w][1]) = snap
          /\ model[w] = hist[version[w]]
          /\ Expecting(w) => version[w] < issued
          /\ ~ Expecting(w) => version[w] = issued
      BY <1>1, <2>3, <3>1 DEF HeldAt, Booted
    <3>3. model[w] = hist'[version[w]]
      BY <2>5, <3>2
    <3>4. UNCHANGED <<version, link, model>>
      BY <1>1 DEF syncVars
    <3>. QED
      BY <1>1, <2>2, <2>3, <2>7, <3>2, <3>3, <3>4 DEF HeldAt, Booted
  <2>. QED
    BY <1>1, <2>1, <2>6, <2>7, <2>8, <2>9 DEF HeldInv
<1>. QED
  BY <1>1, <1>5, <1>6, <1>7, <1>8

(***************************************************************************)
(* The actor's version moves on; nothing is queued at it.                  *)
(***************************************************************************)
LEMMA SetGlobalStepStep ==
    ASSUME SyncInv, SetGlobalStep
    PROVE  SyncInv'
<1> USE DEF SyncInv
<1>1. /\ pc = "set_step" /\ pc' = "sync" /\ aver' = gstep
      /\ UNCHANGED <<mode, gstep, pending, issued, weights, hist, snap, sending, syncVars>>
  BY DEF SetGlobalStep
<1>2. SyncTypeOK'
  BY <1>1 DEF SyncTypeOK, syncVars
<1>3. OneSync'
  BY <1>1 DEF OneSync, OneSyncAt, Expecting, Called, Applying, AppliedBy, Through, syncVars
<1>4. RunnerInv'
  BY <1>1 DEF RunnerInv, HandlesDone, syncVars, SyncTypeOK
<1>5. HeldInv'
  BY <1>1 DEF HeldInv, HeldAt, Expecting, Called, Applying, Booted, syncVars
<1>. QED
  BY <1>1, <1>2, <1>3, <1>4, <1>5

(***************************************************************************)
(* The actor sends the patch: every worker expects it, and it turns the    *)
(* snapshot they all hold into the weights that become the snapshot.       *)
(***************************************************************************)
LEMMA SyncModelToRolloutStep ==
    ASSUME SyncInv, SyncModelToRollout
    PROVE  SyncInv'
<1> USE DEF SyncInv
<1>1. /\ sending = "queued" /\ sending' = "in_flight" /\ snap' = weights
      /\ link' = [w \in Workers |-> link[w] \o Transfer]
      /\ UNCHANGED <<mode, runnerVars, aver, weights, hist, rpc, sync, target, version, model>>
  BY DEF SyncModelToRollout
<1>2. PICK x \in Messages : /\ Transfer = <<x>> /\ x.last /\ x.ver = aver
                            /\ Load(snap, x) = weights
  BY PatchMessage
<1>3. \A w \in Workers : Expecting(w) /\ Expecting(w)' /\ link[w] = <<>>
  <2>1. \A w \in Workers : Expecting(w) /\ link[w] \in Seq(Messages) /\ Len(link[w]) = 0
    BY <1>1 DEF OneSync, OneSyncAt, SyncTypeOK
  <2>. QED
    BY <1>1, <2>1 DEF Expecting, Called, Applying
<1>4. link' = [w \in Workers |-> <<x>>]
  <2>1. <<>> \o <<x>> = <<x>>
    OBVIOUS
  <2>2. \A w \in Workers : link[w] \o Transfer = <<x>>
    BY <1>2, <1>3, <2>1
  <2>. QED
    BY <1>1, <2>2
<1>5. SyncTypeOK'
  <2>1. weights \in Weights
    BY DEF SyncTypeOK, Policies, Weights, NoVersion
  <2>2. link' \in [Workers -> Seq(Messages)]
    <3>1. <<x>> \in Seq(Messages)
      OBVIOUS
    <3>. QED
      BY <1>4, <3>1
  <2>. QED
    BY <1>1, <2>1, <2>2 DEF SyncTypeOK, runnerVars
<1>6. issued = aver /\ pc \notin {"boot", "train", "set_step", "sync"}
  BY <1>1 DEF RunnerInv
<1>7. OneSync'
  <2> SUFFICES ASSUME NEW w \in Workers
               PROVE  /\ ~ sync'[w].requested
                      /\ Expecting(w)'
                      /\ Len(link'[w]) = 1
                      /\ link'[w][1].last /\ link'[w][1].ver = issued'
    BY <1>1 DEF OneSync, OneSyncAt
  <2>. QED
    BY <1>1, <1>2, <1>3, <1>4, <1>6 DEF OneSync, OneSyncAt, runnerVars
<1>8. RunnerInv'
  BY <1>1 DEF RunnerInv, HandlesDone, runnerVars
<1>9. HeldInv'
  <2>1. weights = hist[issued]
    BY <1>6 DEF HeldInv, HeldAt, RunnerInv
  <2>2. \A w \in Workers : link'[w] # <<>> /\ link'[w][1] = x /\ model[w] = snap
    BY <1>3, <1>4 DEF HeldInv, HeldAt
  <2>3. Booted' <=> Booted
    BY <1>1 DEF Booted, runnerVars
  <2>. QED
    BY <1>1, <1>2, <1>3, <2>1, <2>2, <2>3, LoadedStays DEF HeldInv, HeldAt, runnerVars
<1>. QED
  BY <1>1, <1>5, <1>7, <1>8, <1>9

(***************************************************************************)
(* The actor's call returns.                                               *)
(***************************************************************************)
LEMMA SendDoneStep ==
    ASSUME SyncInv, SendDone
    PROVE  SyncInv'
<1> USE DEF SyncInv, runnerVars, syncVars
<1>1. /\ sending = "in_flight" /\ sending' = "none"
      /\ UNCHANGED <<mode, runnerVars, aver, weights, hist, snap, syncVars>>
  BY DEF SendDone
<1>2. SyncTypeOK'
  BY <1>1 DEF SyncTypeOK
<1>3. OneSync'
  BY <1>1 DEF OneSync, OneSyncAt, Expecting, Called, Applying, AppliedBy, Through
<1>4. RunnerInv'
  BY <1>1 DEF RunnerInv, HandlesDone
<1>5. HeldInv'
  BY <1>1, LoadedStays DEF HeldInv, HeldAt, Expecting, Called, Applying, Booted
<1>. QED
  BY <1>1, <1>2, <1>3, <1>4, <1>5
(***************************************************************************)
(* A step of one rollout worker: it is enough to look at that worker, and  *)
(* no call returns unless it was outstanding.                              *)
(***************************************************************************)
LEMMA OneWorkerStep ==
    ASSUME SyncInv, NEW w \in Workers, SyncTypeOK',
           UNCHANGED <<mode, runnerVars, actorVars>>,
           \A u \in Workers \ {w} :
              /\ link'[u] = link[u] /\ rpc'[u] = rpc[u] /\ sync'[u] = sync[u]
              /\ target'[u] = target[u] /\ version'[u] = version[u] /\ model'[u] = model[u],
           rpc[w] = "none" => rpc'[w] = "none",
           OneSyncAt(w)', HeldAt(w)'
    PROVE  SyncInv'
<1> USE DEF SyncInv, runnerVars, actorVars
<1>1. \A u \in Workers \ {w} :
        /\ Expecting(u)' <=> Expecting(u)
        /\ AppliedBy(u)' <=> AppliedBy(u)
        /\ Through(u)' <=> Through(u)
  BY DEF Expecting, Called, Applying, AppliedBy, Through
<1>2. OneSync'
  BY <1>1 DEF OneSync, OneSyncAt
<1>3. RunnerInv'
  BY DEF RunnerInv, HandlesDone
<1>4. HeldInv'
  BY <1>1, LoadedStays DEF HeldInv, HeldAt, Booted
<1>. QED
  BY <1>2, <1>3, <1>4

(***************************************************************************)
(* request_actor_sync_model finds no earlier apply owed and starts its own.*)
(***************************************************************************)
LEMMA RequestActorSyncModelStep ==
    ASSUME SyncInv, NEW w \in Workers, RequestActorSyncModel(w)
    PROVE  SyncInv'
<1> USE DEF SyncInv
<1> DEFINE s == sync[w]
           t == StartIfNeeded([s EXCEPT !.requested = TRUE])
<1>1. s \in SyncStates /\ rpc[w] = "request"
  BY DEF SyncTypeOK, RequestActorSyncModel
<1>2. ~ s.requested /\ s.work = "none" /\ Called(w) /\ Expecting(w)
  BY <1>1 DEF OneSync, OneSyncAt, Expecting, Called, Applying, AppliedBy, Through
<1>3. /\ t \in SyncStates /\ ~ t.requested /\ t.total = s.total /\ t.work = "running"
      /\ Owed(s) = 0
  BY <1>1, <1>2, RequestStarts
<1>4. s.total \in Nat /\ s.total + 0 + 1 = s.total + 1 /\ s.total + 1 \in Nat
  BY <1>1 DEF SyncStates
<1>5. /\ UNCHANGED <<mode, runnerVars, actorVars, link, version, model>>
      /\ rpc' = [rpc EXCEPT ![w] = "waiting"]
      /\ target' = [target EXCEPT ![w] = s.total + 1]
      /\ sync' = [sync EXCEPT ![w] = t]
  BY <1>2, <1>3, <1>4 DEF RequestActorSyncModel
<1> HIDE DEF t
<1>6. SyncTypeOK'
  BY <1>3, <1>4, <1>5 DEF SyncTypeOK, runnerVars, actorVars
<1>7. /\ rpc'[w] = "waiting" /\ sync'[w] = t /\ target'[w] = s.total + 1
      /\ \A u \in Workers \ {w} :
           rpc'[u] = rpc[u] /\ sync'[u] = sync[u] /\ target'[u] = target[u]
  BY <1>5 DEF SyncTypeOK
<1>8. Expecting(w)' /\ ~ AppliedBy(w)' /\ ~ Through(w)'
  BY <1>3, <1>7 DEF Expecting, Called, Applying, AppliedBy, Through
<1>9. OneSyncAt(w)'
  BY <1>2, <1>3, <1>5, <1>7, <1>8 DEF OneSync, OneSyncAt, runnerVars, actorVars
<1>10. HeldAt(w)'
  BY <1>2, <1>5, <1>8, LoadedStays DEF HeldInv, HeldAt, Booted, runnerVars, actorVars
<1>. QED
  BY <1>1, <1>5, <1>6, <1>7, <1>9, <1>10, OneWorkerStep

(***************************************************************************)
(* A waiting request resumes once its apply is done, and returns.          *)
(***************************************************************************)
LEMMA RequestResumesStep ==
    ASSUME SyncInv, NEW w \in Workers, RequestResumes(w)
    PROVE  SyncInv'
<1> USE DEF SyncInv
<1> DEFINE s == sync[w]
<1>1. s \in SyncStates /\ rpc[w] = "waiting" /\ target[w] \in Nat /\ s.total \in Nat
  BY DEF SyncTypeOK, RequestResumes, SyncStates
<1>2. /\ UNCHANGED <<mode, runnerVars, actorVars, link, target, version, model>>
      /\ rpc' = [rpc EXCEPT ![w] = IF sync'[w].total >= target[w] THEN "none" ELSE "waiting"]
      /\ \/ s.work = "done" /\ sync' = [sync EXCEPT ![w] = Finish(s)]
         \/ s.total >= target[w] /\ sync' = sync
  BY DEF RequestResumes
<1>3. ~ s.requested /\ ~ Expecting(w) /\ AppliedBy(w)
  BY <1>1, <1>2 DEF OneSync, OneSyncAt, Expecting, Called, Applying, AppliedBy, Through
<1>4. /\ Finish(s) \in SyncStates /\ ~ Finish(s).requested
      /\ Finish(s).total = s.total + 1 /\ Finish(s).work = "none"
  BY <1>1, <1>3, FinishRetires
<1>5. /\ sync' \in [Workers -> SyncStates]
      /\ ~ sync'[w].requested /\ sync'[w].work = "none" /\ sync'[w].total = target[w]
      /\ \A u \in Workers \ {w} : sync'[u] = sync[u]
  <2>1. sync \in [Workers -> SyncStates]
    BY DEF SyncTypeOK
  <2>2. CASE s.work = "done" /\ sync' = [sync EXCEPT ![w] = Finish(s)]
    <3>1. target[w] = s.total + 1
      BY <1>3, <2>2 DEF AppliedBy
    <3>. QED
      BY <1>4, <2>1, <2>2, <3>1
  <2>3. CASE s.total >= target[w] /\ sync' = sync
    BY <1>1, <1>3, <2>1, <2>3 DEF AppliedBy
  <2>. QED
    BY <1>2, <2>2, <2>3
<1>6. rpc' = [rpc EXCEPT ![w] = "none"]
  <2>1. sync'[w].total >= target[w]
    BY <1>1, <1>5
  <2>. QED
    BY <1>2, <2>1
<1>7. SyncTypeOK'
  BY <1>2, <1>5, <1>6 DEF SyncTypeOK, runnerVars, actorVars
<1>8. rpc'[w] = "none" /\ \A u \in Workers \ {w} : rpc'[u] = rpc[u]
  BY <1>6 DEF SyncTypeOK
<1>9. ~ Expecting(w)' /\ Through(w)'
  BY <1>5, <1>8 DEF Expecting, Called, Applying, Through
<1>10. OneSyncAt(w)'
  BY <1>2, <1>3, <1>5, <1>9 DEF OneSync, OneSyncAt, runnerVars, actorVars
<1>11. HeldAt(w)'
  BY <1>2, <1>3, <1>9, LoadedStays DEF HeldInv, HeldAt, Booted, runnerVars, actorVars
<1>. QED
  BY <1>2, <1>5, <1>7, <1>8, <1>10, <1>11, OneWorkerStep

(***************************************************************************)
(* An inference; its poll may retire the finished apply task.              *)
(***************************************************************************)
LEMMA PredictStep ==
    ASSUME SyncInv, NEW w \in Workers, Predict(w)
    PROVE  SyncInv'
<1> USE DEF SyncInv
<1> DEFINE s == sync[w]
<1>1. s \in SyncStates /\ ~ s.requested /\ s.total \in Nat
  BY DEF SyncTypeOK, OneSync, OneSyncAt, SyncStates
<1>2. UNCHANGED <<mode, runnerVars, actorVars, link, rpc, target, version, model>>
  BY DEF Predict
<1>3. sync' = [sync EXCEPT ![w] = s] \/ sync' = [sync EXCEPT ![w] = Poll(s)]
  BY DEF Predict
<1>4. sync' = sync \/ (s.work = "done" /\ sync' = [sync EXCEPT ![w] = Finish(s)])
  BY <1>1, <1>3, PollRetires DEF SyncTypeOK
<1>5. CASE sync' = sync
  BY <1>2, <1>5, OtherStep DEF syncVars
<1>6. CASE s.work = "done" /\ sync' = [sync EXCEPT ![w] = Finish(s)]
  <2>1. /\ Finish(s) \in SyncStates /\ ~ Finish(s).requested
        /\ Finish(s).total = s.total + 1 /\ Finish(s).work = "none"
    BY <1>1, FinishRetires
  <2>2. AppliedBy(w) /\ ~ Expecting(w)
    BY <1>6 DEF OneSync, OneSyncAt, Expecting, Called, Applying, AppliedBy, Through
  <2>3. /\ sync' \in [Workers -> SyncStates] /\ sync'[w] = Finish(s)
        /\ \A u \in Workers \ {w} : sync'[u] = sync[u]
    BY <1>6, <2>1 DEF SyncTypeOK
  <2>4. SyncTypeOK'
    BY <1>2, <2>3 DEF SyncTypeOK, runnerVars, actorVars
  <2>5. AppliedBy(w)' /\ ~ Expecting(w)'
    BY <1>1, <1>2, <1>6, <2>1, <2>2, <2>3 DEF AppliedBy, Expecting, Called, Applying
  <2>6. OneSyncAt(w)'
    BY <1>2, <2>1, <2>2, <2>3, <2>5 DEF OneSync, OneSyncAt, runnerVars, actorVars
  <2>7. HeldAt(w)'
    BY <1>2, <2>2, <2>5, LoadedStays DEF HeldInv, HeldAt, Booted, runnerVars, actorVars
  <2>. QED
    BY <1>2, <2>3, <2>4, <2>6, <2>7, OneWorkerStep
<1>. QED
  BY <1>4, <1>5, <1>6
(***************************************************************************)
(* A link with one message.                                                *)
(***************************************************************************)
LEMMA SingletonSeq ==
    ASSUME NEW s \in Seq(Messages), Len(s) = 1
    PROVE  /\ Head(s) = s[1] /\ s[1] \in Messages
           /\ Tail(s) = <<>> /\ s = <<s[1]>>
<1>1. s[1] \in Messages /\ s = <<s[1]>> /\ s # <<>>
  OBVIOUS
<1>2. Head(s) = s[1]
  BY <1>1
<1>3. Tail(s) \in Seq(Messages) /\ Len(Tail(s)) = 0
  BY <1>1
<1>4. \A t \in Seq(Messages) : Len(t) = 0 => t = <<>>
  OBVIOUS
<1>. QED
  BY <1>1, <1>2, <1>3, <1>4

(***************************************************************************)
(* A worker receives the message it expects: what it holds becomes what    *)
(* the snapshot says, the policy of the version it takes over.             *)
(***************************************************************************)
LEMMA SyncModelFromActorStep ==
    ASSUME SyncInv, NEW w \in Workers, SyncModelFromActor(w)
    PROVE  /\ SyncInv'
           /\ Expecting(w) /\ sending # "queued" /\ pc # "boot"
           /\ version' = [version EXCEPT ![w] = issued]
           /\ model' = [model EXCEPT ![w] = hist[issued]]
<1> USE DEF SyncInv
<1> DEFINE x == link[w][1]
<1>1. /\ link[w] \in Seq(Messages) /\ link[w] # <<>> /\ Receiving(w)
      /\ link' = [link EXCEPT ![w] = Tail(@)]
      /\ UNCHANGED <<mode, runnerVars, actorVars, target>>
  BY DEF SyncModelFromActor, SyncTypeOK
<1>2. Expecting(w) /\ sending # "queued" /\ Len(link[w]) = 1 /\ x.last /\ x.ver = issued
  <2>1. Len(link[w]) # 0
    BY <1>1
  <2>. QED
    BY <1>1, <2>1 DEF OneSync, OneSyncAt
<1>3. Head(link[w]) = x /\ x \in Messages /\ Tail(link[w]) = <<>>
  BY <1>1, <1>2, SingletonSeq
<1>4. pc # "boot"
  BY <1>2 DEF RunnerInv, HandlesDone, Expecting, Called, Applying
<1>5. Load(model[w], x) = snap /\ snap = hist[issued]
  BY <1>1, <1>2, <1>4 DEF HeldInv, HeldAt
<1>6. /\ model' = [model EXCEPT ![w] = snap]
      /\ version' = [version EXCEPT ![w] = issued]
  BY <1>2, <1>3, <1>5 DEF SyncModelFromActor
<1>7. \/ /\ Called(w) /\ rpc' = [rpc EXCEPT ![w] = "none"] /\ sync' = sync
      \/ /\ Applying(w) /\ rpc' = rpc /\ sync' = [sync EXCEPT ![w].work = "done"]
  <2>1. \/ /\ rpc[w] = "blocking" /\ rpc' = [rpc EXCEPT ![w] = "none"] /\ sync' = sync
        \/ /\ sync[w].work = "running" /\ rpc' = rpc
           /\ sync' = [sync EXCEPT ![w].work = "done"]
    BY <1>2, <1>3 DEF SyncModelFromActor
  <2>. QED
    BY <1>2, <2>1 DEF Expecting, Called, Applying
<1>8. /\ sync[w] \in SyncStates /\ [sync[w] EXCEPT !.work = "done"] \in SyncStates
      /\ [sync[w] EXCEPT !.work = "done"].work = "done"
      /\ [sync[w] EXCEPT !.work = "done"].total = sync[w].total
      /\ [sync[w] EXCEPT !.work = "done"].requested = sync[w].requested
  BY DEF SyncTypeOK, SyncStates
<1>9. /\ sync' \in [Workers -> SyncStates]
      /\ sync'[w] = sync[w] \/ sync'[w] = [sync[w] EXCEPT !.work = "done"]
      /\ \A u \in Workers \ {w} : sync'[u] = sync[u]
      /\ Applying(w) => sync'[w] = [sync[w] EXCEPT !.work = "done"] /\ rpc' = rpc
      /\ Called(w) => sync' = sync /\ rpc'[w] = "none"
      /\ rpc' \in [Workers -> {"none", "blocking", "request", "waiting"}]
      /\ \A u \in Workers \ {w} : rpc'[u] = rpc[u]
  BY <1>7, <1>8 DEF SyncTypeOK, Called, Applying
<1>10. /\ link' \in [Workers -> Seq(Messages)] /\ link'[w] = <<>>
       /\ model'[w] = snap /\ version'[w] = issued
       /\ \A u \in Workers \ {w} : /\ link'[u] = link[u] /\ model'[u] = model[u]
                                   /\ version'[u] = version[u]
  BY <1>1, <1>3, <1>6 DEF SyncTypeOK
<1>11. SyncTypeOK'
  BY <1>1, <1>6, <1>9, <1>10 DEF SyncTypeOK, runnerVars, actorVars
<1>12. ~ Expecting(w)' /\ (AppliedBy(w)' \/ Through(w)') /\ ~ sync'[w].requested
  <2>1. ~ sync[w].requested
    BY DEF OneSync, OneSyncAt
  <2>2. CASE Called(w)
    BY <1>9, <2>1, <2>2 DEF Called, Expecting, Applying, Through
  <2>3. CASE Applying(w)
    BY <1>1, <1>8, <1>9, <2>1, <2>3 DEF Called, Expecting, Applying, AppliedBy
  <2>. QED
    BY <1>2, <2>2, <2>3 DEF Expecting
<1>13. OneSyncAt(w)'
  BY <1>1, <1>2, <1>10, <1>12 DEF OneSyncAt, actorVars
<1>14. HeldAt(w)'
  BY <1>1, <1>4, <1>5, <1>10, <1>12 DEF HeldAt, runnerVars, actorVars
<1>15. SyncInv'
  <2>1. rpc[w] # "none"
    BY <1>2 DEF Expecting, Called, Applying
  <2>. QED
    BY <1>1, <1>9, <1>10, <1>11, <1>13, <1>14, <2>1, OneWorkerStep
<1>. QED
  BY <1>2, <1>4, <1>5, <1>6, <1>15

-----------------------------------------------------------------------------
(***************************************************************************)
(* The invariant of the patch syncer is inductive.                         *)
(***************************************************************************)
LEMMA NextSyncInv == SyncInv /\ [Next]_vars => SyncInv'
<1> SUFFICES ASSUME SyncInv, [Next]_vars
             PROVE  SyncInv'
  OBVIOUS
<1>1. CASE RunnerBoot \/ SyncBlocking \/ SyncInBackground
  BY <1>1, IssueStep
<1>2. CASE \/ RunnerStart \/ ConstructRolloutBatch \/ SyncLanded \/ SyncCoalesced
           \/ DrainPending \/ EnvsStopped \/ RunnerDone
  <2>1. UNCHANGED <<mode, gstep, issued, actorVars, syncVars>>
    BY <1>2 DEF RunnerStart, ConstructRolloutBatch, SyncLanded, SyncCoalesced,
                DrainPending, EnvsStopped, RunnerDone
  <2>. QED
    BY <1>2, <2>1, RunnerGoesOn
<1>3. CASE RunTraining \/ SetGlobalStep
  BY <1>3, RunTrainingStep, SetGlobalStepStep
<1>4. CASE SyncModelToRollout \/ SendDone
  BY <1>4, SyncModelToRolloutStep, SendDoneStep
<1>5. CASE \E w \in Workers : \/ RequestActorSyncModel(w) \/ RequestResumes(w)
                              \/ SyncModelFromActor(w) \/ Predict(w)
  BY <1>5, RequestActorSyncModelStep, RequestResumesStep, SyncModelFromActorStep,
     PredictStep
<1>6. CASE \/ RecvRolloutTrajectory \/ Terminated \/ UNCHANGED vars
           \/ \E w \in Workers : StopRollout(w) \/ EnvNext(w)
  <2>1. UNCHANGED <<mode, runnerVars, actorVars, syncVars>>
    BY <1>6 DEF RecvRolloutTrajectory, Terminated, vars, StopRollout, EnvNext,
                EnvResumes, EnvStep, EnvFinish, StopEnv
  <2>. QED
    BY <2>1, OtherStep
<1>. QED
  BY <1>1, <1>2, <1>3, <1>4, <1>5, <1>6 DEF Next, RunnerNext, ActorNext, RolloutNext

(***************************************************************************)
(* With the patch syncer, blocking or in the background, at most one sync  *)
(* is ever on its way, the snapshot is what the receivers will hold, and   *)
(* the runner issues a sync only after the one before has landed.          *)
(***************************************************************************)
THEOREM SyncInvariant == Spec /\ mode.syncer = "patch" => []SyncInv
<1>1. Init /\ mode.syncer = "patch" => SyncInv
  BY InitSyncInv
<1>2. SyncInv /\ [Next]_vars => SyncInv'
  BY NextSyncInv
<1>. QED
  BY <1>1, <1>2, PTL DEF Spec

(***************************************************************************)
(* A rollout worker that may sample computes with exactly the weights of   *)
(* the version it stamps on its samples.                                   *)
(***************************************************************************)
THEOREM WorkersMatchVersion == Spec /\ mode.syncer = "patch" => []WeightsMatchVersion
<1>1. SyncInv => WeightsMatchVersion
  BY DEF SyncInv, HeldInv, HeldAt, WeightsMatchVersion, Booted
<1>. QED
  BY <1>1, SyncInvariant, PTL

(***************************************************************************)
(* When both handles of a sync are done, the sync has landed everywhere.   *)
(***************************************************************************)
THEOREM HandlesTellTruth == Spec /\ mode.syncer = "patch" => []HandlesTruthful
<1>1. SyncInv => HandlesTruthful
  <2> SUFFICES ASSUME SyncInv, pc # "boot", HandlesDone, NEW w \in Workers
               PROVE  /\ link[w] = <<>> /\ ~ sync[w].requested
                      /\ sync[w].work = "none" /\ version[w] = issued
    BY DEF HandlesTruthful
  <2>1. Through(w) /\ ~ Expecting(w) /\ link[w] = <<>>
    BY DoneMeansThrough
  <2>. QED
    BY <2>1 DEF SyncInv, OneSync, OneSyncAt, HeldInv, HeldAt, Through
<1>. QED
  BY <1>1, SyncInvariant, PTL

(***************************************************************************)
(* The snapshot the sender diffs against, which no receiver confirms, is   *)
(* what every receiver holds once it has what is on its way to it.         *)
(***************************************************************************)
LEMMA AppliedOne ==
    ASSUME NEW m \in Weights, NEW x \in Messages
    PROVE  Applied(m, <<x>>) = Load(m, x) /\ Applied(m, <<>>) = m
<1>1. Applied(m, <<>>) = m
  BY DEF Applied, Weights
<1>2. ASSUME NEW p \in Params
      PROVE  Applied(m, <<x>>)[p] = Load(m, x)[p]
  <2> DEFINE with == {i \in 1..Len(<<x>>) : p \in DOMAIN <<x>>[i].pars}
  <2>1. Applied(m, <<x>>)[p] =
          IF with = {} THEN m[p]
          ELSE <<x>>[CHOOSE i \in with : \A j \in with : j <= i].pars[p]
    BY DEF Applied
  <2>2. with = IF p \in DOMAIN x.pars THEN {1} ELSE {}
    <3>1. 1..Len(<<x>>) = {1} /\ <<x>>[1] = x
      OBVIOUS
    <3>. QED
      BY <3>1
  <2>3. (CHOOSE i \in {1} : \A j \in {1} : j <= i) = 1
    OBVIOUS
  <2>4. CASE p \in DOMAIN x.pars
    BY <2>1, <2>2, <2>3, <2>4 DEF Load
  <2>5. CASE p \notin DOMAIN x.pars
    BY <2>1, <2>2, <2>5 DEF Load
  <2>. QED
    BY <2>4, <2>5
<1>3. Applied(m, <<x>>) = [p \in Params |-> Applied(m, <<x>>)[p]]
  BY DEF Applied
<1>4. Load(m, x) = [p \in Params |-> Load(m, x)[p]]
  BY DEF Load
<1>. QED
  BY <1>1, <1>2, <1>3, <1>4

THEOREM SnapshotTracksReceivers == Spec /\ mode.syncer = "patch" => []SnapshotIsReceivers
<1>1. SyncInv => SnapshotIsReceivers
  <2> SUFFICES ASSUME SyncInv, NEW w \in Workers
               PROVE  Applied(model[w], link[w]) = snap
    BY DEF SnapshotIsReceivers
  <2>1. model[w] \in Weights /\ link[w] \in Seq(Messages)
    BY DEF SyncInv, SyncTypeOK
  <2>2. CASE link[w] = <<>>
    <3>1. model[w] = snap
      BY <2>2 DEF SyncInv, HeldInv, HeldAt
    <3>2. Applied(model[w], <<>>) = model[w]
      BY <2>1 DEF Applied, Weights
    <3>. QED
      BY <2>2, <3>1, <3>2
  <2>3. CASE link[w] # <<>>
    <3>1. Len(link[w]) = 1
      <4>1. Len(link[w]) # 0
        BY <2>1, <2>3
      <4>. QED
        BY <4>1 DEF SyncInv, OneSync, OneSyncAt
    <3>2. link[w][1] \in Messages /\ link[w] = <<link[w][1]>>
      BY <2>1, <3>1
    <3>3. Load(model[w], link[w][1]) = snap
      BY <2>3 DEF SyncInv, HeldInv, HeldAt
    <3>. QED
      BY <2>1, <3>2, <3>3, AppliedOne
  <2>. QED
    BY <2>2, <2>3
<1>. QED
  BY <1>1, SyncInvariant, PTL
-----------------------------------------------------------------------------
(* The refinement of PolicyRegister.                                        *)

Held ==
    [w \in Workers |-> IF NoVersion \in Range(model[w]) THEN -1 ELSE version[w]]

(***************************************************************************)
(* No published policy looks like a model that lacks some of its weights.  *)
(***************************************************************************)
LEMMA PoliciesAreWeights ==
    ASSUME NEW c \in Policies
    PROVE  c \in Weights /\ NoVersion \notin Range(c)
  BY DEF Policies, Weights, NoVersion, Range

(***************************************************************************)
(* A worker that has loaded everything starts with the first policy.       *)
(***************************************************************************)
LEMMA LoadedOrLacking ==
    NoVersion \in Range(Loaded) \/ Loaded = [p \in Params |-> 0]
  BY Zenon DEF Loaded, Range

(***************************************************************************)
(* The initial states of the protocol are initial states of the register.  *)
(***************************************************************************)
LEMMA RegisterInit == Init /\ mode.syncer = "patch" => Register!RegInit
<1> SUFFICES ASSUME Init, mode.syncer = "patch"
             PROVE  Register!RegInit
  OBVIOUS
<1>1. SyncTypeOK
  BY InitSyncInv DEF SyncInv
<1>2. gstep = 0
  BY DEF Init
<1>3. hist \in [0..MaxSteps -> Weights]
  BY <1>1, PoliciesAreWeights DEF SyncTypeOK
<1>4. \A w \in Workers : model[w] = Loaded /\ version[w] = 0
  BY DEF Init
<1>5. Held \in [Workers -> {-1, 0}]
  BY <1>4 DEF Held
<1>6. \A w \in Workers : Held[w] = 0 => model[w] = hist[0]
  <2>1. hist[0] = [p \in Params |-> 0]
    BY AsyncAssumption DEF Init
  <2>. QED
    BY <1>4, <2>1, LoadedOrLacking DEF Held
<1>7. model \in [Workers -> Weights]
  BY <1>1 DEF SyncTypeOK
<1>. QED
  BY <1>2, <1>3, <1>5, <1>6, <1>7 DEF Register!RegInit, Held

(***************************************************************************)
(* Every step of the protocol is a step of the register or leaves it as it *)
(* is: a training step publishes, and the arrival of a patch adopts the    *)
(* policy of the version it carries, a later one than the worker had, but  *)
(* for the first patch at a worker that has loaded all of its weights.     *)
(***************************************************************************)
LEMMA RegisterStep ==
    SyncInv /\ [Next]_vars => [Register!RegNext]_(Register!regVars)
<1> SUFFICES ASSUME SyncInv, [Next]_vars
             PROVE  [Register!RegNext]_(Register!regVars)
  OBVIOUS
<1> USE DEF SyncInv
<1>1. CASE RunTraining
  <2>1. /\ gstep < MaxSteps /\ gstep' = gstep + 1
        /\ hist' = [hist EXCEPT ![gstep + 1] = weights']
        /\ UNCHANGED <<model, version>>
    BY <1>1 DEF RunTraining, RunnerInv, syncVars
  <2>2. weights' \in Weights
    BY <1>1, RunTrainingStep, PoliciesAreWeights DEF SyncTypeOK
  <2>3. Held' = Held
    BY <2>1 DEF Held
  <2>. QED
    BY <2>1, <2>2, <2>3 DEF Register!RegNext, Register!Publish, Held
<1>2. ASSUME NEW w \in Workers, SyncModelFromActor(w)
      PROVE  Register!Adopt(w) \/ UNCHANGED Register!regVars
  <2>1. /\ Expecting(w) /\ pc # "boot"
        /\ version' = [version EXCEPT ![w] = issued]
        /\ model' = [model EXCEPT ![w] = hist[issued]]
        /\ UNCHANGED <<gstep, hist>>
    BY <1>2, SyncModelFromActorStep DEF SyncModelFromActor, runnerVars, actorVars
  <2>2. issued \in 0..MaxSteps /\ gstep \in 0..MaxSteps /\ issued <= gstep
    BY DEF SyncTypeOK, RunnerInv
  <2>3. NoVersion \notin Range(hist[issued])
    BY <2>2, PoliciesAreWeights DEF SyncTypeOK
  <2>4. Held[w] = IF NoVersion \in Range(model[w]) THEN -1 ELSE version[w]
    BY DEF Held
  <2>5. Held' = [Held EXCEPT ![w] = issued]
    BY <2>1, <2>3 DEF Held, SyncTypeOK
  <2>6. CASE Booted \/ NoVersion \in Range(model[w])
    <3>1. version[w] \in Int /\ (Booted => version[w] < issued)
      BY <2>1, <2>2 DEF HeldInv, HeldAt, SyncTypeOK
    <3>2. issued \in (Held[w] + 1)..gstep
      BY <2>2, <2>4, <2>6, <3>1
    <3>. QED
      BY <2>1, <2>5, <3>2 DEF Register!Adopt, Held
  <2>7. CASE ~ Booted /\ NoVersion \notin Range(model[w])
    <3>1. model[w] = Loaded /\ version[w] = 0 /\ issued = 0
      BY <2>1, <2>2, <2>7 DEF HeldInv, HeldAt, Booted, RunnerInv
    <3>2. model[w] = hist[issued] /\ version[w] = issued
      BY <2>7, <3>1, LoadedOrLacking DEF HeldInv
    <3>3. model' = model /\ version' = version
      BY <2>1, <3>2 DEF SyncTypeOK
    <3>. QED
      BY <2>1, <3>3 DEF Register!regVars
  <2>. QED
    BY <2>6, <2>7
<1>3. CASE \/ RunnerBoot \/ SyncBlocking \/ SyncInBackground
           \/ RunnerStart \/ ConstructRolloutBatch \/ SyncLanded \/ SyncCoalesced
           \/ DrainPending \/ EnvsStopped \/ RunnerDone \/ SetGlobalStep
           \/ SyncModelToRollout \/ SendDone \/ RecvRolloutTrajectory \/ Terminated
           \/ UNCHANGED vars
  <2>1. UNCHANGED <<gstep, hist, model, version>>
    BY <1>3 DEF RunnerBoot, SyncBlocking, SyncInBackground, RunnerStart,
         ConstructRolloutBatch, SyncLanded, SyncCoalesced, DrainPending, EnvsStopped,
         RunnerDone, SetGlobalStep, SyncModelToRollout, SendDone, RecvRolloutTrajectory,
         Terminated, vars, runnerVars, actorVars, syncVars
  <2>. QED
    BY <2>1 DEF Register!regVars
<1>4. CASE \E w \in Workers : \/ RequestActorSyncModel(w) \/ RequestResumes(w)
                              \/ Predict(w) \/ StopRollout(w) \/ EnvNext(w)
  <2>1. UNCHANGED <<gstep, hist, model, version>>
    BY <1>4 DEF RequestActorSyncModel, RequestResumes, Predict, StopRollout, EnvNext,
         EnvResumes, EnvStep, EnvFinish, StopEnv, runnerVars, actorVars, syncVars
  <2>. QED
    BY <2>1 DEF Register!regVars
<1>. QED
  BY <1>1, <1>2, <1>3, <1>4
     DEF Next, RunnerNext, ActorNext, RolloutNext, Register!RegNext

(***************************************************************************)
(* The sync protocol with patches, blocking or in the background,          *)
(* implements the register of published policies: every rollout worker     *)
(* computes with one published policy as a whole and only moves forward.   *)
(***************************************************************************)
THEOREM PatchSyncImplementsRegister ==
    Spec /\ mode.syncer = "patch" => ImplementsRegister
<1>1. Init /\ mode.syncer = "patch" => Register!RegInit
  BY RegisterInit
<1>2. SyncInv /\ [Next]_vars => [Register!RegNext]_(Register!regVars)
  BY RegisterStep
<1>. QED
  BY <1>1, <1>2, SyncInvariant, PTL DEF Spec, ImplementsRegister, Register!RegSpec
-----------------------------------------------------------------------------
(***************************************************************************)
(* Until the first weights have landed nobody samples: the loops have not  *)
(* been started.                                                           *)
(***************************************************************************)
NotStarted ==
    ~ Booted => \A w \in Workers : gen[w] = -1 /\ act[w] = <<>> /\ env[w].at = "idle"

LEMMA NotStartedInvariant == Spec => []NotStarted
<1>1. Init => NotStarted
  BY DEF Init, NotStarted
<1>2. NotStarted /\ [Next]_vars => NotStarted'
  <2> SUFFICES ASSUME NotStarted, [Next]_vars, ~ Booted'
               PROVE  ~ Booted /\ UNCHANGED loopVars
    BY DEF NotStarted, loopVars
  <2>1. CASE Booted
    BY <2>1 DEF Booted, Next, RunnerNext, ActorNext, RolloutNext, EnvNext, NextStep,
         RunnerBoot, RunnerStart, ConstructRolloutBatch, RunTraining, SetGlobalStep,
         SyncBlocking, SyncLanded, SyncInBackground, SyncCoalesced, DrainPending,
         EnvsStopped, RunnerDone, SyncModelToRollout, SendDone, RecvRolloutTrajectory,
         Terminated, RequestActorSyncModel, RequestResumes, SyncModelFromActor, Predict,
         StopRollout, EnvResumes, EnvStep, EnvFinish, StopEnv, vars, runnerVars
  <2>2. CASE ~ Booted
    <3>1. \A w \in Workers : ~ (Predict(w) \/ StopRollout(w) \/ EnvNext(w))
      BY <2>2 DEF NotStarted, Predict, StopRollout, EnvNext, EnvResumes, EnvStep,
           EnvFinish, StopEnv
    <3>2. UNCHANGED loopVars
      BY <2>2, <3>1 DEF Booted, Next, RunnerNext, ActorNext, RolloutNext,
         RunnerBoot, RunnerStart, ConstructRolloutBatch, RunTraining, SetGlobalStep,
         SyncBlocking, SyncLanded, SyncInBackground, SyncCoalesced, DrainPending,
         EnvsStopped, RunnerDone, SyncModelToRollout, SendDone, RecvRolloutTrajectory,
         Terminated, RequestActorSyncModel, RequestResumes, SyncModelFromActor,
         vars, loopVars
    <3>. QED
      BY <2>2, <3>2
  <2>. QED
    BY <2>1, <2>2
<1>. QED
  BY <1>1, <1>2, PTL DEF Spec

(***************************************************************************)
(* With the patch syncer no inference runs on weights other than those of  *)
(* the version it stamps; with the bucket syncer some do.                  *)
(***************************************************************************)
THEOREM PatchSamplesMatchVersion == Spec /\ mode.syncer = "patch" => SamplesMatchVersion
<1> DEFINE Sampled == \A w \in Workers :
                        Len(act'[w]) > Len(act[w]) /\ Last(act'[w]) # NoVersion
                          => model[w] = hist[version[w]]
<1>1. NotStarted /\ WeightsMatchVersion /\ [Next]_vars => [Sampled]_vars
  <2> SUFFICES ASSUME NotStarted, WeightsMatchVersion, Next
               PROVE  Sampled
    BY DEF vars
  <2>1. CASE Booted
    BY <2>1 DEF WeightsMatchVersion
  <2>2. CASE ~ Booted
    <3>1. \A w \in Workers : act[w] = <<>> /\ act'[w] = <<>>
      <4>1. \A w \in Workers : ~ (Predict(w) \/ StopRollout(w) \/ EnvNext(w))
        BY <2>2 DEF NotStarted, Predict, StopRollout, EnvNext, EnvResumes, EnvStep,
             EnvFinish, StopEnv
      <4>2. act' = act
        BY <4>1 DEF Next, RunnerNext, ActorNext, RolloutNext,
           RunnerBoot, RunnerStart, ConstructRolloutBatch, RunTraining, SetGlobalStep,
           SyncBlocking, SyncLanded, SyncInBackground, SyncCoalesced, DrainPending,
           EnvsStopped, RunnerDone, SyncModelToRollout, SendDone, RecvRolloutTrajectory,
           Terminated, RequestActorSyncModel, RequestResumes, SyncModelFromActor,
           vars, loopVars
      <4>. QED
        BY <2>2, <4>2 DEF NotStarted
    <3>. QED
      BY <3>1
  <2>. QED
    BY <2>1, <2>2
<1>. QED
  BY <1>1, NotStartedInvariant, WorkersMatchVersion, PTL DEF Spec, SamplesMatchVersion

-----------------------------------------------------------------------------
\* What a rollout worker stamps a chunk with, what reaches the actor, what
\* travels on a link, and what an env worker keeps.
Stamps == Nat \cup {NoVersion}
Recorded == {Trajectory(vers) : vers \in Seq(Stamps) \ {<<>>}}
Stamped == [ver : Nat, pars : UNION {[ps -> Nat] : ps \in SUBSET Params}, last : BOOLEAN]
Loops == [at : {"idle", "yield", "recv", "stopped"}, chunk : Nat, vers : Seq(Stamps)]

(***************************************************************************)
(* A set of naturals has a least element, which Min returns.               *)
(***************************************************************************)
LEMMA LeastNat ==
    ASSUME NEW S \in SUBSET Nat, S # {}
    PROVE  \E n \in S : \A m \in S : n <= m
<1> DEFINE R == OpToRel(<, Nat)
<1>1. IsWellFoundedOn(R, Nat)
  BY NatLessThanWellFounded
<1>2. \A i, j \in Nat : i < j => <<i, j>> \in R
  BY DEF OpToRel
<1> HIDE DEF R
<1>3. PICK n \in S : \A m \in S : ~ (<<m, n>> \in R)
  BY <1>1, WFMin
<1>4. \A m \in S : ~ (m < n)
  BY <1>2, <1>3
<1>. QED
  BY <1>4

LEMMA MinIsLeast ==
    ASSUME NEW S \in SUBSET Nat, S # {}
    PROVE  Min(S) \in S /\ \A m \in S : Min(S) <= m
  BY LeastNat DEF Min

(***************************************************************************)
(* Among the positions S of a list of length n, the first one; n + 1 if    *)
(* there is none.                                                          *)
(***************************************************************************)
LEMMA FirstPlace ==
    ASSUME NEW n \in Nat, NEW S \in SUBSET (1..n)
    PROVE  /\ Min(S \cup {n + 1}) \in 1..(n + 1)
           /\ Min(S \cup {n + 1}) <= n => Min(S \cup {n + 1}) \in S
           /\ \A i \in 1..n : i < Min(S \cup {n + 1}) => i \notin S
<1> DEFINE U == S \cup {n + 1}
<1>1. U \in SUBSET Nat /\ U # {}
  OBVIOUS
<1>2. Min(U) \in U /\ \A m \in U : Min(U) <= m
  <2> HIDE DEF U
  <2>. QED
    BY <1>1, MinIsLeast
<1> DEFINE k == Min(U)
<1>3. k = Min(S \cup {n + 1})
  OBVIOUS
<1> HIDE DEF k
<1>4. k \in S \cup {n + 1} /\ \A m \in S \cup {n + 1} : k <= m
  BY <1>2 DEF k
<1>5. k \in 1..(n + 1) /\ (k <= n => k \in S) /\ \A i \in 1..n : i < k => i \notin S
  BY <1>4
<1>. QED
  BY <1>3, <1>5

(***************************************************************************)
(* The oldest version of a trajectory is one of its versions.              *)
(***************************************************************************)
LEMMA TrajectoryMin ==
    ASSUME NEW vers \in Seq(Stamps), vers # <<>>
    PROVE  Trajectory(vers).min \in Int
<1> DEFINE S == Range(vers)
<1>1. Trajectory(vers).min = CHOOSE v \in S : \A u \in S : v <= u
  BY Zenon DEF Trajectory
<1>2. vers \in [1..Len(vers) -> Stamps] /\ Len(vers) \in Nat /\ Len(vers) # 0
  BY EmptySeq
<1>3. S \subseteq Stamps /\ vers[1] \in S
  BY <1>2 DEF Range
<1> HIDE DEF S
<1>4. \E v \in S : \A u \in S : v <= u
  <2> DEFINE above == {v + 1 : v \in S}
  <2>1. above \in SUBSET Nat /\ above # {}
    BY <1>3 DEF Stamps, NoVersion
  <2> HIDE DEF above
  <2>2. PICK n \in above : \A m \in above : n <= m
    BY <2>1, LeastNat
  <2>3. PICK v \in S : n = v + 1
    BY DEF above
  <2>4. ASSUME NEW u \in S PROVE v <= u
    <3>1. u + 1 \in above
      BY DEF above
    <3>. QED
      BY <1>3, <2>2, <2>3, <3>1 DEF Stamps, NoVersion
  <2>. QED
    BY <2>4
<1>5. Trajectory(vers).min \in S
  <2> DEFINE least == CHOOSE v \in S : \A u \in S : v <= u
  <2>1. least \in S
    BY <1>4
  <2> HIDE DEF least
  <2>2. Trajectory(vers).min = least
    BY <1>1 DEF least
  <2>. QED
    BY <2>1, <2>2
<1>6. S \subseteq Int
  BY <1>3 DEF Stamps, NoVersion
<1>. QED
  BY <1>5, <1>6, Zenon

(***************************************************************************)
(* Adding a trajectory keeps the store's order and its bound: it goes in   *)
(* front of the first one above it, and the first one goes when there are  *)
(* too many.                                                               *)
(***************************************************************************)
LEMMA StoreAddKeeps ==
    ASSUME NEW T, \A t \in T : t.min \in Int,
           NEW sl \in Seq(T), Len(sl) <= StoreSize, Sorted(sl), NEW t \in T
    PROVE  StoreAdd(sl, t) \in Seq(T) /\ Len(StoreAdd(sl, t)) <= StoreSize
           /\ Sorted(StoreAdd(sl, t))
<1> DEFINE n == Len(sl)
           S == {i \in DOMAIN sl : Below(t, sl[i])}
           k == Min(S \cup {n + 1})
           added == InsertAt(sl, k, t)
<1>1. n \in Nat /\ DOMAIN sl = 1..n /\ \A i \in 1..n : sl[i] \in T /\ sl[i].min \in Int
  <2>1. n \in Nat /\ DOMAIN sl = 1..n /\ \A i \in 1..n : sl[i] \in T
    BY ElementOfSeq
  <2>. QED
    BY <2>1
<1>2. k \in 1..(n + 1) /\ (k <= n => k \in S) /\ \A i \in 1..n : i < k => i \notin S
  <2>1. S \in SUBSET (1..n)
    BY <1>1
  <2> HIDE DEF S, n
  <2>. QED
    BY <1>1, <2>1, FirstPlace
<1>3. t.min \in Int
  OBVIOUS
<1>4. \A i \in 1..n : i < k => sl[i].min <= t.min
  <2>1. \A i \in 1..n : i < k => ~ Below(t, sl[i])
    <3> HIDE DEF k
    <3>. QED
      BY <1>1, <1>2
  <2> HIDE DEF k
  <2>. QED
    BY <1>1, <1>3, <2>1 DEF Below
<1>5. \A i \in 1..n : k <= i => t.min <= sl[i].min
  <2>1. k <= n => t.min <= sl[k].min
    <3>1. k <= n => Below(t, sl[k])
      <4> HIDE DEF k
      <4>. QED
        BY <1>1, <1>2
    <3> HIDE DEF k
    <3>. QED
      BY <1>1, <1>2, <1>3, <3>1 DEF Below
  <2> HIDE DEF k
  <2>2. ASSUME NEW i \in 1..n, k <= i PROVE t.min <= sl[i].min
    <3>1. k \in 1..n /\ sl[k].min <= sl[i].min
      BY <1>1, <1>2, <2>2 DEF Sorted
    <3>. QED
      BY <1>1, <1>3, <2>1, <3>1
  <2>. QED
    BY <2>2
<1> HIDE DEF k
<1>6. /\ added \in Seq(T) /\ Len(added) = n + 1
      /\ \A i \in 1..(n + 1) : added[i] = IF i < k THEN sl[i] ELSE IF i = k THEN t
                                          ELSE sl[i - 1]
  <2>1. /\ SubSeq(sl, 1, k - 1) \in Seq(T) /\ Len(SubSeq(sl, 1, k - 1)) = k - 1
        /\ \A i \in 1..(k - 1) : SubSeq(sl, 1, k - 1)[i] = sl[i]
    BY <1>1, <1>2
  <2>2. /\ SubSeq(sl, k, n) \in Seq(T) /\ Len(SubSeq(sl, k, n)) = n + 1 - k
        /\ \A i \in 1..(n + 1 - k) : SubSeq(sl, k, n)[i] = sl[k + i - 1]
    BY <1>1, <1>2
  <2> DEFINE a == SubSeq(sl, 1, k - 1)
             b == SubSeq(sl, k, n)
  <2>3. added = a \o <<t>> \o b
    BY DEF InsertAt
  <2>4. /\ a \in Seq(T) /\ Len(a) = k - 1 /\ (\A i \in 1..(k - 1) : a[i] = sl[i])
        /\ b \in Seq(T) /\ Len(b) = n + 1 - k /\ (\A i \in 1..(n + 1 - k) : b[i] = sl[k + i - 1])
    BY <2>1, <2>2
  <2> DEFINE u == <<t>>
             c == a \o u
  <2> HIDE DEF a, b, added, n
  <2>5. c \in Seq(T) /\ Len(c) = k /\ \A i \in 1..k : c[i] = IF i < k THEN sl[i] ELSE t
    <3>1. u \in Seq(T) /\ Len(u) = 1 /\ u[1] = t
      OBVIOUS
    <3> HIDE DEF u
    <3>2. /\ c \in Seq(T) /\ Len(c) = Len(a) + Len(u)
          /\ \A i \in 1..(Len(a) + Len(u)) : c[i] = IF i <= Len(a) THEN a[i] ELSE u[i - Len(a)]
      BY <2>4, <3>1, ConcatProperties
    <3> HIDE DEF c
    <3>3. Len(a) + Len(u) = k /\ Len(a) = k - 1
      BY <1>2, <2>4, <3>1
    <3>4. ASSUME NEW i \in 1..k PROVE c[i] = IF i < k THEN sl[i] ELSE t
      <4>1. CASE i < k
        <5>1. i \in 1..(k - 1)
          BY <1>2, <4>1
        <5>. QED
          BY <2>4, <3>2, <3>3, <4>1, <5>1
      <4>2. CASE ~ (i < k)
        <5>1. i = k /\ ~ (i <= k - 1) /\ i - (k - 1) = 1
          BY <1>2, <4>2
        <5>2. c[i] = u[i - (k - 1)]
          BY <3>2, <3>3, <5>1
        <5>. QED
          BY <3>1, <4>2, <5>1, <5>2
      <4>. QED
        BY <4>1, <4>2
    <3>. QED
      BY <3>2, <3>3, <3>4
  <2> HIDE DEF c
  <2>6. /\ added = c \o b
        /\ added \in Seq(T) /\ Len(added) = k + (n + 1 - k)
        /\ \A i \in 1..(k + (n + 1 - k)) : added[i] = IF i <= k THEN c[i] ELSE b[i - k]
    <3>1. added = c \o b
      BY <2>3 DEF c, u
    <3>2. /\ added \in Seq(T) /\ Len(added) = Len(c) + Len(b)
          /\ \A i \in 1..(Len(c) + Len(b)) : added[i] = IF i <= Len(c) THEN c[i] ELSE b[i - Len(c)]
      BY <2>4, <2>5, <3>1, ConcatProperties
    <3>3. Len(c) = k /\ Len(b) = n + 1 - k
      BY <2>4, <2>5
    <3>. QED
      BY <3>1, <3>2, <3>3
  <2>7. k + (n + 1 - k) = n + 1
    BY <1>1, <1>2
  <2>8. ASSUME NEW i \in 1..(n + 1)
        PROVE  added[i] = IF i < k THEN sl[i] ELSE IF i = k THEN t ELSE sl[i - 1]
    <3>1. CASE i <= k
      BY <1>2, <2>5, <2>6, <2>7, <3>1
    <3>2. CASE i > k
      <4>1. i - k \in 1..(n + 1 - k) /\ k + (i - k) - 1 = i - 1
        BY <1>1, <1>2, <3>2
      <4>2. added[i] = b[i - k] /\ b[i - k] = sl[k + (i - k) - 1]
        BY <1>2, <2>4, <2>6, <2>7, <3>2, <4>1
      <4>. QED
        BY <1>2, <3>2, <4>1, <4>2
    <3>. QED
      BY <1>2, <3>1, <3>2
  <2>. QED
    BY <2>6, <2>7, <2>8
<1> HIDE DEF added
<1>7. Sorted(added)
  <2> SUFFICES ASSUME NEW i \in 1..(n + 1), NEW j \in 1..(n + 1), i < j
               PROVE  added[i].min <= added[j].min
    BY <1>6 DEF Sorted
  <2> HIDE DEF n
  <2>1. CASE j < k
    BY <1>1, <1>2, <1>6, <2>1 DEF Sorted, n
  <2>2. CASE j = k
    BY <1>1, <1>2, <1>4, <1>6, <2>2
  <2>3. CASE j > k /\ i = k
    BY <1>1, <1>2, <1>5, <1>6, <2>3
  <2>4. CASE j > k /\ i < k
    <3>1. sl[i].min <= t.min /\ t.min <= sl[j - 1].min /\ j - 1 \in 1..n
      BY <1>1, <1>2, <1>4, <1>5, <2>4
    <3>. QED
      BY <1>1, <1>2, <1>3, <1>6, <2>4, <3>1
  <2>5. CASE j > k /\ i > k
    <3>1. i - 1 \in 1..n /\ j - 1 \in 1..n /\ i - 1 < j - 1
      BY <1>1, <1>2, <2>5
    <3>2. sl[i - 1].min <= sl[j - 1].min
      BY <3>1 DEF Sorted, n
    <3>. QED
      BY <1>2, <1>6, <2>5, <3>2
  <2>. QED
    BY <1>1, <1>2, <2>1, <2>2, <2>3, <2>4, <2>5
<1>8. StoreSize \in Nat
  BY AsyncAssumption
<1>9. StoreAdd(sl, t) = IF Len(sl) = StoreSize /\ Below(t, sl[1]) THEN sl
                        ELSE IF Len(added) > StoreSize THEN Tail(added) ELSE added
  BY DEF StoreAdd, added, k, S
<1>10. CASE Len(sl) = StoreSize /\ Below(t, sl[1])
  BY <1>9, <1>10
<1>11. CASE ~ (Len(sl) = StoreSize /\ Below(t, sl[1])) /\ Len(added) > StoreSize
  <2>1. /\ Tail(added) \in Seq(T) /\ Len(Tail(added)) = n
        /\ \A i \in 1..n : Tail(added)[i] = added[i + 1]
    BY <1>1, <1>6
  <2>2. Sorted(Tail(added))
    BY <1>1, <1>6, <1>7, <2>1 DEF Sorted
  <2>. QED
    BY <1>9, <1>11, <2>1, <2>2
<1>12. CASE ~ (Len(sl) = StoreSize /\ Below(t, sl[1])) /\ ~ (Len(added) > StoreSize)
  BY <1>1, <1>6, <1>7, <1>8, <1>9, <1>12
<1>. QED
  BY <1>10, <1>11, <1>12

(***************************************************************************)
(* remove_below of a sorted list removes exactly what is stale.            *)
(***************************************************************************)
LEMMA RemoveBelowKeeps ==
    ASSUME aver \in Int, NEW T, \A t \in T : t.min \in Int,
           NEW sl \in Seq(T), Sorted(sl)
    PROVE  LET kept == RemoveBelow(sl)
           IN  /\ kept \in Seq(T) /\ Len(kept) <= Len(sl) /\ Sorted(kept)
               /\ \A i \in 1..Len(kept) :
                     Fresh(kept[i]) /\ kept[i] = sl[Len(sl) - Len(kept) + i]
               /\ \A i \in 1..(Len(sl) - Len(kept)) : ~ Fresh(sl[i])
<1> DEFINE n == Len(sl)
           S == {i \in DOMAIN sl : Fresh(sl[i])}
           k == Min(S \cup {n + 1})
           kept == SubSeq(sl, k, n)
<1>1. n \in Nat /\ DOMAIN sl = 1..n /\ \A i \in 1..n : sl[i] \in T /\ sl[i].min \in Int
  <2>1. n \in Nat /\ DOMAIN sl = 1..n /\ \A i \in 1..n : sl[i] \in T
    BY ElementOfSeq
  <2>. QED
    BY <2>1
<1>2. k \in 1..(n + 1) /\ (k <= n => k \in S) /\ \A i \in 1..n : i < k => i \notin S
  <2>1. S \in SUBSET (1..n)
    BY <1>1
  <2> HIDE DEF S, n
  <2>. QED
    BY <1>1, <2>1, FirstPlace
<1>3. k <= n => Fresh(sl[k])
  <2> HIDE DEF k
  <2>. QED
    BY <1>2
<1>4. \A i \in 1..n : i < k => ~ Fresh(sl[i])
  <2> HIDE DEF k
  <2>. QED
    BY <1>1, <1>2
<1>5. RemoveBelow(sl) = kept
  BY DEF RemoveBelow
<1> HIDE DEF k
<1>6. /\ kept \in Seq(T) /\ Len(kept) = n + 1 - k
      /\ \A i \in 1..(n + 1 - k) : kept[i] = sl[k + i - 1]
  BY <1>1, <1>2
<1> HIDE DEF kept
<1>7. Sorted(kept)
  <2> SUFFICES ASSUME NEW i \in 1..(n + 1 - k), NEW j \in 1..(n + 1 - k), i < j
               PROVE  kept[i].min <= kept[j].min
    BY <1>6 DEF Sorted
  <2>1. k + i - 1 \in 1..n /\ k + j - 1 \in 1..n /\ k + i - 1 < k + j - 1
    BY <1>1, <1>2
  <2>2. sl[k + i - 1].min <= sl[k + j - 1].min
    BY <2>1 DEF Sorted
  <2>. QED
    BY <1>6, <2>2
<1>8. ASSUME NEW i \in 1..Len(kept) PROVE Fresh(kept[i])
  <2>1. k \in 1..n /\ k + i - 1 \in 1..n /\ kept[i] = sl[k + i - 1]
    BY <1>1, <1>2, <1>6
  <2>2. i = 1 \/ k < k + i - 1
    BY <1>1, <1>2, <1>6
  <2>3. sl[k].min <= sl[k + i - 1].min
    BY <1>1, <2>1, <2>2 DEF Sorted
  <2>. QED
    BY <1>1, <1>3, <2>1, <2>3, AsyncAssumption DEF Fresh
<1>9. Len(kept) <= n
  BY <1>1, <1>2, <1>6
<1>10. \A i \in 1..Len(kept) : Fresh(kept[i])
  BY <1>8
<1>11. n - Len(kept) = k - 1
  BY <1>1, <1>2, <1>6
<1>12. \A i \in 1..Len(kept) : kept[i] = sl[n - Len(kept) + i]
  <2>1. \A i \in 1..Len(kept) : k + i - 1 = (k - 1) + i
    BY <1>2
  <2>. QED
    BY <1>6, <1>11, <2>1
<1>13. \A i \in 1..(n - Len(kept)) : ~ Fresh(sl[i])
  <2>1. \A i \in 1..(k - 1) : i \in 1..n /\ i < k
    BY <1>1, <1>2
  <2>. QED
    BY <1>4, <1>11, <2>1
<1>. QED
  BY <1>5, <1>6, <1>7, <1>9, <1>10, <1>12, <1>13

LEMMA Induction ==
    ASSUME NEW S, 0 \in S, \A n \in Nat : n \in S => n + 1 \in S
    PROVE  Nat \subseteq S
<1> SUFFICES ASSUME ~(Nat \subseteq S) PROVE FALSE
  OBVIOUS
<1> DEFINE T == Nat \ S
           R == OpToRel(<, Nat)
<1>1. IsWellFoundedOn(R, Nat)
  BY NatLessThanWellFounded
<1>2. \A i, j \in Nat : i < j => <<i, j>> \in R
  BY DEF OpToRel
<1> HIDE DEF R
<1>3. T \subseteq Nat /\ T # {}
  OBVIOUS
<1>4. PICK n \in T : \A m \in T : ~ (<<m, n>> \in R)
  <2> HIDE DEF T
  <2>. QED
    BY <1>1, <1>3, WFMin
<1>5. n # 0 /\ n - 1 \in Nat /\ n - 1 < n
  BY <1>4
<1>6. n - 1 \notin T
  BY <1>2, <1>4, <1>5
<1>. QED
  BY <1>4, <1>5, <1>6


(***************************************************************************)
(* Draining the queue into the store keeps order and bound, whatever was   *)
(* received: the recursion has a solution, and each of its values is such  *)
(* a store.                                                                *)
(***************************************************************************)
LEMMA ReceivedKeeps ==
    ASSUME aver \in Int, NEW T, \A t \in T : t.min \in Int,
           recvq \in Seq(T), store \in Seq(T), Len(store) <= StoreSize, Sorted(store)
    PROVE  Received \in Seq(T) /\ Len(Received) <= StoreSize /\ Sorted(Received)
<1> DEFINE Good == {s \in Seq(T) : Len(s) <= StoreSize /\ Sorted(s)}
           N == Len(recvq)
           F(f, n) == IF n = 0 THEN store
                      ELSE IF Fresh(recvq[n]) THEN StoreAdd(f[n - 1], recvq[n])
                      ELSE f[n - 1]
           G(f) == [n \in 0..N |-> F(f, n)]
           added == CHOOSE f : f = G(f)
<1>1. N \in Nat /\ \A n \in 1..N : recvq[n] \in T
  BY ElementOfSeq
<1>2. store \in Good
  OBVIOUS
<1>3. ASSUME NEW s \in Good, NEW t \in T PROVE StoreAdd(s, t) \in Good
  BY StoreAddKeeps
<1>4. ASSUME NEW f, NEW n \in Nat, n \in 0..N, n # 0 => f[n - 1] \in Good
      PROVE  F(f, n) \in Good
  <2> HIDE DEF Good
  <2>1. CASE n = 0
    BY <1>2, <2>1
  <2>2. CASE n # 0
    <3>1. n \in 1..N /\ f[n - 1] \in Good /\ recvq[n] \in T
      BY <1>1, <1>4, <2>2
    <3>2. StoreAdd(f[n - 1], recvq[n]) \in Good
      BY <1>3, <3>1
    <3>. QED
      BY <2>2, <3>1, <3>2
  <2>. QED
    BY <2>1, <2>2
<1> HIDE DEF Good
<1> DEFINE Upto(m, f) == \A n \in 0..m : f[n] = F(f, n)
           Defined(m) == \E f : Upto(m, f)
           M == {m \in Nat : m <= N => Defined(m)}
<1>5. 0 \in M
  <2>1. Upto(0, [n \in 0..0 |-> store])
    OBVIOUS
  <2>2. Defined(0)
    <3> HIDE DEF Upto
    <3>. QED
      BY <2>1
  <2> HIDE DEF Defined
  <2>. QED
    BY <2>2
<1>6. ASSUME NEW m \in Nat, m \in M PROVE m + 1 \in M
  <2> SUFFICES ASSUME m + 1 <= N PROVE Defined(m + 1)
    <3> HIDE DEF Defined
    <3>. QED
      OBVIOUS
  <2>1. Defined(m)
    <3> HIDE DEF Defined
    <3>. QED
      BY <1>1, <1>6
  <2>2. PICK f : Upto(m, f)
    <3> HIDE DEF Upto
    <3>. QED
      BY <2>1
  <2> DEFINE g == [n \in 0..(m + 1) |-> IF n <= m THEN f[n] ELSE F(f, n)]
  <2>3. ASSUME NEW n \in 0..(m + 1) PROVE g[n] = F(g, n)
    <3>1. n # 0 => g[n - 1] = f[n - 1]
      OBVIOUS
    <3>2. F(g, n) = F(f, n)
      BY <3>1
    <3>3. n <= m => f[n] = F(f, n)
      <4> HIDE DEF F
      <4>. QED
        BY <2>2
    <3>4. g[n] = IF n <= m THEN f[n] ELSE F(f, n)
      OBVIOUS
    <3> HIDE DEF F, g
    <3>. QED
      BY <3>2, <3>3, <3>4
  <2>4. Upto(m + 1, g)
    <3> HIDE DEF F, g
    <3>. QED
      BY <2>3
  <2> HIDE DEF Upto, g
  <2>. QED
    BY <2>4
<1>7. PICK f : Upto(N, f)
  <2>1. Defined(N)
    <3>1. N \in M
      <4> HIDE DEF M
      <4>. QED
        BY <1>1, <1>5, <1>6, Induction
    <3> HIDE DEF Defined
    <3>. QED
      BY <1>1, <3>1
  <2> HIDE DEF Upto
  <2>. QED
    BY <2>1
<1>8. added = G(added)
  <2> DEFINE h == [n \in 0..N |-> f[n]]
  <2>1. h = G(h)
    <3>1. ASSUME NEW n \in 0..N PROVE h[n] = F(h, n)
      <4>1. n # 0 => h[n - 1] = f[n - 1]
        BY <1>1
      <4>2. F(h, n) = F(f, n)
        BY <4>1
      <4>3. h[n] = f[n]
        OBVIOUS
      <4> HIDE DEF h, F
      <4>. QED
        BY <1>7, <4>2, <4>3
    <3> HIDE DEF F
    <3>2. h = [n \in 0..N |-> h[n]]
      OBVIOUS
    <3> HIDE DEF h
    <3>. QED
      BY <3>1, <3>2
  <2> HIDE DEF h, G
  <2>. QED
    BY <2>1
<1>9. \A n \in 0..N : added[n] = F(added, n)
  <2> HIDE DEF added, F
  <2>. QED
    BY <1>8
<1>10. Received = added[N]
  BY Zenon DEF Received
<1> HIDE DEF added
<1> DEFINE K == {n \in Nat : n \in 0..N => added[n] \in Good}
<1>11. 0 \in K
  BY <1>1, <1>2, <1>9
<1>12. ASSUME NEW n \in Nat, n \in K PROVE n + 1 \in K
  <2> SUFFICES ASSUME n + 1 \in 0..N PROVE added[n + 1] \in Good
    OBVIOUS
  <2>1. added[n] \in Good /\ (n + 1) - 1 = n
    BY <1>1, <1>12
  <2> HIDE DEF F
  <2>2. F(added, n + 1) \in Good
    BY <1>4, <2>1
  <2>. QED
    BY <1>9, <2>2
<1>13. N \in K
  <2> HIDE DEF K
  <2>. QED
    BY <1>1, <1>11, <1>12, Induction
<1>14. Received \in Good
  BY <1>1, <1>10, <1>13
<1>. QED
  BY <1>14 DEF Good

\* The types of the data path; StoreInv needs no more of it.
DataTypeOK ==
    /\ aver \in Nat /\ gstep \in Nat /\ weights \in [Params -> Nat]
    /\ link \in [Workers -> Seq(Stamped)]
    /\ version \in [Workers -> Nat]
    /\ act \in [Workers -> Seq(Stamps)]
    /\ env \in [Workers -> Loops]
    /\ \A w \in Workers : Len(env[w].vers) = env[w].chunk
    /\ actorChan \in Seq(Recorded) /\ recvq \in Seq(Recorded) /\ store \in Seq(Recorded)

LEMMA RecordedMin == \A t \in Recorded : t.min \in Int
  BY TrajectoryMin DEF Recorded

(***************************************************************************)
(* The initial states.                                                     *)
(***************************************************************************)
LEMMA InitStore == Init => DataTypeOK /\ StoreInv
<1> SUFFICES ASSUME Init PROVE DataTypeOK /\ StoreInv
  OBVIOUS
<1>1. <<>> \in Seq(Stamped) /\ <<>> \in Seq(Stamps) /\ <<>> \in Seq(Recorded)
      /\ Len(<<>>) = 0
  OBVIOUS
<1>2. 0 \in Nat /\ 0 <= StoreSize
  BY AsyncAssumption
<1>3. [at |-> "idle", chunk |-> 0, vers |-> <<>>] \in Loops
  BY <1>1 DEF Loops
<1>4. Sorted(<<>>)
  BY DEF Sorted
<1>5. DataTypeOK
  BY <1>1, <1>2, <1>3 DEF Init, DataTypeOK
<1>6. StoreInv
  BY <1>1, <1>2, <1>4 DEF Init, StoreInv
<1>. QED
  BY <1>5, <1>6

(***************************************************************************)
(* What either syncer sends carries the actor's version.                   *)
(***************************************************************************)
LEMMA MessageStamped ==
    ASSUME DataTypeOK, NEW ps \in SUBSET Params, NEW last \in BOOLEAN
    PROVE  Message(ps, last) \in Stamped
<1> DEFINE f == [p \in ps |-> weights[p]]
<1>1. f \in [ps -> Nat]
  BY DEF DataTypeOK
<1> HIDE DEF f
<1>2. f \in UNION {[qs -> Nat] : qs \in SUBSET Params}
  BY <1>1
<1>3. Message(ps, last) = [ver |-> aver, pars |-> f, last |-> last]
  BY DEF Message, f
<1>. QED
  BY <1>2, <1>3 DEF Stamped, DataTypeOK

LEMMA TransferStamped ==
    ASSUME DataTypeOK
    PROVE  Transfer \in Seq(Stamped)
<1>1. Patch \in Seq(Stamped)
  <2> DEFINE x == Message({p \in Params : weights[p] # snap[p]}, TRUE)
  <2>1. x \in Stamped
    BY MessageStamped
  <2> HIDE DEF x
  <2>2. <<x>> \in Seq(Stamped)
    BY <2>1
  <2>. QED
    BY <2>2 DEF Patch, x
<1>2. Buckets \in Seq(Stamped)
  <2> DEFINE ps == SetToSeq(Params)
             n == Cardinality(Params)
  <2>1. n \in Nat /\ ps \in [1..n -> Params]
    <3>1. n \in Nat /\ ExistsBijection(1..n, Params)
      BY AsyncAssumption, FS_CardinalityType
    <3>2. PICK f \in [1..n -> Params] : IsInjective(f)
      BY <3>1 DEF ExistsBijection, Bijection, Injection
    <3>. QED
      BY <3>1, <3>2 DEF SetToSeq
  <2> HIDE DEF ps, n
  <2>2. Len(ps) = n
    BY <2>1
  <2> DEFINE s == [i \in 1..n |-> Message({ps[i]}, i = n)]
  <2>3. \A i \in 1..n : Message({ps[i]}, i = n) \in Stamped
    <3>1. \A i \in 1..n : {ps[i]} \in SUBSET Params /\ (i = n) \in BOOLEAN
      BY <2>1
    <3>. QED
      BY <3>1, MessageStamped
  <2>4. s \in [1..n -> Stamped]
    BY <2>3
  <2> HIDE DEF s
  <2>5. s \in Seq(Stamped)
    BY <2>1, <2>4
  <2>6. Buckets = s
    BY <2>2 DEF Buckets, ps, s
  <2>. QED
    BY <2>5, <2>6
<1>. QED
  BY <1>1, <1>2 DEF Transfer

(***************************************************************************)
(* A step that leaves the store and the way to it alone.                   *)
(***************************************************************************)
LEMMA StoreStays ==
    ASSUME DataTypeOK, StoreInv,
           UNCHANGED <<mode, aver, gstep, weights, dataVars, link, version, act, env>>,
           pc' = "train" => pc = "train"
    PROVE  DataTypeOK' /\ StoreInv'
<1> USE DEF dataVars
<1>1. DataTypeOK'
  BY DEF DataTypeOK
<1>2. StoreInv'
  BY DEF StoreInv, Sorted, Fresh, EnoughOnPolicy, OnPolicy
<1>. QED
  BY <1>1, <1>2

(***************************************************************************)
(* The best first or the worst first: as much of it is on-policy.          *)
(***************************************************************************)
LEMMA OnPolicyOfReverse ==
    ASSUME NEW sl, Len(sl) \in Nat
    PROVE  EnoughOnPolicy(Reverse(sl)) <=> EnoughOnPolicy(sl)
<1> DEFINE n == Len(sl)
           r == Reverse(sl)
           S == OnPolicy(sl)
           T == OnPolicy(r)
           f == [c \in S |-> <<(n - c[1]) + 1, c[2]>>]
<1>1. Len(r) = n /\ \A i \in 1..n : r[i] = sl[(n - i) + 1]
  BY DEF Reverse
<1>2. \A i \in 1..n : (n - i) + 1 \in 1..n /\ (n - ((n - i) + 1)) + 1 = i
  OBVIOUS
<1> HIDE DEF n, r
<1>3. /\ S = {c \in (1..n) \X (1..NChunks) : sl[c[1]].vers[c[2]] = aver}
      /\ T = {c \in (1..n) \X (1..NChunks) : r[c[1]].vers[c[2]] = aver}
  BY <1>1 DEF OnPolicy, n
<1> HIDE DEF S, T
<1>4. f \in Bijection(S, T)
  <2>1. ASSUME NEW c \in S PROVE f[c] \in T
    <3>1. c[1] \in 1..n /\ c[2] \in 1..NChunks /\ sl[c[1]].vers[c[2]] = aver
      BY <1>3
    <3>2. r[(n - c[1]) + 1] = sl[c[1]] /\ (n - c[1]) + 1 \in 1..n
      BY <1>1, <1>2, <3>1
    <3>. QED
      BY <1>3, <3>1, <3>2
  <2>2. ASSUME NEW c \in S, NEW d \in S, f[c] = f[d] PROVE c = d
    <3>1. /\ c = <<c[1], c[2]>> /\ c[1] \in 1..n
          /\ d = <<d[1], d[2]>> /\ d[1] \in 1..n
      BY <1>3
    <3>2. (n - c[1]) + 1 = (n - d[1]) + 1 /\ c[2] = d[2]
      BY <2>2
    <3>3. c[1] = d[1]
      BY <1>2, <3>1, <3>2
    <3>. QED
      BY <3>1, <3>2, <3>3
  <2>3. ASSUME NEW t \in T PROVE \E c \in S : f[c] = t
    <3>1. /\ t = <<t[1], t[2]>> /\ t[1] \in 1..n /\ t[2] \in 1..NChunks
          /\ r[t[1]].vers[t[2]] = aver
      BY <1>3
    <3>2. (n - t[1]) + 1 \in 1..n /\ r[t[1]] = sl[(n - t[1]) + 1]
          /\ (n - ((n - t[1]) + 1)) + 1 = t[1]
      BY <1>1, <1>2, <3>1
    <3> DEFINE c == <<(n - t[1]) + 1, t[2]>>
    <3>3. c \in S
      BY <1>3, <3>1, <3>2
    <3>4. f[c] = <<(n - c[1]) + 1, c[2]>>
      BY <3>3
    <3>. QED
      BY <3>1, <3>2, <3>3, <3>4
  <2>4. f \in [S -> T]
    BY <2>1
  <2> HIDE DEF f
  <2>. QED
    BY <2>2, <2>3, <2>4 DEF Bijection, Injection, Surjection, IsInjective
<1>5. IsFiniteSet(S)
  <2>1. n \in Int /\ NChunks \in Int
    BY AsyncAssumption DEF n
  <2>2. IsFiniteSet(1..n) /\ IsFiniteSet(1..NChunks)
    BY <2>1, FS_Interval
  <2>3. IsFiniteSet((1..n) \X (1..NChunks))
    BY <2>2, FS_Product
  <2>. QED
    BY <1>3, <2>3, FS_Subset
<1>6. Cardinality(T) = Cardinality(S)
  BY <1>4, <1>5, FS_Bijection DEF ExistsBijection
<1>. QED
  BY <1>1, <1>6 DEF EnoughOnPolicy, S, T, n, r

(***************************************************************************)
(* One turn of the wait for the store: what is left of it is fresh, and a  *)
(* batch is cut when there is all of it and enough of it is on-policy.     *)
(***************************************************************************)
LEMMA ConstructStep ==
    ASSUME DataTypeOK, StoreInv, ConstructRolloutBatch
    PROVE  DataTypeOK' /\ StoreInv'
<1>1. aver \in Int /\ StoreSize \in Nat
  BY AsyncAssumption DEF DataTypeOK
<1>2. /\ Received \in Seq(Recorded) /\ Len(Received) <= StoreSize /\ Sorted(Received)
  BY <1>1, ReceivedKeeps, RecordedMin DEF DataTypeOK, StoreInv
<1> DEFINE new == RemoveBelow(Received)
<1>3. /\ new \in Seq(Recorded) /\ Len(new) <= Len(Received) /\ Sorted(new)
      /\ \A i \in 1..Len(new) : Fresh(new[i])
  <2> DEFINE r == Received
  <2>1. r \in Seq(Recorded) /\ Sorted(r)
    BY <1>2
  <2> HIDE DEF r
  <2>2. LET kept == RemoveBelow(r)
        IN  /\ kept \in Seq(Recorded) /\ Len(kept) <= Len(r) /\ Sorted(kept)
            /\ \A i \in 1..Len(kept) : Fresh(kept[i])
    BY <1>1, <2>1, RecordedMin, RemoveBelowKeeps
  <2>. QED
    BY <2>2 DEF r
<1>4. store' = new /\ recvq' = <<>>
  BY DEF ConstructRolloutBatch, Drained
<1> HIDE DEF new
<1>5. Len(new) \in Nat /\ Len(new) <= StoreSize /\ \A i \in 1..Len(new) : new[i] \in Recorded
  <2>1. Len(new) \in Nat /\ Len(Received) \in Nat
    BY <1>2, <1>3
  <2>2. \A i \in 1..Len(new) : new[i] \in Recorded
    BY <1>3, ElementOfSeq
  <2>. QED
    BY <1>1, <1>2, <1>3, <2>1, <2>2
<1>6. DataTypeOK'
  <2>1. <<>> \in Seq(Recorded)
    OBVIOUS
  <2>2. UNCHANGED <<aver, gstep, weights, link, version, act, env, actorChan>>
    BY DEF ConstructRolloutBatch, actorVars, syncVars, loopVars
  <2>. QED
    BY <1>3, <1>4, <2>1, <2>2 DEF DataTypeOK
<1>7. aver' = aver /\ mode' = mode
  BY DEF ConstructRolloutBatch, actorVars
<1>8. ASSUME pc' = "train"
      PROVE  /\ Len(batch') = StoreSize /\ EnoughOnPolicy(batch')
             /\ \A i \in 1..Len(batch') : Fresh(batch'[i]) /\ batch'[i].min \in Int
  <2>1. Len(new) >= StoreSize /\ EnoughOnPolicy(new) /\ batch' = Reverse(new)
    BY <1>4, <1>8 DEF ConstructRolloutBatch
  <2>2. Len(batch') = Len(new) /\ \A i \in 1..Len(new) : batch'[i] = new[(Len(new) - i) + 1]
    BY <1>5, <2>1 DEF Reverse
  <2>3. ASSUME NEW i \in 1..Len(new)
        PROVE  Fresh(batch'[i]) /\ batch'[i].min \in Int
    <3>1. (Len(new) - i) + 1 \in 1..Len(new)
      BY <1>5
    <3>. QED
      BY <1>3, <1>5, <2>2, <3>1, RecordedMin
  <2>4. Len(new) = StoreSize
    BY <1>1, <1>5, <2>1
  <2>5. EnoughOnPolicy(batch')
    BY <1>5, <2>1, OnPolicyOfReverse
  <2>. QED
    BY <2>2, <2>3, <2>4, <2>5
<1>9. StoreInv'
  <2>1. Len(store') <= StoreSize /\ Sorted(store)'
    BY <1>3, <1>4, <1>5 DEF Sorted
  <2>2. \A t : Fresh(t)' <=> Fresh(t)
    BY <1>7 DEF Fresh
  <2>3. \A sl : EnoughOnPolicy(sl)' <=> EnoughOnPolicy(sl)
    BY <1>7 DEF EnoughOnPolicy, OnPolicy
  <2>. QED
    BY <1>7, <1>8, <2>1 DEF StoreInv, Fresh, EnoughOnPolicy, OnPolicy
<1>. QED
  BY <1>6, <1>9

(***************************************************************************)
(* A step that leaves store, batch and the actor's version alone.          *)
(***************************************************************************)
LEMMA BatchStays ==
    ASSUME StoreInv, UNCHANGED <<mode, aver, store, batch>>, pc' = "train" => pc = "train"
    PROVE  StoreInv'
  BY DEF StoreInv, Sorted, Fresh, EnoughOnPolicy, OnPolicy

(***************************************************************************)
(* The batch is trained on before the actor's version moves on.            *)
(***************************************************************************)
LEMMA TrainStep ==
    ASSUME DataTypeOK, StoreInv, RunTraining \/ SetGlobalStep
    PROVE  DataTypeOK' /\ StoreInv'
<1>1. DataTypeOK'
  <2>1. CASE RunTraining
    <3>1. gstep' \in Nat /\ aver' = aver
      BY <2>1 DEF RunTraining, DataTypeOK
    <3>2. weights' \in [Params -> Nat]
      BY <2>1 DEF RunTraining, DataTypeOK
    <3>3. UNCHANGED <<link, version, act, env, actorChan, recvq, store>>
      BY <2>1 DEF RunTraining, syncVars, loopVars
    <3>. QED
      BY <3>1, <3>2, <3>3 DEF DataTypeOK
  <2>2. CASE SetGlobalStep
    <3>1. aver' \in Nat
      BY <2>2 DEF SetGlobalStep, DataTypeOK
    <3>2. UNCHANGED <<gstep, weights, link, version, act, env, actorChan, recvq, store>>
      BY <2>2 DEF SetGlobalStep, dataVars, syncVars, loopVars
    <3>. QED
      BY <3>1, <3>2 DEF DataTypeOK
  <2>. QED
    BY <2>1, <2>2
<1>2. pc' # "train" /\ store' = store
  BY DEF RunTraining, SetGlobalStep, dataVars
<1>3. StoreInv'
  BY <1>2 DEF StoreInv, Sorted
<1>. QED
  BY <1>1, <1>3

(***************************************************************************)
(* The steps that carry versions from the actor into trajectories keep     *)
(* them versions.                                                          *)
(***************************************************************************)
LEMMA TransferStep ==
    ASSUME DataTypeOK, StoreInv, SyncModelToRollout
    PROVE  DataTypeOK' /\ StoreInv'
<1>1. link' = [w \in Workers |-> link[w] \o Transfer]
  BY DEF SyncModelToRollout
<1>2. link' \in [Workers -> Seq(Stamped)]
  <2> DEFINE new == Transfer
  <2>1. new \in Seq(Stamped)
    BY TransferStamped
  <2> HIDE DEF new
  <2>2. \A w \in Workers : link[w] \o new \in Seq(Stamped)
    BY <2>1, ConcatProperties DEF DataTypeOK
  <2>3. link' = [w \in Workers |-> link[w] \o new]
    BY <1>1 DEF new
  <2>. QED
    BY <2>2, <2>3
<1>3. UNCHANGED <<mode, pc, aver, gstep, weights, version, act, env, dataVars>>
  BY DEF SyncModelToRollout, runnerVars, loopVars
<1>4. DataTypeOK'
  BY <1>2, <1>3 DEF DataTypeOK, dataVars
<1>. QED
  BY <1>3, <1>4, BatchStays DEF dataVars

LEMMA LoadStep ==
    ASSUME DataTypeOK, StoreInv, NEW w \in Workers, SyncModelFromActor(w)
    PROVE  DataTypeOK' /\ StoreInv'
<1> DEFINE l == link[w]
           m == Head(l)
<1>1. l \in Seq(Stamped) /\ l # <<>>
  BY DEF DataTypeOK, SyncModelFromActor
<1> HIDE DEF l
<1>2. m \in Stamped /\ Tail(l) \in Seq(Stamped)
  BY <1>1
<1>3. m.ver \in Nat
  BY <1>2 DEF Stamped
<1> HIDE DEF m
<1>4. /\ link' = [link EXCEPT ![w] = Tail(l)]
      /\ version' = [version EXCEPT ![w] = IF m.last THEN m.ver ELSE version[w]]
      /\ UNCHANGED <<mode, pc, aver, gstep, weights, act, env, dataVars>>
  BY DEF SyncModelFromActor, runnerVars, actorVars, loopVars, l, m
<1>5. DataTypeOK'
  BY <1>2, <1>3, <1>4 DEF DataTypeOK, dataVars
<1>. QED
  BY <1>4, <1>5, BatchStays DEF dataVars

LEMMA PredictDataStep ==
    ASSUME DataTypeOK, StoreInv, NEW w \in Workers, Predict(w)
    PROVE  DataTypeOK' /\ StoreInv'
<1>1. PICK v \in Stamps : act' = [act EXCEPT ![w] = Append(@, v)]
  <2>1. NoVersion \in Stamps /\ version[w] \in Stamps
    BY DEF Stamps, DataTypeOK
  <2>. QED
    BY <2>1 DEF Predict
<1>2. act' \in [Workers -> Seq(Stamps)]
  BY <1>1 DEF DataTypeOK
<1>3. UNCHANGED <<mode, pc, aver, gstep, weights, link, version, env, dataVars>>
  BY DEF Predict, runnerVars, actorVars
<1>4. DataTypeOK'
  BY <1>2, <1>3 DEF DataTypeOK, dataVars
<1>. QED
  BY <1>3, <1>4, BatchStays DEF dataVars

LEMMA EnvDataStep ==
    ASSUME DataTypeOK, StoreInv, NEW w \in Workers, EnvNext(w)
    PROVE  DataTypeOK' /\ StoreInv'
<1> DEFINE e == env[w]
<1>1. e \in Loops /\ Len(e.vers) = e.chunk
  BY DEF DataTypeOK
<1>2. e.vers \in Seq(Stamps) /\ e.chunk \in Nat
  BY <1>1 DEF Loops
<1> HIDE DEF e
<1>3. CASE EnvResumes(w) \/ StopEnv(w)
  <2>1. PICK at \in {"recv", "stopped"} : env' = [env EXCEPT ![w] = [e EXCEPT !.at = at]]
    BY <1>3 DEF EnvResumes, StopEnv, e
  <2>2. [e EXCEPT !.at = at] \in Loops /\ [e EXCEPT !.at = at].vers = e.vers
        /\ [e EXCEPT !.at = at].chunk = e.chunk
    BY <1>1 DEF Loops
  <2>3. env' \in [Workers -> Loops] /\ \A u \in Workers : Len(env'[u].vers) = env'[u].chunk
    BY <1>1, <2>1, <2>2 DEF DataTypeOK
  <2>4. UNCHANGED <<mode, pc, aver, gstep, weights, link, version, act, dataVars>>
    BY <1>3 DEF EnvResumes, StopEnv, runnerVars, actorVars, syncVars
  <2>5. DataTypeOK'
    BY <2>3, <2>4 DEF DataTypeOK, dataVars
  <2>. QED
    BY <2>4, <2>5, BatchStays DEF dataVars
<1>4. ASSUME act[w] # <<>>
      PROVE  Head(act[w]) \in Stamps /\ Tail(act[w]) \in Seq(Stamps)
  <2>1. act[w] \in Seq(Stamps)
    BY DEF DataTypeOK
  <2>. QED
    BY <1>4, <2>1
<1>5. CASE EnvStep(w)
  <2> DEFINE h == Head(act[w])
  <2>1. h \in Stamps /\ Tail(act[w]) \in Seq(Stamps)
    BY <1>4, <1>5 DEF EnvStep
  <2>2. act' = [act EXCEPT ![w] = Tail(act[w])]
    BY <1>5 DEF EnvStep
  <2>3. PICK at \in {"recv", "yield"} :
           env' = [env EXCEPT ![w] = [at |-> at, chunk |-> e.chunk + 1,
                                      vers |-> Append(e.vers, h)]]
    BY <1>5 DEF EnvStep, e
  <2> HIDE DEF h
  <2>4. Append(e.vers, h) \in Seq(Stamps) /\ Len(Append(e.vers, h)) = e.chunk + 1
    BY <1>1, <1>2, <2>1
  <2> DEFINE f == [at |-> at, chunk |-> e.chunk + 1, vers |-> Append(e.vers, h)]
  <2>5. f \in Loops /\ Len(f.vers) = f.chunk
    BY <1>2, <2>4 DEF Loops
  <2>6. env' = [env EXCEPT ![w] = f]
    BY <2>3
  <2> HIDE DEF f
  <2>7. env' \in [Workers -> Loops] /\ \A u \in Workers : Len(env'[u].vers) = env'[u].chunk
    BY <2>5, <2>6 DEF DataTypeOK
  <2>8. act' \in [Workers -> Seq(Stamps)]
    BY <2>1, <2>2 DEF DataTypeOK
  <2>9. UNCHANGED <<mode, pc, aver, gstep, weights, link, version, dataVars>>
    BY <1>5 DEF EnvStep, runnerVars, actorVars, syncVars
  <2>10. DataTypeOK'
    BY <2>7, <2>8, <2>9 DEF DataTypeOK, dataVars
  <2>. QED
    BY <2>9, <2>10, BatchStays DEF dataVars
<1>6. CASE EnvFinish(w)
  <2>1. Tail(act[w]) \in Seq(Stamps) /\ act' = [act EXCEPT ![w] = Tail(act[w])]
    BY <1>4, <1>6 DEF EnvFinish
  <2> DEFINE f == [at |-> "yield", chunk |-> 0, vers |-> <<>>]
             t == Trajectory(e.vers)
  <2>2. f \in Loops /\ Len(f.vers) = f.chunk
    BY DEF Loops
  <2>3. env' = [env EXCEPT ![w] = f] /\ actorChan' = Append(actorChan, t)
    BY <1>6 DEF EnvFinish, e
  <2>4. t \in Recorded
    <3>1. e.chunk = NChunks /\ NChunks # 0
      BY <1>6, AsyncAssumption DEF EnvFinish, e
    <3>2. e.vers # <<>>
      BY <1>1, <3>1
    <3>. QED
      BY <1>2, <3>2, Zenon DEF Recorded
  <2> HIDE DEF f, t
  <2>5. env' \in [Workers -> Loops] /\ \A u \in Workers : Len(env'[u].vers) = env'[u].chunk
    BY <2>2, <2>3 DEF DataTypeOK
  <2>6. act' \in [Workers -> Seq(Stamps)]
    BY <2>1 DEF DataTypeOK
  <2>7. actorChan' \in Seq(Recorded)
    BY <2>3, <2>4 DEF DataTypeOK
  <2>8. UNCHANGED <<mode, pc, aver, gstep, weights, link, version, recvq, store, batch>>
    BY <1>6 DEF EnvFinish, runnerVars, actorVars, syncVars
  <2>9. DataTypeOK'
    BY <2>5, <2>6, <2>7, <2>8 DEF DataTypeOK
  <2>. QED
    BY <2>8, <2>9, BatchStays
<1>. QED
  BY <1>3, <1>5, <1>6 DEF EnvNext

LEMMA ReceiveStep ==
    ASSUME DataTypeOK, StoreInv, RecvRolloutTrajectory
    PROVE  DataTypeOK' /\ StoreInv'
<1> DEFINE t == Head(actorChan)
<1>1. t \in Recorded /\ Tail(actorChan) \in Seq(Recorded)
  BY DEF RecvRolloutTrajectory, DataTypeOK
<1> HIDE DEF t
<1>2. recvq' \in {recvq, Append(recvq, t)} /\ actorChan' = Tail(actorChan)
  BY DEF RecvRolloutTrajectory, t
<1>3. recvq' \in Seq(Recorded)
  <2>1. recvq \in Seq(Recorded)
    BY DEF DataTypeOK
  <2>2. Append(recvq, t) \in Seq(Recorded)
    BY <1>1, <2>1
  <2>. QED
    BY <1>2, <2>1, <2>2
<1>4. UNCHANGED <<mode, pc, aver, gstep, weights, link, version, act, env, store, batch>>
  BY DEF RecvRolloutTrajectory, runnerVars, actorVars, syncVars, loopVars
<1>5. DataTypeOK'
  BY <1>1, <1>2, <1>3, <1>4 DEF DataTypeOK
<1>. QED
  BY <1>4, <1>5, BatchStays

LEMMA StartStep ==
    ASSUME DataTypeOK, StoreInv, RunnerStart
    PROVE  DataTypeOK' /\ StoreInv'
<1>1. env' = [w \in Workers |-> [env[w] EXCEPT !.at = "yield"]]
  BY DEF RunnerStart
<1>2. ASSUME NEW e \in Loops
      PROVE  /\ [e EXCEPT !.at = "yield"] \in Loops
             /\ [e EXCEPT !.at = "yield"].vers = e.vers
             /\ [e EXCEPT !.at = "yield"].chunk = e.chunk
  BY DEF Loops
<1>3. env' \in [Workers -> Loops] /\ \A w \in Workers : Len(env'[w].vers) = env'[w].chunk
  BY <1>1, <1>2 DEF DataTypeOK
<1>4. UNCHANGED <<mode, aver, gstep, weights, link, version, act, dataVars>> /\ pc' # "train"
  BY DEF RunnerStart, actorVars, syncVars
<1>5. DataTypeOK'
  BY <1>3, <1>4 DEF DataTypeOK, dataVars
<1>. QED
  BY <1>4, <1>5, BatchStays DEF dataVars

(***************************************************************************)
(* Every step keeps the invariant of the data path.                        *)
(***************************************************************************)
LEMMA NextStore == DataTypeOK /\ StoreInv /\ [Next]_vars => DataTypeOK' /\ StoreInv'
<1> SUFFICES ASSUME DataTypeOK, StoreInv, [Next]_vars
             PROVE  DataTypeOK' /\ StoreInv'
  OBVIOUS
<1>1. CASE \/ RunnerBoot \/ SyncBlocking \/ SyncLanded \/ SyncInBackground \/ SyncCoalesced
           \/ DrainPending \/ EnvsStopped \/ RunnerDone \/ SendDone \/ UNCHANGED vars
  <2>1. /\ UNCHANGED <<mode, aver, gstep, weights, dataVars, link, version, act, env>>
        /\ pc' = "train" => pc = "train"
    BY <1>1 DEF RunnerBoot, SyncBlocking, SyncLanded, SyncInBackground, SyncCoalesced,
       DrainPending, EnvsStopped, RunnerDone, SendDone, NextStep, vars, runnerVars,
       actorVars, syncVars, loopVars
  <2>. QED
    BY <2>1, StoreStays
<1>2. CASE RunnerStart
  BY <1>2, StartStep
<1>3. CASE ConstructRolloutBatch
  BY <1>3, ConstructStep
<1>4. CASE RunTraining \/ SetGlobalStep
  BY <1>4, TrainStep
<1>5. CASE SyncModelToRollout
  BY <1>5, TransferStep
<1>6. CASE RecvRolloutTrajectory
  BY <1>6, ReceiveStep
<1>7. ASSUME NEW w \in Workers,
             RequestActorSyncModel(w) \/ RequestResumes(w) \/ StopRollout(w)
      PROVE  DataTypeOK' /\ StoreInv'
  <2>1. UNCHANGED <<mode, pc, aver, gstep, weights, dataVars, link, version, act, env>>
    BY <1>7 DEF RequestActorSyncModel, RequestResumes, StopRollout, runnerVars,
       actorVars, syncVars, loopVars
  <2>. QED
    BY <2>1, StoreStays
<1>8. ASSUME NEW w \in Workers, RolloutNext(w) \/ EnvNext(w)
      PROVE  DataTypeOK' /\ StoreInv'
  BY <1>7, <1>8, LoadStep, PredictDataStep, EnvDataStep DEF RolloutNext
<1>. QED
  BY <1>1, <1>2, <1>3, <1>4, <1>5, <1>6, <1>8
     DEF Next, RunnerNext, ActorNext, Terminated

(***************************************************************************)
(* The actor trains on full batches only, whose trajectories were begun at *)
(* most Staleness versions before its own and whose share of on-policy     *)
(* steps is what the configuration asks for: with either syncer, blocking  *)
(* or in the background, for any workers, store size, chunks and steps,    *)
(* although trajectories are stamped, sent, received, stored and trained   *)
(* on under different versions.                                            *)
(***************************************************************************)
THEOREM TrainsOnFresh == Spec => []TrainedWithinStaleness
<1>1. Init => DataTypeOK /\ StoreInv
  BY InitStore
<1>2. DataTypeOK /\ StoreInv /\ [Next]_vars => (DataTypeOK /\ StoreInv)'
  BY NextStore
<1>3. DataTypeOK /\ StoreInv => TrainedWithinStaleness
  <2> SUFFICES ASSUME DataTypeOK, StoreInv, pc = "train", NEW i \in 1..Len(batch)
               PROVE  aver - batch[i].min <= Staleness
    BY Zenon DEF StoreInv, TrainedWithinStaleness
  <2>1. batch[i].min >= aver - Staleness /\ batch[i].min \in Int
    BY DEF StoreInv, Fresh
  <2>2. aver \in Int /\ Staleness \in Int
    BY AsyncAssumption DEF DataTypeOK
  <2>. QED
    BY <2>1, <2>2
<1>. QED
  BY <1>1, <1>2, <1>3, PTL DEF Spec
=============================================================================
