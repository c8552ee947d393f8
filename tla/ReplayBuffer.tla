---------------------------- MODULE ReplayBuffer ----------------------------
(***************************************************************************)
(* TrajectoryReplayBuffer of an off-policy actor: the index of trajectories, *)
(* the FIFO cache of their flattened data, the thread pool that writes them  *)
(* to disk (auto_save), checkpoints, the thread that samples ahead           *)
(* (enable_preload), and the distributed load of a collected data set.  The  *)
(* actor process may die and be started again.                               *)
(*                                                                         *)
(* A trajectory is the number of its arrival.  All have one length (so the   *)
(* cache never regrows its slots) and one model_weights_id (so an id names   *)
(* a file); a batch is one sample; the buffer is ready with one trajectory.  *)
(***************************************************************************)
EXTENDS Sharding, FiniteSets, SequencesExt

CONSTANTS Window,      \* sample_window_size
          Pool,        \* max_workers of _save_executor
          Prefetch,    \* prefetch_size
          World,       \* ranks that share a collected data set
          Setups,      \* the configurations explored
          MaxAdds,     \* bound: trajectories received
          MaxCrashes,  \* bound: deaths of the actor process
          MaxFails     \* bound: saves of one process that raise

ASSUME ReplayAssumption ==
    /\ {Window, Pool, Prefetch, World, MaxAdds} \subseteq Nat \ {0}
    /\ {MaxCrashes, MaxFails} \subseteq Nat
    /\ Setups \subseteq [autoSave : BOOLEAN, preload : BOOLEAN, cacheSize : Nat \ {0}]

VARIABLES
    setup,
    tpc,       \* where the actor's own thread is
    todo,      \* trajectories of the current add_trajectories still to add
    futs,      \* save_futures of the current add_trajectories
    made,      \* trajectories received so far
    crashes,
    \* the buffer
    ids,       \* _trajectory_id_list
    index,     \* index[id]: the trajectory _trajectory_index describes
    place,     \* _trajectory_file_path per id: "auto" for auto_save_path, or "loaded"
    loaded,    \* the trajectory files of the directory loaded from
    counter,   \* _trajectory_counter
    window,    \* _window_cache_ids
    current,   \* _window_cache_version = _index_version
    cache,     \* TrajectoryCache.cache: slot by id
    owner,     \* _slot_to_id
    buf,       \* buf[s]: the trajectory whose data slot s of _buffer holds
    lastSlot,  \* _last_slot
    batch,     \* the last batch handed to training: what was asked, what was got
    \* the save executor
    execq,     \* submitted tasks
    running,   \* tasks taken by its threads
    saved,     \* the ids whose save future is done
    failed,    \* the ids whose save raised, here or in the data set loaded
    \* the disk
    files,     \* files[id]: the trajectory in the file of id under auto_save_path
    meta,      \* trajectory_counter of metadata.json, None without file
    dindex,    \* trajectory_index of trajectory_index.json, in trajectory_id_list order
    ckpt,      \* the last checkpoint, NoCheckpoint before the first
    \* the sampling thread of PreloadReplayBufferDataset
    spc, pick, slot,
    preq       \* preload_queue

trainVars == <<tpc, todo, futs, made>>
indexVars == <<ids, index, place, loaded, counter>>
winVars   == <<window, current>>
cacheVars == <<cache, owner, buf, lastSlot>>
execVars  == <<execq, running, saved, failed>>
diskVars  == <<files, meta, dindex>>
thrVars   == <<spc, pick, slot, preq>>
vars == <<setup, trainVars, crashes, indexVars, winVars, cacheVars, batch,
          execVars, diskVars, ckpt, thrVars>>

None == -1
Torn == 0                        \* a file still being written
Empty == [x \in {} |-> 0]        \* a dict without keys
NoCheckpoint == [saved |-> FALSE]
NoBatch == [want |-> None, got |-> None]

MaxSize == IF setup.autoSave THEN setup.cacheSize ELSE Window

Put(f, k, v) == [x \in DOMAIN f \cup {k} |-> IF x = k THEN v ELSE f[x]]
Drop(f, k) == [x \in DOMAIN f \ {k} |-> f[x]]
LastN(s, n) == SubSeq(s, IF Len(s) > n THEN Len(s) - n + 1 ELSE 1, Len(s))
Pairs(s) == [i \in DOMAIN s |-> <<s[i], index[s[i]]>>]

\* The file of an id, and whether torch.load can read it.
File(id) == IF place[id] = "auto" THEN files ELSE loaded
Loadable(id) == id \in DOMAIN place /\ id \in DOMAIN File(id) /\ File(id)[id] # Torn

\* A freshly constructed buffer: index, cache, executor and sampling thread.
Fresh == /\ ids = <<>> /\ index = Empty /\ place = Empty /\ loaded = Empty /\ counter = 0
         /\ window = <<>> /\ current = FALSE
         /\ cache = Empty /\ owner = Empty /\ buf = Empty /\ lastSlot = 0
         /\ execq = <<>> /\ running = {} /\ saved = {} /\ failed = {} /\ batch = NoBatch
         /\ spc = "idle" /\ pick = None /\ slot = None /\ preq = <<>>

Init == /\ setup \in Setups
        /\ Fresh
        /\ tpc = "ready" /\ todo = 0 /\ futs = {} /\ made = 0 /\ crashes = 0
        /\ files = Empty /\ meta = None /\ dindex = <<>> /\ ckpt = NoCheckpoint

-----------------------------------------------------------------------------
(* add_trajectories, on the actor's thread.                                 *)

\* A batch of n trajectories has been drained from _recv_queue.
AddTrajectories(n) ==
    /\ tpc = "ready"
    /\ made + n <= MaxAdds
    /\ tpc' = "adding" /\ todo' = n /\ futs' = {}
    /\ UNCHANGED <<setup, made, crashes, indexVars, winVars, cacheVars, batch,
                   execVars, diskVars, ckpt, thrVars>>

\* The save of one trajectory is submitted and the trajectory indexed.
AddIndex ==
    /\ tpc = "adding" /\ todo > 0
    /\ tpc' = "indexed"
    /\ made' = made + 1
    /\ ids' = Append(ids, counter)
    /\ index' = Put(index, counter, made + 1)
    /\ counter' = counter + 1
    /\ current' = FALSE
    /\ IF setup.autoSave
       THEN /\ execq' = Append(execq, [kind |-> "save", ids |-> {counter}, data |-> made + 1])
            /\ place' = Put(place, counter, "auto")
            /\ futs' = futs \cup {counter}
       ELSE UNCHANGED <<execq, place, futs>>
    /\ UNCHANGED <<setup, todo, crashes, loaded, window, cacheVars, batch, running, saved,
                   failed, diskVars, ckpt, thrVars>>

\* Mutant: the evicted id stays in the cache.
PutMapKeepsEvicted ==
    LET id == Last(ids)
    IN /\ tpc = "indexed"
       /\ tpc' = "mapped"
       /\ IF id \in DOMAIN cache THEN UNCHANGED <<cache, owner, lastSlot>>
          ELSE /\ cache' = Put(cache, id, lastSlot)
               /\ owner' = Put(owner, lastSlot, id)
               /\ lastSlot' = (lastSlot + 1) % MaxSize
       /\ UNCHANGED <<setup, todo, futs, made, crashes, indexVars, winVars, buf, batch,
                      execVars, diskVars, ckpt, thrVars>>

\* TrajectoryCache.put, first half: the slot at _last_slot changes owner.
PutMap ==
    LET id == Last(ids)
        evict == IF lastSlot \in DOMAIN owner THEN owner[lastSlot] ELSE None
    IN /\ tpc = "indexed"
       /\ tpc' = "mapped"
       /\ IF id \in DOMAIN cache THEN UNCHANGED <<cache, owner, lastSlot>>
          ELSE /\ cache' = Put(Drop(cache, evict), id, lastSlot)
               /\ owner' = Put(owner, lastSlot, id)
               /\ lastSlot' = (lastSlot + 1) % MaxSize
       /\ UNCHANGED <<setup, todo, futs, made, crashes, indexVars, winVars, buf, batch,
                      execVars, diskVars, ckpt, thrVars>>

\* Second half: the data is copied into the slot.
PutData ==
    /\ tpc = "mapped"
    /\ tpc' = "adding"
    /\ todo' = todo - 1
    /\ buf' = Put(buf, cache[Last(ids)], index[Last(ids)])
    /\ UNCHANGED <<setup, futs, made, crashes, indexVars, winVars, cache, owner,
                   lastSlot, batch, execVars, diskVars, ckpt, thrVars>>

\* With auto_save the metadata flush is submitted behind the saves of its batch.
AddDone ==
    /\ tpc = "adding" /\ todo = 0
    /\ tpc' = "ready"
    /\ execq' = IF setup.autoSave
                THEN Append(execq, [kind |-> "flush", ids |-> futs, data |-> None])
                ELSE execq
    /\ UNCHANGED <<setup, todo, futs, made, crashes, indexVars, winVars, cacheVars,
                   batch, running, saved, failed, diskVars, ckpt, thrVars>>

-----------------------------------------------------------------------------
(* _save_executor: Pool threads that take the tasks in submission order.    *)

SaveId(t) == CHOOSE id \in t.ids : TRUE

\* Mutant: an executor that takes any submitted task.
ExecStartAnyOrder ==
    /\ execq # <<>> /\ Cardinality(running) < Pool
    /\ \E i \in DOMAIN execq : LET t == execq[i] IN
       /\ running' = running \cup {t}
       /\ files' = IF t.kind = "save" THEN Put(files, SaveId(t), Torn)
                   ELSE files
       /\ execq' = RemoveAt(execq, i)
    /\ UNCHANGED <<setup, trainVars, crashes, indexVars, winVars, cacheVars, batch, saved,
                   failed, meta, dindex, ckpt, thrVars>>

\* A thread takes the oldest task; a save opens its file, truncating it.
ExecStart ==
    /\ execq # <<>> /\ Cardinality(running) < Pool
    /\ LET t == Head(execq) IN
       /\ running' = running \cup {t}
       /\ files' = IF t.kind = "save" THEN Put(files, SaveId(t), Torn)
                   ELSE files
    /\ execq' = Tail(execq)
    /\ UNCHANGED <<setup, trainVars, crashes, indexVars, winVars, cacheVars, batch, saved,
                   failed, meta, dindex, ckpt, thrVars>>

\* _save_trajectory returns and its future is done.
SaveDone(t) ==
    /\ t.kind = "save"
    /\ files' = Put(files, SaveId(t), t.data)
    /\ saved' = saved \cup {SaveId(t)}
    /\ running' = running \ {t}
    /\ UNCHANGED <<setup, trainVars, crashes, indexVars, winVars, cacheVars, batch, execq,
                   failed, meta, dindex, ckpt, thrVars>>

\* ... or it raises half-way, which only its future tells.
SaveRaises(t) ==
    /\ t.kind = "save" /\ Cardinality(failed) < MaxFails
    /\ failed' = failed \cup {SaveId(t)}
    /\ running' = running \ {t}
    /\ UNCHANGED <<setup, trainVars, crashes, indexVars, winVars, cacheVars, batch, execq,
                   saved, diskVars, ckpt, thrVars>>

\* _flush_metadata: once the saves of its batch are done, metadata.json ...
FlushMeta(t) ==
    /\ t.kind = "flush" /\ t.ids \subseteq saved
    /\ meta' = counter
    /\ running' = (running \ {t}) \cup {[t EXCEPT !.kind = "flush_index"]}
    /\ UNCHANGED <<setup, trainVars, crashes, indexVars, winVars, cacheVars, batch, execq,
                   saved, failed, files, dindex, ckpt, thrVars>>

\* Mutant: the index as it was when the flush was submitted.
FlushIndexOfBatch(t) ==
    /\ t.kind = "flush_index"
    /\ dindex' = SelectSeq(Pairs(ids), LAMBDA e : e[1] <= Max(t.ids))
    /\ running' = running \ {t}
    /\ UNCHANGED <<setup, trainVars, crashes, indexVars, winVars, cacheVars, batch, execq,
                   saved, failed, files, meta, ckpt, thrVars>>

\* ... and then, under the lock again, trajectory_index.json.
FlushIndex(t) ==
    /\ t.kind = "flush_index"
    /\ dindex' = Pairs(ids)
    /\ running' = running \ {t}
    /\ UNCHANGED <<setup, trainVars, crashes, indexVars, winVars, cacheVars, batch, execq,
                   saved, failed, files, meta, ckpt, thrVars>>

\* It waits for the saves in turn and raises with the first one that did: neither
\* file is written, and nobody asks for its future.
FlushRaises(t) ==
    /\ t.kind = "flush"
    /\ \E id \in t.ids \cap failed : \A i \in t.ids : i < id => i \in saved
    /\ running' = running \ {t}
    /\ UNCHANGED <<setup, trainVars, crashes, indexVars, winVars, cacheVars, batch, execq,
                   saved, failed, diskVars, ckpt, thrVars>>

\* What a pool thread that has a task goes on with.
Work(t) == SaveDone(t) \/ FlushMeta(t) \/ FlushIndex(t) \/ FlushRaises(t)

Exec == ExecStart \/ \E t \in running : Work(t) \/ SaveRaises(t)

-----------------------------------------------------------------------------
(* sample_chunks.                                                           *)

\* The ids sampled from: recomputed when a trajectory has been added since.
WindowIds == IF current THEN window ELSE LastN(ids, Window)

\* ReplayBufferDataset.__iter__: training samples on the actor's thread.
Sample ==
    /\ tpc = "ready" /\ ~setup.preload /\ ids # <<>>
    /\ window' = WindowIds /\ current' = TRUE
    /\ \E id \in Range(WindowIds) :
          \/ /\ id \in DOMAIN cache
             /\ batch' = [want |-> index[id], got |-> buf[cache[id]]]
             /\ tpc' = tpc
          \/ /\ id \notin DOMAIN cache /\ Loadable(id)
             /\ batch' = [want |-> index[id], got |-> File(id)[id]]
             /\ tpc' = tpc
          \/ /\ id \notin DOMAIN cache /\ ~Loadable(id)
             /\ tpc' = "sample_raised"
             /\ batch' = batch
    /\ UNCHANGED <<setup, todo, futs, made, crashes, indexVars, cacheVars,
                   execVars, diskVars, ckpt, thrVars>>

\* PreloadReplayBufferDataset.__iter__: the first call starts the thread ...
WaitBatch ==
    /\ tpc = "ready" /\ setup.preload /\ ids # <<>>
    /\ tpc' = "waiting"
    /\ spc' = IF spc = "idle" THEN "loop" ELSE spc
    /\ UNCHANGED <<setup, todo, futs, made, crashes, indexVars, winVars, cacheVars, batch,
                   execVars, diskVars, ckpt, pick, slot, preq>>

\* ... and a batch is taken from preload_queue,
GetBatch ==
    /\ tpc = "waiting" /\ preq # <<>>
    /\ tpc' = "ready"
    /\ batch' = Head(preq) /\ preq' = Tail(preq)
    /\ UNCHANGED <<setup, todo, futs, made, crashes, indexVars, winVars, cacheVars,
                   execVars, diskVars, ckpt, spc, pick, slot>>

\* or get() times out and, no stop event being set, is called again.
PollEmpty == tpc = "waiting" /\ preq = <<>> /\ UNCHANGED vars

\* Mutant: the queue counts as full one batch early.
PreloadWindowKeepsRoom ==
    /\ spc = "loop" /\ Len(preq) < Prefetch - 1 /\ ids # <<>>
    /\ window' = WindowIds /\ current' = TRUE
    /\ pick' \in Range(WindowIds)
    /\ spc' = "mask"
    /\ UNCHANGED <<setup, trainVars, crashes, indexVars, cacheVars, batch, execVars,
                   diskVars, ckpt, slot, preq>>

\* _sample_buffer, on the sampling thread: a window under the index lock, ...
PreloadWindow ==
    /\ spc = "loop" /\ Len(preq) < Prefetch /\ ids # <<>>
    /\ window' = WindowIds /\ current' = TRUE
    /\ pick' \in Range(WindowIds)
    /\ spc' = "mask"
    /\ UNCHANGED <<setup, trainVars, crashes, indexVars, cacheVars, batch, execVars,
                   diskVars, ckpt, slot, preq>>

\* ... then, without any lock, the snapshot of the cached ids, ...
PreloadMask ==
    /\ spc = "mask"
    /\ spc' = IF pick \in DOMAIN cache THEN "slot" ELSE "load"
    /\ UNCHANGED <<setup, trainVars, crashes, indexVars, winVars, cacheVars, batch,
                   execVars, diskVars, ckpt, pick, slot, preq>>

\* ... cache.cache[tid], a KeyError (which ends the thread) if evicted since, ...
PreloadSlot ==
    /\ spc = "slot"
    /\ IF pick \in DOMAIN cache THEN slot' = cache[pick] /\ spc' = "gather"
       ELSE slot' = slot /\ spc' = "dead"
    /\ UNCHANGED <<setup, trainVars, crashes, indexVars, winVars, cacheVars, batch,
                   execVars, diskVars, ckpt, pick, preq>>

\* ... and the read of the slot, uninitialised when put has not filled it yet.
PreloadGather ==
    /\ spc = "gather"
    /\ preq' = Append(preq, [want |-> index[pick],
                             got |-> IF slot \in DOMAIN buf THEN buf[slot] ELSE None])
    /\ spc' = "loop"
    /\ UNCHANGED <<setup, trainVars, crashes, indexVars, winVars, cacheVars, batch,
                   execVars, diskVars, ckpt, pick, slot>>

\* A miss is read from disk; without a readable file the thread ends.
PreloadLoad ==
    /\ spc = "load"
    /\ IF Loadable(pick)
       THEN /\ preq' = Append(preq, [want |-> index[pick], got |-> File(pick)[pick]])
            /\ spc' = "loop"
       ELSE preq' = preq /\ spc' = "dead"
    /\ UNCHANGED <<setup, trainVars, crashes, indexVars, winVars, cacheVars, batch,
                   execVars, diskVars, ckpt, pick, slot>>

Preload == PreloadWindow \/ PreloadMask \/ PreloadSlot \/ PreloadGather \/ PreloadLoad

-----------------------------------------------------------------------------
(* Checkpoints, deaths and restarts.                                        *)

\* Mutant: without auto_save, too, only the window last sampled from.
CheckpointFilesOfWindow ==
    IF setup.autoSave THEN [id \in Range(window) \cap DOMAIN files |-> files[id]]
    ELSE [id \in DOMAIN cache \cap Range(window) |-> buf[cache[id]]]

\* The trajectory files of a checkpoint: with auto_save copies of the files of
\* the window last sampled from, otherwise what the cache holds.
CheckpointFiles ==
    IF setup.autoSave THEN [id \in Range(window) \cap DOMAIN files |-> files[id]]
    ELSE [id \in DOMAIN cache |-> buf[cache[id]]]

SaveCheckpoint ==
    /\ tpc = "ready"
    /\ ckpt' = [saved |-> TRUE, files |-> CheckpointFiles, list |-> Pairs(ids),
                counter |-> counter]
    /\ UNCHANGED <<setup, trainVars, crashes, indexVars, winVars, cacheVars, batch,
                   execVars, diskVars, thrVars>>

\* The process dies: only the disk is left.
Crash ==
    /\ crashes < MaxCrashes
    /\ tpc \notin {"down", "closed", "load_raised", "sample_raised"}
    /\ tpc' = "down" /\ crashes' = crashes + 1
    /\ todo' = 0 /\ futs' = {}
    /\ ids' = <<>> /\ index' = Empty /\ place' = Empty /\ loaded' = Empty /\ counter' = 0
    /\ window' = <<>> /\ current' = FALSE
    /\ cache' = Empty /\ owner' = Empty /\ buf' = Empty /\ lastSlot' = 0
    /\ execq' = <<>> /\ running' = {} /\ saved' = {} /\ batch' = NoBatch
    /\ failed' = IF setup.autoSave THEN {} ELSE failed
    /\ spc' = "idle" /\ pick' = None /\ slot' = None /\ preq' = <<>>
    /\ UNCHANGED <<setup, made, diskVars, ckpt>>

\* load_checkpoint of the list s of <<id, trajectory>>, with the next id c, from a
\* directory whose files are fs: the size most recent ids are cached in turn, and
\* a missing or unreadable file raises.
LoadCheckpoint(s, c, fs, size) ==
    LET list == [i \in DOMAIN s |-> s[i][1]]
        recent == LastN(list, size)
        at == [id \in Range(recent) |-> (CHOOSE i \in DOMAIN recent : recent[i] = id) - 1]
    IN /\ ids' = list
       /\ index' = [id \in Range(list) |-> (CHOOSE e \in Range(s) : e[1] = id)[2]]
       /\ counter' = c
       /\ place' = [id \in Range(list) |-> "loaded"] /\ loaded' = fs
       /\ IF \A id \in Range(recent) : id \in DOMAIN fs /\ fs[id] # Torn
          THEN /\ tpc' = "ready"
               /\ cache' = at
               /\ owner' = [n \in Range(at) |-> recent[n + 1]]
               /\ buf' = [n \in Range(at) |-> fs[recent[n + 1]]]
               /\ lastSlot' = Len(recent) % size
          ELSE /\ tpc' = "load_raised"
               /\ cache' = Empty /\ owner' = Empty /\ buf' = Empty /\ lastSlot' = 0

\* The process is started again and resumes from the last checkpoint, if any.
Restart ==
    /\ tpc = "down"
    /\ IF ckpt.saved
       THEN LoadCheckpoint(ckpt.list, ckpt.counter, ckpt.files, MaxSize)
       ELSE tpc' = "ready" /\ UNCHANGED <<indexVars, cacheVars>>
    /\ UNCHANGED <<setup, todo, futs, made, crashes, winVars, batch, execVars, diskVars,
                   ckpt, thrVars>>

-----------------------------------------------------------------------------
(* A collector closes its data set, and an actor's rank loads its part.     *)

\* close: the executor is shut down ...  (A collector takes no checkpoints.)
Close ==
    /\ tpc = "ready" /\ setup.autoSave /\ ~setup.preload
    /\ ids # <<>> /\ ckpt = NoCheckpoint
    /\ tpc' = "closing"
    /\ UNCHANGED <<setup, todo, futs, made, crashes, indexVars, winVars, cacheVars, batch,
                   execVars, diskVars, ckpt, thrVars>>

\* ... which joins its threads while there is a task left ...
Joining == tpc = "closing" /\ ~(execq = <<>> /\ running = {}) /\ UNCHANGED vars

\* ... and close returns when every submitted task is done.
Closed ==
    /\ tpc = "closing" /\ execq = <<>> /\ running = {}
    /\ tpc' = "closed"
    /\ UNCHANGED <<setup, todo, futs, made, crashes, indexVars, winVars, cacheVars, batch,
                   execVars, diskVars, ckpt, thrVars>>

\* Mutant: the counter is the number of loaded trajectories.
NextIdIsSize(part) == Len(part)

\* trajectory_counter of a distributed load: above the largest id of the part.
NextId(part) == IF part = <<>> THEN 0 ELSE Max({e[1] : e \in Range(part)}) + 1

\* load_checkpoint(is_distributed=True) of the data set into the demo buffer of
\* rank r, a new buffer without auto_save; without index (which, once written, is
\* not empty) it raises.
LoadDataset(r) ==
    LET part == Part(dindex, r, World) IN
    /\ tpc = "closed"
    /\ setup' = [setup EXCEPT !.autoSave = FALSE]
    /\ IF dindex # <<>> THEN LoadCheckpoint(part, NextId(part), files, Window)
       ELSE /\ tpc' = "load_raised"
            /\ ids' = <<>> /\ index' = Empty /\ place' = Empty /\ loaded' = Empty
            /\ counter' = 0 /\ cache' = Empty /\ owner' = Empty /\ buf' = Empty
            /\ lastSlot' = 0
    /\ todo' = 0 /\ futs' = {} /\ window' = <<>> /\ current' = FALSE /\ batch' = NoBatch
    /\ saved' = {}
    /\ UNCHANGED <<made, crashes, execq, running, failed, diskVars, ckpt, thrVars>>

\* Nothing follows an exception on the actor's thread.
Raised == tpc \in {"load_raised", "sample_raised"} /\ UNCHANGED vars

Add == AddIndex \/ PutMap \/ PutData \/ AddDone

Next == \/ \E n \in 1..MaxAdds : AddTrajectories(n)
        \/ Add \/ Exec
        \/ Sample \/ WaitBatch \/ GetBatch \/ PollEmpty \/ Preload
        \/ SaveCheckpoint \/ Crash \/ Restart
        \/ Close \/ Joining \/ Closed \/ (\E r \in 0..(World - 1) : LoadDataset(r))
        \/ Raised

Spec == Init /\ [][Next]_vars

\* A thread with something to do does it; receiving, sampling, checkpointing,
\* closing and dying are up to the environment.
Fairness == /\ WF_vars(Add) /\ WF_vars(ExecStart) /\ WF_vars(Closed)
            /\ \A id \in 0..MaxAdds : WF_vars(\E t \in running : id \in t.ids /\ Work(t))
            /\ WF_vars(GetBatch) /\ WF_vars(Preload)
FairSpec == Spec /\ Fairness

-----------------------------------------------------------------------------

Trajectories == Nat \ {0}

Tasks == [kind : {"save", "flush", "flush_index"}, ids : SUBSET Nat,
          data : Trajectories \cup {None}]

\* The variables of the buffer, the executor, the disk and the threads keep
\* their types; nothing is located, cached or saved that the index does not
\* hold, and neither pool nor preload queue outgrows its bound.
TypeOK ==
    /\ setup \in [autoSave : BOOLEAN, preload : BOOLEAN, cacheSize : Nat \ {0}]
    /\ tpc \in {"ready", "adding", "indexed", "mapped", "waiting", "down", "closing",
                "closed", "load_raised", "sample_raised"}
    /\ spc \in {"idle", "loop", "mask", "slot", "gather", "load", "dead"}
    /\ todo \in Nat /\ made \in Nat /\ crashes \in 0..MaxCrashes
    /\ futs \subseteq Nat /\ counter \in Nat /\ ids \in Seq(Nat)
    /\ index \in [Range(ids) -> Trajectories]
    /\ DOMAIN place \subseteq Range(ids)
    /\ place \in [DOMAIN place -> {"auto", "loaded"}] /\ loaded \in [DOMAIN loaded -> Nat]
    /\ current \in BOOLEAN
    /\ DOMAIN cache \subseteq Range(ids) /\ lastSlot \in 0..(MaxSize - 1)
    /\ execq \in Seq(Tasks) /\ running \subseteq Tasks
    /\ IsFiniteSet(running) /\ Cardinality(running) <= Pool
    /\ saved \subseteq Range(ids) /\ failed \subseteq Nat
    /\ files \in [DOMAIN files -> Nat] /\ buf \in [DOMAIN buf -> Nat]
    /\ preq \in Seq([want : Trajectories, got : Nat \cup {None}]) /\ Len(preq) <= Prefetch
    /\ spc \in {"mask", "slot", "gather", "load"} =>
          pick \in Range(ids) /\ Len(preq) < Prefetch

\* No two trajectories of a buffer share an id, also after a restart from a
\* checkpoint or a distributed load: ids increase and the counter is above them.
IdsUnique ==
    /\ \A i, j \in DOMAIN ids : i < j => ids[i] < ids[j]
    /\ \A i \in DOMAIN ids : ids[i] < counter

\* A checkpoint of a buffer without auto_save, and any rank's part of a closed
\* data set, can be loaded: only auto_save checkpoints may lack a file, and a
\* data set one of whose saves has raised.
RestoreSucceeds == tpc = "load_raised" => setup.autoSave \/ failed # {}

\* A batch sampled on the actor's thread holds the trajectory that was drawn,
\* from the cache or from disk.  With auto_save it may be the trajectory of the
\* same id from before a crash: after the first one if the cache is smaller than
\* the window (which may also raise), after the second one in any case, because
\* a checkpoint may have copied a file that its save has not reached yet.  When
\* a save has raised, the index that a rank loads may be that of an earlier life.
Sound == \/ ~setup.autoSave /\ failed = {}
         \/ setup.autoSave /\ (crashes = 0 \/ (crashes = 1 /\ MaxSize >= Window))

RightSamples ==
    /\ ~setup.preload /\ Sound => batch.got = batch.want
    /\ tpc = "sample_raised" => MaxSize < Window

\* When close(wait=True) has returned, every trajectory of this process whose save
\* has not raised is in its file; and if none has, the data set is complete: its
\* index and counter are the final ones, whatever order the flushes of concurrent
\* pool threads ran in.
ClosedIsDurable ==
    tpc = "closed" =>
        /\ \A id \in Range(ids) \ failed : id \in DOMAIN files /\ files[id] = index[id]
        /\ failed = {} => dindex = Pairs(ids) /\ meta = counter

\* close(wait=True) returns (or the process dies): a flush blocks a pool thread
\* on saves of the same pool, which must never be stuck behind it.
CloseReturns == tpc = "closing" ~> tpc # "closing"

\* A trainer blocked in PreloadReplayBufferDataset.__iter__ gets a batch, while
\* the sampling thread lives (or the process dies).
PreloadServed == tpc = "waiting" ~> tpc # "waiting" \/ spc = "dead"

-----------------------------------------------------------------------------
(* The inductive invariant behind IdsUnique, RestoreSucceeds, RightSamples   *)
(* and ClosedIsDurable.                                                      *)

\* Ids increase, in the buffer, in its checkpoint and on disk.
Ordered(s) == /\ s \in Seq(Nat \X Trajectories)
              /\ \A i, j \in DOMAIN s : i < j => s[i][1] < s[j][1]

Checkpoint(c) == /\ c.saved = TRUE /\ c.counter \in Nat /\ Ordered(c.list)
                 /\ \A i \in DOMAIN c.list : c.list[i][1] < c.counter
                 /\ c.files \in [DOMAIN c.files -> Nat]

IdsInv == /\ IdsUnique
          /\ Ordered(dindex)
          /\ ckpt = NoCheckpoint \/ Checkpoint(ckpt)

\* The cache holds the MaxSize trajectories put last, in a ring of slots that
\* ends before _last_slot, and _slot_to_id is its inverse.
Placed == Len(ids) - (IF tpc = "indexed" THEN 1 ELSE 0)

Recent == {j \in 1..Placed : Placed - j < MaxSize}

SlotOf(j) == LET s == lastSlot - (Placed + 1 - j) IN IF s >= 0 THEN s ELSE s + MaxSize

CacheInv ==
    tpc # "load_raised" =>
        /\ DOMAIN cache = {ids[j] : j \in Recent}
        /\ \A j \in Recent : cache[ids[j]] = SlotOf(j) /\ SlotOf(j) \in DOMAIN owner
        /\ \A n \in DOMAIN owner : owner[n] \in DOMAIN cache /\ cache[owner[n]] = n

\* A slot holds the data of the id it is mapped to, once put has copied it and
\* unless what was loaded may be of another life.
Reliable == IF setup.autoSave THEN crashes <= 1 ELSE failed = {}

BufInv ==
    tpc # "load_raised" =>
        \A j \in Recent : ~(j = Len(ids) /\ tpc = "mapped") =>
            /\ SlotOf(j) \in DOMAIN buf
            /\ Reliable => buf[SlotOf(j)] = index[ids[j]]

\* In its first life, an auto-saving buffer finds in a file the trajectory of
\* that id or an unfinished one.
FilesInv ==
    setup.autoSave /\ crashes = 0 =>
        /\ DOMAIN files \subseteq Range(ids)
        /\ \A id \in DOMAIN files : files[id] \in {Torn, index[id]}
        /\ \A id \in DOMAIN place : place[id] = "auto"

\* What a checkpoint holds: without auto_save the data of its last Window ids,
\* with auto_save, when taken in the first life, no wrong data.
CkptInv ==
    ckpt.saved =>
        LET s == ckpt.list IN
        /\ ~setup.autoSave /\ failed = {} => \A j \in DOMAIN s : Len(s) - j < Window =>
              s[j][1] \in DOMAIN ckpt.files /\ ckpt.files[s[j][1]] = s[j][2]
        /\ setup.autoSave /\ (crashes = 0 \/ (crashes = 1 /\ tpc = "down")) =>
              \A j \in DOMAIN s : s[j][1] \in DOMAIN ckpt.files =>
                 ckpt.files[s[j][1]] \in {Torn, s[j][2]}

\* Every trajectory indexed under auto_save_path is on disk, about to be, or its
\* save has raised, and no task saves anything else.
Submitted == Range(execq) \cup running

SaveOf(t, id) == t.kind = "save" /\ t.ids = {id} /\ t.data = index[id]

SaveInv ==
    /\ ~setup.autoSave => execq = <<>> /\ running = {}
    /\ \A t \in Submitted : t.kind = "save" => \E id \in DOMAIN index : SaveOf(t, id)
    /\ setup.autoSave => \A id \in DOMAIN place : place[id] = "auto" =>
          \/ \E t \in Submitted : SaveOf(t, id)
          \/ id \in DOMAIN files /\ files[id] = index[id]
          \/ id \in failed
    /\ setup.autoSave /\ ckpt = NoCheckpoint =>
          \A id \in Range(ids) : id \in DOMAIN place /\ place[id] = "auto"

\* Between two calls of add_trajectories, metadata and index on disk are those of
\* the buffer or a flush is still to come, while no save has raised.
FlushInv ==
    setup.autoSave /\ ckpt = NoCheckpoint /\ ids # <<>> /\ failed = {}
    /\ tpc \notin {"adding", "indexed", "mapped"} =>
        /\ meta = counter \/ \E t \in Submitted : t.kind = "flush"
        /\ dindex = Pairs(ids) \/ \E t \in Submitted : t.kind \in {"flush", "flush_index"}

WindowInv == current => window = LastN(ids, Window)

\* What the phases of the actor's thread and of the sampling thread imply.
PhaseInv ==
    /\ tpc = "waiting" \/ spc # "idle" => setup.preload
    /\ tpc \in {"indexed", "mapped"} => ids # <<>> /\ todo > 0
    /\ tpc = "down" => /\ ids = <<>> /\ execq = <<>> /\ running = {}
                       /\ current = FALSE /\ crashes > 0
    /\ tpc \in {"closing", "closed"} =>
          setup.autoSave /\ ~setup.preload /\ ids # <<>> /\ ckpt = NoCheckpoint
    /\ tpc = "closed" => execq = <<>> /\ running = {}
    /\ tpc = "load_raised" =>
          execq = <<>> /\ running = {} /\ (setup.autoSave \/ failed # {})

IInv == /\ TypeOK /\ IdsInv /\ CacheInv /\ BufInv /\ FilesInv /\ CkptInv /\ SaveInv
        /\ FlushInv /\ WindowInv /\ PhaseInv /\ RightSamples
=============================================================================
