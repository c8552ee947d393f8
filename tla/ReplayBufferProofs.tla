------------------------- MODULE ReplayBufferProofs -------------------------
(***************************************************************************)
(* TrajectoryReplayBuffer, for every window, pool, queue and cache size, any *)
(* number of ranks, trajectories and crashes: ids are unique, restores       *)
(* succeed, samples are what was drawn, and close leaves a complete data     *)
(* set.  IInv of ReplayBuffer is the inductive invariant.                    *)
(***************************************************************************)
EXTENDS ReplayBuffer, Sharding, FiniteSetTheorems, TLAPS

-----------------------------------------------------------------------------
(* The parts of a distributed load.                                         *)

(* The quotient and the remainder that load_checkpoint computes.           *)
LEMMA QuotientRemainder ==
    ASSUME NEW n \in Nat, NEW w \in Nat \ {0}
    PROVE  /\ n \div w \in Nat
           /\ n % w \in 0..(w - 1)
           /\ n = w * (n \div w) + (n % w)
  OBVIOUS

(* One more rank takes one more quotient.                                  *)
LEMMA OneMore ==
    ASSUME NEW r \in Nat, NEW q \in Nat
    PROVE  /\ r * q \in Nat
           /\ (r + 1) * q = r * q + q
  OBVIOUS

(* Rank 0 starts at the beginning of the list, every rank ends where the   *)
(* next one starts, and the last one ends at the end (load_checkpoint,     *)
(* start_idx and end_idx); sizes differ by at most one.                    *)
THEOREM PartsPartition ==
    ASSUME NEW n \in Nat, NEW w \in Nat \ {0}
    PROVE  /\ PartStart(n, 0, w) = 0
           /\ \A r \in 0..(w - 1) :
                /\ PartStart(n, r, w) <= PartEnd(n, r, w)
                /\ PartEnd(n, r, w) - PartStart(n, r, w) \in {n \div w, n \div w + 1}
                /\ PartEnd(n, r, w) = PartStart(n, r + 1, w)
           /\ PartEnd(n, w - 1, w) = n
<1> DEFINE q == n \div w
           m == n % w
<1>1. q \in Nat /\ m \in 0..(w - 1) /\ n = w * q + m
  BY QuotientRemainder
<1>2. PartStart(n, 0, w) = 0
  BY <1>1 DEF PartStart, MinOf
<1>3. ASSUME NEW r \in 0..(w - 1)
      PROVE  /\ PartStart(n, r, w) <= PartEnd(n, r, w)
             /\ PartEnd(n, r, w) - PartStart(n, r, w) \in {q, q + 1}
             /\ PartEnd(n, r, w) = PartStart(n, r + 1, w)
  <2>1. r \in Nat /\ r * q \in Nat /\ (r + 1) * q = r * q + q
    BY <1>1, OneMore
  <2>2. /\ PartStart(n, r, w) = r * q + MinOf(r, m)
        /\ PartStart(n, r + 1, w) = (r + 1) * q + MinOf(r + 1, m)
        /\ PartEnd(n, r, w) = PartStart(n, r, w) + q + (IF r < m THEN 1 ELSE 0)
    BY DEF PartStart, PartEnd
  <2>3. /\ MinOf(r, m) \in Nat
        /\ MinOf(r + 1, m) = MinOf(r, m) + (IF r < m THEN 1 ELSE 0)
    BY <1>1, <2>1 DEF MinOf
  <2> HIDE DEF q, m
  <2> QED BY <1>1, <2>1, <2>2, <2>3
<1>4. PartEnd(n, w - 1, w) = n
  <2>1. w - 1 \in 0..(w - 1) /\ (w - 1) + 1 = w
    OBVIOUS
  <2>2. PartEnd(n, w - 1, w) = PartStart(n, w, w)
    BY <1>3, <2>1
  <2>3. MinOf(w, m) = m
    BY <1>1 DEF MinOf
  <2> QED BY <1>1, <2>2, <2>3 DEF PartStart
<1> QED BY <1>2, <1>3, <1>4

-----------------------------------------------------------------------------
(* The operators of the model.                                              *)

(* A dict after d.pop(k, None).                                             *)
LEMMA DropFacts ==
    ASSUME NEW f, NEW k
    PROVE  /\ DOMAIN Drop(f, k) = DOMAIN f \ {k}
           /\ \A x \in DOMAIN f : x # k => Drop(f, k)[x] = f[x]
  BY DEF Drop

(* A list after append.                                                     *)
LEMMA AppendFacts ==
    ASSUME NEW S, NEW s \in Seq(S), NEW e \in S
    PROVE  /\ Append(s, e) \in Seq(S)
           /\ Len(Append(s, e)) = Len(s) + 1
           /\ DOMAIN s = 1..Len(s) /\ DOMAIN Append(s, e) = 1..(Len(s) + 1)
           /\ \A i \in DOMAIN s : Append(s, e)[i] = s[i]
           /\ Append(s, e)[Len(s) + 1] = e
           /\ Range(Append(s, e)) = Range(s) \cup {e}
<1>1. /\ Append(s, e) \in Seq(S)
      /\ Len(Append(s, e)) = Len(s) + 1 /\ Len(s) \in Nat
      /\ DOMAIN s = 1..Len(s) /\ DOMAIN Append(s, e) = 1..(Len(s) + 1)
      /\ \A i \in DOMAIN s : Append(s, e)[i] = s[i]
      /\ Append(s, e)[Len(s) + 1] = e
  OBVIOUS
<1>2. Range(Append(s, e)) = Range(s) \cup {e}
  <2>1. 1..(Len(s) + 1) = 1..Len(s) \cup {Len(s) + 1}
    BY <1>1
  <2> QED BY <1>1, <2>1 DEF Range
<1> QED BY <1>1, <1>2

(* What a pool thread takes and what it leaves.                             *)
LEMMA TailFacts ==
    ASSUME NEW S, NEW s \in Seq(S), s # <<>>
    PROVE  /\ Head(s) \in S /\ Tail(s) \in Seq(S)
           /\ Len(s) \in Nat \ {0} /\ Len(Tail(s)) = Len(s) - 1
           /\ Range(s) = {Head(s)} \cup Range(Tail(s))
<1>1. /\ Head(s) \in S /\ Tail(s) \in Seq(S)
      /\ Len(s) \in Nat \ {0} /\ Len(Tail(s)) = Len(s) - 1
      /\ DOMAIN s = 1..Len(s) /\ DOMAIN Tail(s) = 1..(Len(s) - 1)
      /\ Head(s) = s[1] /\ \A i \in 1..(Len(s) - 1) : Tail(s)[i] = s[i + 1]
  OBVIOUS
<1>2. Range(s) \subseteq {Head(s)} \cup Range(Tail(s))
  <2> SUFFICES ASSUME NEW i \in DOMAIN s, i # 1 PROVE s[i] \in Range(Tail(s))
    BY <1>1 DEF Range
  <2>1. i - 1 \in 1..(Len(s) - 1) /\ Tail(s)[i - 1] = s[i]
    BY <1>1
  <2> QED BY <1>1, <2>1 DEF Range
<1>3. {Head(s)} \cup Range(Tail(s)) \subseteq Range(s)
  <2>1. \A i \in 1..(Len(s) - 1) : i + 1 \in DOMAIN s
    BY <1>1
  <2>2. 1 \in DOMAIN s
    BY <1>1
  <2> QED BY <1>1, <2>1, <2>2 DEF Range
<1> QED BY <1>1, <1>2, <1>3

(* The last n elements of a list, s[-n:].                                   *)
LEMMA LastNFacts ==
    ASSUME NEW S, NEW s \in Seq(S), NEW n \in Nat \ {0}
    PROVE  /\ LastN(s, n) \in Seq(S)
           /\ DOMAIN LastN(s, n) = 1..Len(LastN(s, n))
           /\ Len(LastN(s, n)) = IF Len(s) > n THEN n ELSE Len(s)
           /\ Len(s) - Len(LastN(s, n)) \in Nat
           /\ \A i \in 1..Len(LastN(s, n)) : LastN(s, n)[i] = s[Len(s) - Len(LastN(s, n)) + i]
           /\ Range(LastN(s, n)) = {s[j] : j \in {i \in DOMAIN s : Len(s) - i < n}}
<1> DEFINE a == IF Len(s) > n THEN Len(s) - n + 1 ELSE 1
           l == LastN(s, n)
<1>1. /\ Len(s) \in Nat /\ a \in 1..(Len(s) + 1) /\ l = SubSeq(s, a, Len(s))
      /\ Len(s) > n => a = Len(s) - n + 1
      /\ ~(Len(s) > n) => a = 1
      /\ DOMAIN s = 1..Len(s)
  BY DEF LastN
<1>2. /\ l \in Seq(S) /\ Len(l) = Len(s) - a + 1
      /\ DOMAIN l = 1..Len(l)
      /\ \A i \in 1..Len(l) : l[i] = s[a + i - 1]
  <2> HIDE DEF a, l
  <2> QED BY <1>1
<1>3. /\ Len(l) = IF Len(s) > n THEN n ELSE Len(s)
      /\ Len(s) - Len(l) = a - 1 /\ a - 1 \in Nat
  <2> HIDE DEF a, l
  <2> QED BY <1>1, <1>2
<1>4. \A i \in 1..Len(l) : l[i] = s[Len(s) - Len(l) + i]
  <2> HIDE DEF a, l
  <2> QED BY <1>1, <1>2, <1>3
<1>5. Range(l) = {s[j] : j \in {i \in DOMAIN s : Len(s) - i < n}}
  <2>1. \A j \in DOMAIN s : Len(s) - j < n <=> j >= a
    BY <1>1
  <2> HIDE DEF a, l
  <2>2. \A j \in DOMAIN s : j >= a => j - a + 1 \in 1..Len(l) /\ l[j - a + 1] = s[j]
    BY <1>1, <1>2
  <2>3. \A i \in 1..Len(l) : a + i - 1 \in DOMAIN s /\ a + i - 1 >= a
    BY <1>1, <1>2
  <2>4. Range(l) \subseteq {s[j] : j \in {i \in DOMAIN s : Len(s) - i < n}}
    BY <1>2, <2>1, <2>3 DEF Range
  <2>5. {s[j] : j \in {i \in DOMAIN s : Len(s) - i < n}} \subseteq Range(l)
    BY <1>2, <2>1, <2>2 DEF Range
  <2> QED BY <2>4, <2>5
<1> QED BY <1>2, <1>3, <1>4, <1>5

-----------------------------------------------------------------------------
(* What each part of the invariant depends on.                              *)

(* IdsInv: the list, the counter and the disk.                              *)
LEMMA KeepIds ==
    ASSUME IdsInv, UNCHANGED <<ids, counter, dindex, ckpt>>
    PROVE  IdsInv'
  BY DEF IdsInv, IdsUnique, Ordered, Checkpoint, Trajectories, NoCheckpoint

(* CacheInv: the list and the cache; an indexed trajectory is not put yet.  *)
LEMMA KeepCache ==
    ASSUME CacheInv, UNCHANGED <<setup, ids, cacheVars>>,
           tpc' = "indexed" <=> tpc = "indexed",
           tpc = "load_raised" => tpc' = "load_raised"
    PROVE  CacheInv'
<1>1. UNCHANGED <<MaxSize, Placed, Recent>>
  BY DEF MaxSize, Placed, Recent
<1>2. \A j : SlotOf(j)' = SlotOf(j)
  BY <1>1 DEF SlotOf, cacheVars
<1> QED BY <1>1, <1>2 DEF CacheInv, cacheVars

(* BufInv: the same and the index; a mapped trajectory is not copied yet.   *)
LEMMA KeepBuf ==
    ASSUME BufInv, UNCHANGED <<setup, crashes, ids, index, cacheVars>>,
           setup.autoSave \/ UNCHANGED failed,
           tpc' = "indexed" <=> tpc = "indexed",
           tpc = "mapped" => tpc' = "mapped",
           tpc = "load_raised" => tpc' = "load_raised"
    PROVE  BufInv'
<1>1. UNCHANGED <<MaxSize, Placed, Recent>>
  BY DEF MaxSize, Placed, Recent
<1>2. \A j : SlotOf(j)' = SlotOf(j)
  BY <1>1 DEF SlotOf, cacheVars
<1> QED BY <1>1, <1>2 DEF BufInv, Reliable, cacheVars

(* FilesInv: the files and what they should hold.                           *)
LEMMA KeepFiles ==
    ASSUME FilesInv, UNCHANGED <<setup, crashes, ids, index, place, files>>
    PROVE  FilesInv'
  BY DEF FilesInv, Torn

(* CkptInv: the checkpoint.                                                 *)
LEMMA KeepCkpt ==
    ASSUME CkptInv, UNCHANGED <<setup, crashes, ckpt>>, setup.autoSave \/ UNCHANGED failed,
           tpc' = "down" => tpc = "down"
    PROVE  CkptInv'
  BY DEF CkptInv, Torn

(* SaveInv: the tasks, the index and the files.                             *)
LEMMA KeepSave ==
    ASSUME SaveInv, UNCHANGED <<setup, execq, running, ids, index, place, files, failed, ckpt>>
    PROVE  SaveInv'
  BY DEF SaveInv, Submitted, SaveOf, NoCheckpoint

(* FlushInv: the tasks, the index, and its copy on disk.                    *)
LEMMA KeepFlush ==
    ASSUME FlushInv,
           UNCHANGED <<setup, execq, running, ids, index, counter, failed, meta, dindex, ckpt>>,
           tpc \in {"adding", "indexed", "mapped"} => tpc' \in {"adding", "indexed", "mapped"}
    PROVE  FlushInv'
  BY DEF FlushInv, Submitted, NoCheckpoint, Pairs

(* WindowInv: the window cache.                                             *)
LEMMA KeepWindow ==
    ASSUME WindowInv, UNCHANGED <<ids, window, current>>
    PROVE  WindowInv'
  BY DEF WindowInv, LastN

(* RightSamples: the last batch.                                            *)
LEMMA KeepRight ==
    ASSUME RightSamples, UNCHANGED <<setup, crashes, batch>>,
           setup.autoSave \/ UNCHANGED failed,
           tpc' = "sample_raised" => tpc = "sample_raised"
    PROVE  RightSamples'
  BY DEF RightSamples, Sound, MaxSize

-----------------------------------------------------------------------------
(* The actor's thread: add_trajectories.                                    *)

(* A new batch is taken up.                                                 *)
LEMMA AddTrajectoriesStep ==
    ASSUME IInv, NEW n \in 1..MaxAdds, AddTrajectories(n)
    PROVE  IInv'
<1>0. n \in Nat
  OBVIOUS
<1>1. TypeOK'
  BY <1>0 DEF IInv, TypeOK, AddTrajectories, MaxSize, trainVars, indexVars, winVars,
        cacheVars, execVars, diskVars, thrVars
<1>2. PhaseInv'
  BY DEF IInv, PhaseInv, AddTrajectories, indexVars, execVars, thrVars
<1>3. FlushInv'
  BY DEF IInv, FlushInv, AddTrajectories
<1> QED BY <1>1, <1>2, <1>3, KeepIds, KeepCache, KeepBuf, KeepFiles, KeepCkpt, KeepSave,
           KeepWindow, KeepRight
        DEF IInv, AddTrajectories, indexVars, winVars, execVars, diskVars

(* The batch is added and, with auto_save, its flush submitted.             *)
LEMMA AddDoneStep ==
    ASSUME IInv, AddDone
    PROVE  IInv'
<1> DEFINE t == [kind |-> "flush", ids |-> futs, data |-> None]
<1>1. t \in Tasks /\ t.kind = "flush"
  BY DEF IInv, TypeOK, Tasks
<1>2. /\ execq \in Seq(Tasks) /\ execq' \in Seq(Tasks)
      /\ setup.autoSave => Range(execq') = Range(execq) \cup {t}
      /\ ~setup.autoSave => execq' = execq
  <2> HIDE DEF t
  <2> QED BY <1>1, AppendFacts DEF IInv, TypeOK, AddDone, t
<1> HIDE DEF t
<1>3. TypeOK'
  BY <1>2 DEF IInv, TypeOK, AddDone, MaxSize, indexVars, winVars,
        cacheVars, diskVars, thrVars
<1>4. PhaseInv'
  BY <1>2 DEF IInv, PhaseInv, AddDone, indexVars, thrVars
<1>5. FlushInv'
  BY <1>1, <1>2 DEF FlushInv, AddDone, Submitted
<1>6. SaveInv'
  <2>1. /\ UNCHANGED <<setup, running, failed, ids, index, place, files, ckpt>>
        /\ Submitted \subseteq Submitted'
        /\ \A u \in Submitted' : u.kind = "save" => u \in Submitted
    BY <1>1, <1>2 DEF AddDone, indexVars, diskVars, Submitted
  <2>2. \A u, id : SaveOf(u, id)' = SaveOf(u, id)
    BY <2>1 DEF SaveOf
  <2> QED BY <1>2, <2>1, <2>2 DEF IInv, SaveInv
<1> QED BY <1>3, <1>4, <1>5, <1>6, KeepIds, KeepCache, KeepBuf, KeepFiles, KeepCkpt,
           KeepWindow, KeepRight
        DEF IInv, AddDone, indexVars, winVars, diskVars

(* A trajectory is indexed under the counter, which is no id yet, and its   *)
(* save is submitted.                                                       *)
LEMMA AddIndexStep ==
    ASSUME IInv, AddIndex
    PROVE  IInv'
<1> DEFINE t == [kind |-> "save", ids |-> {counter}, data |-> made + 1]
<1>1. /\ ids \in Seq(Nat) /\ ids' \in Seq(Nat)
      /\ Len(ids) \in Nat /\ Len(ids') = Len(ids) + 1
      /\ DOMAIN ids = 1..Len(ids) /\ DOMAIN ids' = 1..(Len(ids) + 1)
      /\ \A i \in DOMAIN ids : ids'[i] = ids[i]
      /\ ids'[Len(ids) + 1] = counter
      /\ Range(ids') = Range(ids) \cup {counter}
  <2>1. ids \in Seq(Nat) /\ counter \in Nat /\ ids' = Append(ids, counter)
    BY DEF IInv, TypeOK, AddIndex
  <2>2. Len(ids) \in Nat
    BY <2>1
  <2> QED BY <2>1, <2>2, AppendFacts
<1>2. counter \in Nat /\ counter \notin Range(ids) /\ made + 1 \in Trajectories
  BY DEF IInv, TypeOK, IdsInv, IdsUnique, Range, Trajectories
<1>3. /\ index' = Put(index, counter, made + 1)
      /\ index' \in [Range(ids') -> Trajectories]
      /\ \A id \in Range(ids) : index'[id] = index[id]
      /\ index'[counter] = made + 1
      /\ DOMAIN index = Range(ids) /\ DOMAIN index' = Range(ids')
  BY <1>1, <1>2 DEF IInv, TypeOK, AddIndex, Put
<1>4. t \in Tasks /\ t.kind = "save" /\ t.ids = {counter} /\ t.data = made + 1
  BY <1>2 DEF Tasks
<1>5. /\ execq \in Seq(Tasks) /\ execq' \in Seq(Tasks)
      /\ setup.autoSave => Range(execq') = Range(execq) \cup {t}
      /\ ~setup.autoSave => execq' = execq
  <2>1. /\ execq \in Seq(Tasks)
        /\ execq' = IF setup.autoSave THEN Append(execq, t) ELSE execq
    BY DEF IInv, TypeOK, AddIndex
  <2> HIDE DEF t
  <2> QED BY <1>4, <2>1, AppendFacts
<1>6. /\ setup.autoSave => /\ DOMAIN place' = DOMAIN place \cup {counter}
                           /\ place'[counter] = "auto"
      /\ ~setup.autoSave => place' = place
      /\ \A id \in DOMAIN place : place'[id] = place[id]
      /\ DOMAIN place \subseteq Range(ids) /\ DOMAIN place' \subseteq Range(ids')
      /\ place' \in [DOMAIN place' -> {"auto", "loaded"}]
  BY <1>1, <1>2 DEF IInv, TypeOK, AddIndex, Put
<1> HIDE DEF t
<1>7. TypeOK'
  <2>1. UNCHANGED <<setup, todo, crashes, loaded, cache, lastSlot, running, saved, failed,
                    files, buf, spc, pick, preq>>
    BY DEF AddIndex, cacheVars, diskVars, thrVars
  <2>2. /\ tpc' = "indexed" /\ made' = made + 1 /\ counter' = counter + 1 /\ current' = FALSE
        /\ futs' \subseteq futs \cup {counter}
    BY DEF AddIndex
  <2>3. futs' \subseteq Nat /\ made' \in Nat /\ counter' \in Nat
    BY <1>2, <2>2 DEF IInv, TypeOK
  <2>4. Range(ids) \subseteq Range(ids')
    BY <1>1
  <2>5. /\ DOMAIN cache' \subseteq Range(ids') /\ saved' \subseteq Range(ids')
        /\ spc' \in {"mask", "slot", "gather", "load"} =>
              pick' \in Range(ids') /\ Len(preq') < Prefetch
    BY <2>1, <2>4 DEF IInv, TypeOK
  <2> QED BY <1>1, <1>3, <1>5, <1>6, <2>1, <2>2, <2>3, <2>5 DEF IInv, TypeOK, MaxSize
<1>8. IdsInv'
  <2>1. /\ UNCHANGED <<dindex, ckpt>> /\ counter' = counter + 1
    BY DEF AddIndex, diskVars
  <2>2. IdsUnique'
    <3>1. \A i \in DOMAIN ids : ids[i] \in Nat /\ ids[i] < counter
      BY <1>1 DEF IInv, IdsInv, IdsUnique
    <3>2. \A i, j \in DOMAIN ids : i < j => ids[i] < ids[j]
      BY DEF IInv, IdsInv, IdsUnique
    <3>3. \A i \in DOMAIN ids' : i \in DOMAIN ids \/ i = Len(ids) + 1
      BY <1>1
    <3>4. \A i, j \in DOMAIN ids' : i < j => i \in DOMAIN ids
      BY <1>1
    <3>5. \A i, j \in DOMAIN ids' : i < j => ids'[i] < ids'[j]
      BY <1>1, <3>1, <3>2, <3>3, <3>4
    <3>6. \A i \in DOMAIN ids' : ids'[i] < counter + 1
      BY <1>1, <1>2, <3>1, <3>3
    <3> QED BY <2>1, <3>5, <3>6 DEF IdsUnique
  <2> QED BY <2>1, <2>2 DEF IInv, IdsInv, Ordered, Checkpoint, NoCheckpoint
<1>9. /\ UNCHANGED <<MaxSize, Placed, Recent>> /\ Recent \subseteq DOMAIN ids
      /\ \A j : SlotOf(j)' = SlotOf(j)
  <2>1. UNCHANGED <<MaxSize, Placed>> /\ Placed = Len(ids)
    BY <1>1 DEF MaxSize, Placed, AddIndex
  <2> QED BY <1>1, <2>1 DEF Recent, SlotOf, AddIndex, cacheVars
<1>10. CacheInv'
  <2>1. UNCHANGED <<cache, owner>> /\ tpc # "load_raised" /\ \A j \in Recent : ids'[j] = ids[j]
    BY <1>1, <1>9 DEF AddIndex, cacheVars
  <2>2. {ids'[j] : j \in Recent} = {ids[j] : j \in Recent}
    BY <2>1
  <2> QED BY <1>9, <2>1, <2>2 DEF IInv, CacheInv
<1>11. BufInv'
  <2> SUFFICES ASSUME NEW j \in Recent
               PROVE  SlotOf(j) \in DOMAIN buf /\ (Reliable => buf[SlotOf(j)] = index'[ids'[j]])
    BY <1>9 DEF BufInv, Reliable, AddIndex, cacheVars
  <2>1. ids'[j] = ids[j] /\ ids[j] \in Range(ids)
    BY <1>1, <1>9 DEF Range
  <2>2. SlotOf(j) \in DOMAIN buf /\ (Reliable => buf[SlotOf(j)] = index[ids[j]])
    BY DEF IInv, BufInv, AddIndex
  <2> QED BY <1>3, <2>1, <2>2
<1>12. FilesInv'
  BY <1>1, <1>3, <1>6 DEF IInv, FilesInv, AddIndex, diskVars
<1>13. SaveInv'
  <2>1. /\ UNCHANGED <<setup, running, failed, files, ckpt>>
        /\ setup.autoSave => Submitted' = Submitted \cup {t}
        /\ ~setup.autoSave => Submitted' = Submitted
    BY <1>5 DEF AddIndex, diskVars, Submitted
  <2>2. \A u, id : id \in DOMAIN index => SaveOf(u, id)' = SaveOf(u, id)
    BY <1>3 DEF SaveOf
  <2>3. \A u, id : u = t /\ id = counter => SaveOf(u, id)'
    BY <1>3, <1>4 DEF SaveOf
  <2>4. \A u \in Submitted' : u.kind = "save" => \E id \in DOMAIN index' : SaveOf(u, id)'
    BY <1>1, <1>3, <2>1, <2>2, <2>3 DEF IInv, SaveInv
  <2>5. ASSUME setup.autoSave, NEW id \in DOMAIN place', place'[id] = "auto"
        PROVE  \/ \E u \in Submitted' : SaveOf(u, id)'
               \/ id \in DOMAIN files /\ files[id] = index'[id]
               \/ id \in failed
    <3>1. CASE id = counter
      BY <2>1, <2>3, <2>5, <3>1
    <3>2. CASE id \in DOMAIN place
      <4>1. id \in DOMAIN index /\ place[id] = "auto" /\ index'[id] = index[id]
        BY <1>3, <1>6, <2>5, <3>2
      <4>2. \/ \E u \in Submitted : SaveOf(u, id)
            \/ id \in DOMAIN files /\ files[id] = index[id]
            \/ id \in failed
        BY <2>5, <3>2, <4>1 DEF IInv, SaveInv
      <4> QED BY <2>1, <2>2, <2>5, <4>1, <4>2
    <3> QED BY <1>6, <2>5, <3>1, <3>2
  <2>6. setup.autoSave /\ ckpt = NoCheckpoint =>
           \A id \in Range(ids') : id \in DOMAIN place' /\ place'[id] = "auto"
    BY <1>1, <1>6 DEF IInv, SaveInv
  <2> QED BY <1>5, <2>1, <2>4, <2>5, <2>6 DEF IInv, SaveInv, NoCheckpoint
<1>14. FlushInv' /\ WindowInv' /\ PhaseInv'
  <2>1. FlushInv' /\ WindowInv'
    BY DEF AddIndex, FlushInv, WindowInv
  <2>2. tpc' = "indexed" /\ ids' # <<>> /\ todo > 0 /\ UNCHANGED <<setup, todo, spc>>
    BY <1>1 DEF AddIndex, thrVars
  <2> QED BY <2>1, <2>2 DEF IInv, PhaseInv
<1> QED BY <1>7, <1>8, <1>10, <1>11, <1>12, <1>13, <1>14, KeepCkpt, KeepRight
        DEF IInv, AddIndex

(* The slots of the ring: of the MaxSize ids put last, no two share a slot, *)
(* and only the oldest of a full ring has the slot that is given away next. *)
LEMMA RingFacts ==
    ASSUME IInv
    PROVE  /\ MaxSize \in Nat \ {0} /\ lastSlot \in 0..(MaxSize - 1)
           /\ ids \in Seq(Nat) /\ Len(ids) \in Nat /\ DOMAIN ids = 1..Len(ids)
           /\ Placed \in Nat
           /\ tpc = "indexed" => Len(ids) = Placed + 1
           /\ tpc # "indexed" => Len(ids) = Placed
           /\ Recent \subseteq 1..Placed /\ Recent \subseteq DOMAIN ids
           /\ \A j \in Recent : /\ SlotOf(j) \in 0..(MaxSize - 1)
                                /\ SlotOf(j) = lastSlot <=> Placed + 1 - j = MaxSize
           /\ \A i, j \in Recent : SlotOf(i) = SlotOf(j) => i = j
<1>1. MaxSize \in Nat \ {0} /\ lastSlot \in 0..(MaxSize - 1)
  BY ReplayAssumption DEF IInv, TypeOK, MaxSize
<1>2. ids \in Seq(Nat) /\ (tpc = "indexed" => ids # <<>>)
  BY DEF IInv, TypeOK, PhaseInv
<1>3. Len(ids) \in Nat /\ DOMAIN ids = 1..Len(ids) /\ (ids # <<>> => Len(ids) > 0)
  BY <1>2
<1>4. /\ Placed \in Nat
      /\ tpc = "indexed" => Len(ids) = Placed + 1
      /\ tpc # "indexed" => Len(ids) = Placed
      /\ Placed <= Len(ids)
  <2>1. CASE tpc = "indexed"
    BY <1>2, <1>3, <2>1 DEF Placed
  <2>2. CASE tpc # "indexed"
    <3>1. Placed = Len(ids) - 0
      BY <2>2 DEF Placed
    <3>2. Len(ids) - 0 = Len(ids) /\ Len(ids) <= Len(ids)
      BY <1>3
    <3>3. Placed = Len(ids)
      BY <3>1, <3>2
    <3> QED BY <1>3, <2>2, <3>2, <3>3
  <2> QED BY <2>1, <2>2
<1>5. Recent \subseteq 1..Placed /\ Recent \subseteq DOMAIN ids
  <2>1. Recent \subseteq 1..Placed
    BY DEF Recent
  <2>2. \A p, n \in Nat : p <= n => 1..p \subseteq 1..n
    OBVIOUS
  <2>3. 1..Placed \subseteq 1..Len(ids)
    BY <1>3, <1>4, <2>2
  <2> QED BY <1>3, <2>1, <2>3
<1>6. \A j \in Recent : j \in 1..Placed /\ Placed - j < MaxSize
  BY DEF Recent
<1>7. \A j \in Recent : /\ SlotOf(j) \in 0..(MaxSize - 1)
                        /\ SlotOf(j) = lastSlot <=> Placed + 1 - j = MaxSize
  BY <1>1, <1>4, <1>6 DEF SlotOf
<1>8. \A i, j \in Recent : SlotOf(i) = SlotOf(j) => i = j
  BY <1>1, <1>4, <1>6 DEF SlotOf
<1> QED BY <1>1, <1>2, <1>3, <1>4, <1>5, <1>7, <1>8

(* No two positions of the list hold the same id.                           *)
LEMMA IdsDistinct ==
    ASSUME IInv
    PROVE  \A i, j \in DOMAIN ids : ids[i] = ids[j] => i = j
<1>1. ids \in Seq(Nat) /\ \A i, j \in DOMAIN ids : i < j => ids[i] < ids[j]
  BY DEF IInv, TypeOK, IdsInv, IdsUnique
<1>2. \A i \in DOMAIN ids : i \in Nat /\ ids[i] \in Nat
  BY <1>1
<1> QED BY <1>1, <1>2

(* The slot at _last_slot goes to the new id, and the id that had it, the   *)
(* oldest one of a full cache, leaves the cache.                            *)
LEMMA PutMapStep ==
    ASSUME IInv, PutMap
    PROVE  IInv'
<1> DEFINE id == Last(ids)
           P == Placed
           evict == IF lastSlot \in DOMAIN owner THEN owner[lastSlot] ELSE None
<1>1. /\ MaxSize \in Nat \ {0} /\ lastSlot \in 0..(MaxSize - 1)
      /\ ids \in Seq(Nat) /\ DOMAIN ids = 1..(P + 1) /\ Len(ids) = P + 1 /\ P \in Nat
      /\ id = ids[P + 1] /\ Recent \subseteq 1..P
      /\ Recent = {j \in 1..P : P - j < MaxSize}
  BY RingFacts DEF PutMap, Last, Recent
<1>2. /\ DOMAIN cache = {ids[j] : j \in Recent}
      /\ \A j \in Recent : cache[ids[j]] = SlotOf(j) /\ SlotOf(j) \in DOMAIN owner
      /\ \A n \in DOMAIN owner : owner[n] \in DOMAIN cache /\ cache[owner[n]] = n
  BY DEF IInv, CacheInv, PutMap
<1>3. id \notin DOMAIN cache
  <2>1. P + 1 \in DOMAIN ids /\ \A j \in Recent : j \in DOMAIN ids /\ j # P + 1
    BY <1>1
  <2>2. \A j \in Recent : ids[j] # id
    BY <1>1, <2>1, IdsDistinct
  <2> QED BY <1>2, <2>2
<1>4. UNCHANGED <<setup, ids, index, buf, crashes, MaxSize>> /\ tpc = "indexed" /\ tpc' = "mapped"
  BY DEF PutMap, indexVars, MaxSize
<1>5. /\ DOMAIN cache' = (DOMAIN cache \ {evict}) \cup {id}
      /\ \A x \in DOMAIN cache : x # evict => cache'[x] = cache[x]
      /\ cache'[id] = lastSlot
      /\ DOMAIN owner' = DOMAIN owner \cup {lastSlot}
      /\ owner'[lastSlot] = id
      /\ \A n \in DOMAIN owner : n # lastSlot => owner'[n] = owner[n]
      /\ lastSlot' = (lastSlot + 1) % MaxSize
  <2>1. /\ cache' = Put(Drop(cache, evict), id, lastSlot)
        /\ owner' = Put(owner, lastSlot, id)
        /\ lastSlot' = (lastSlot + 1) % MaxSize
    BY <1>3 DEF PutMap
  <2> HIDE DEF id, evict
  <2> DEFINE d == Drop(cache, evict)
  <2>2. DOMAIN d = DOMAIN cache \ {evict} /\ \A x \in DOMAIN cache : x # evict => d[x] = cache[x]
    BY DropFacts
  <2> HIDE DEF d
  <2>3. /\ DOMAIN cache' = DOMAIN d \cup {id} /\ cache'[id] = lastSlot
        /\ \A x \in DOMAIN d : x # id => cache'[x] = d[x]
    BY <2>1 DEF d, Put
  <2>4. /\ DOMAIN owner' = DOMAIN owner \cup {lastSlot} /\ owner'[lastSlot] = id
        /\ \A n \in DOMAIN owner : n # lastSlot => owner'[n] = owner[n]
    BY <2>1 DEF Put
  <2> QED BY <1>3, <2>1, <2>2, <2>3, <2>4
<1> HIDE DEF id, P
<1>6. Recent' = {j \in 1..(P + 1) : P + 1 - j < MaxSize} /\ Placed' = P + 1
  BY <1>1, <1>4 DEF Recent, Placed
<1>7. lastSlot' = IF lastSlot + 1 = MaxSize THEN 0 ELSE lastSlot + 1
  BY <1>1, <1>5
<1>8. /\ \A j \in Recent' : j # P + 1 => j \in Recent /\ SlotOf(j)' = SlotOf(j)
      /\ P + 1 \in Recent'
      /\ \A j : j = P + 1 => SlotOf(j)' = lastSlot
  <2>1. \A j : j = P + 1 => SlotOf(j)' = lastSlot
    BY <1>1, <1>4, <1>6, <1>7 DEF SlotOf
  <2>2. ASSUME NEW j \in Recent', j # P + 1
        PROVE  j \in Recent /\ SlotOf(j)' = SlotOf(j)
    <3>1. j \in 1..P /\ P + 1 - j < MaxSize
      BY <1>1, <1>6, <2>2
    <3> QED BY <1>1, <1>4, <1>6, <1>7, <3>1 DEF SlotOf, P
  <2> QED BY <1>1, <1>6, <2>1, <2>2
<1>9. \A j \in Recent : ids[j] = evict <=> j \notin Recent'
  <2>1. \A j \in Recent : j \notin Recent' <=> SlotOf(j) = lastSlot
    <3>1. \A j \in Recent : SlotOf(j) = lastSlot <=> P + 1 - j = MaxSize
      BY RingFacts DEF P
    <3> QED BY <1>1, <1>6, <3>1
  <2>2. ASSUME NEW j \in Recent, SlotOf(j) = lastSlot
        PROVE  ids[j] = evict
    <3>1. lastSlot \in DOMAIN owner /\ evict \in DOMAIN cache /\ cache[evict] = lastSlot
      BY <1>2, <2>2
    <3>2. PICK i \in Recent : evict = ids[i] /\ SlotOf(i) = lastSlot
      BY <1>2, <3>1
    <3> QED BY <2>2, <3>2, RingFacts
  <2>3. ASSUME NEW j \in Recent, ids[j] = evict
        PROVE  SlotOf(j) = lastSlot
    <3>1. ids[j] \in Nat
      BY <1>1
    <3>2. lastSlot \in DOMAIN owner
      BY <2>3, <3>1 DEF None
    <3> QED BY <1>2, <2>3, <3>2
  <2> QED BY <2>1, <2>2, <2>3
<1> HIDE DEF evict
<1>10. CacheInv'
  <2>1. DOMAIN cache' = {ids[j] : j \in Recent'}
    <3>1. ASSUME NEW x \in DOMAIN cache' PROVE x \in {ids[j] : j \in Recent'}
      <4>1. CASE x = id
        BY <1>1, <1>8, <4>1
      <4>2. CASE x \in DOMAIN cache /\ x # evict
        BY <1>2, <1>9, <4>2
      <4> QED BY <1>5, <3>1, <4>1, <4>2
    <3>2. ASSUME NEW j \in Recent' PROVE ids[j] \in DOMAIN cache'
      BY <1>1, <1>2, <1>5, <1>8, <1>9
    <3> QED BY <3>1, <3>2
  <2>2. ASSUME NEW j \in Recent'
        PROVE  cache'[ids[j]] = SlotOf(j)' /\ SlotOf(j)' \in DOMAIN owner'
    <3>1. CASE j = P + 1
      BY <1>1, <1>5, <1>8, <3>1
    <3>2. CASE j # P + 1
      <4>1. j \in Recent /\ SlotOf(j)' = SlotOf(j) /\ ids[j] # evict
        BY <1>8, <1>9, <3>2
      <4> QED BY <1>2, <1>5, <4>1
    <3> QED BY <3>1, <3>2
  <2>3. ASSUME NEW n \in DOMAIN owner'
        PROVE  owner'[n] \in DOMAIN cache' /\ cache'[owner'[n]] = n
    <3>1. CASE n = lastSlot
      BY <1>5, <3>1
    <3>2. CASE n # lastSlot
      <4>1. n \in DOMAIN owner /\ owner'[n] = owner[n]
        BY <1>5, <3>2
      <4>2. owner[n] \in DOMAIN cache /\ cache[owner[n]] = n
        BY <1>2, <4>1
      <4>3. owner[n] # evict
        <5>1. PICK j \in Recent : owner[n] = ids[j] /\ SlotOf(j) = n
          BY <1>2, <4>2
        <5>2. SlotOf(j) # lastSlot
          BY <3>2, <5>1
        <5>3. j \in Recent'
          BY <1>1, <1>6, <5>2, RingFacts DEF P
        <5> QED BY <1>9, <5>1, <5>3
      <4> QED BY <1>5, <4>1, <4>2, <4>3
    <3> QED BY <3>1, <3>2
  <2> QED BY <1>4, <2>1, <2>2, <2>3 DEF CacheInv
<1>11. BufInv'
  <2> SUFFICES ASSUME NEW j \in Recent', j # P + 1
               PROVE  SlotOf(j)' \in DOMAIN buf /\ (Reliable => buf[SlotOf(j)'] = index[ids[j]])
    BY <1>1, <1>4 DEF BufInv, Reliable, PutMap, execVars
  <2>1. j \in Recent /\ SlotOf(j)' = SlotOf(j)
    BY <1>8
  <2>2. SlotOf(j) \in DOMAIN buf /\ (Reliable => buf[SlotOf(j)] = index[ids[j]])
    BY <1>4, <2>1 DEF IInv, BufInv
  <2> QED BY <2>1, <2>2
<1>12. TypeOK'
  <2>1. UNCHANGED <<todo, futs, made, crashes, index, place, loaded, counter, current, execq, running,
                    saved, failed, files, buf, preq, spc, pick>>
    BY DEF PutMap, indexVars, winVars, execVars, diskVars, thrVars
  <2>2. lastSlot' \in 0..(MaxSize - 1)
    BY <1>1, <1>7
  <2>3. DOMAIN cache' \subseteq Range(ids)
    BY <1>1, <1>5 DEF IInv, TypeOK, Range
  <2> QED BY <1>4, <2>1, <2>2, <2>3 DEF IInv, TypeOK
<1>13. PhaseInv' /\ FlushInv'
  <2>1. UNCHANGED <<spc, todo, execq, running, ckpt>>
    BY DEF PutMap, execVars, thrVars
  <2> QED BY <1>4, <2>1 DEF IInv, PhaseInv, FlushInv
<1> QED BY <1>10, <1>11, <1>12, <1>13, KeepIds, KeepFiles, KeepCkpt, KeepSave, KeepWindow, KeepRight
        DEF IInv, PutMap, indexVars, winVars, execVars, diskVars

(* The data is copied into the slot of the new id, which no other cached id *)
(* has.                                                                     *)
LEMMA PutDataStep ==
    ASSUME IInv, PutData
    PROVE  IInv'
<1> DEFINE L == Len(ids)
<1>1. /\ L \in Nat \ {0} /\ ids \in Seq(Nat) /\ DOMAIN ids = 1..L /\ Placed = L
      /\ Last(ids) = ids[L] /\ ids[L] \in Range(ids) /\ todo \in Nat \ {0}
      /\ MaxSize \in Nat \ {0}
  <2>1. ids # <<>> /\ todo \in Nat \ {0}
    BY DEF IInv, TypeOK, PhaseInv, PutData
  <2>2. L \in Nat /\ ids \in Seq(Nat) /\ DOMAIN ids = 1..L /\ Placed = L /\ MaxSize \in Nat \ {0}
    BY RingFacts DEF PutData
  <2>3. L # 0
    BY <2>1, <2>2
  <2> QED BY <2>1, <2>2, <2>3 DEF Last, Range
<1> HIDE DEF L
<1>2. L \in Recent /\ Recent \subseteq DOMAIN ids
  BY <1>1, RingFacts DEF Recent
<1>3. cache[ids[L]] = SlotOf(L)
  BY <1>2 DEF IInv, CacheInv, PutData
<1>4. /\ DOMAIN buf' = DOMAIN buf \cup {SlotOf(L)}
      /\ buf'[SlotOf(L)] = index[ids[L]]
      /\ \A n \in DOMAIN buf : n # SlotOf(L) => buf'[n] = buf[n]
      /\ buf' \in [DOMAIN buf' -> Nat]
  <2>1. buf' = Put(buf, SlotOf(L), index[ids[L]])
    BY <1>1, <1>3 DEF PutData
  <2>2. index[ids[L]] \in Nat /\ buf \in [DOMAIN buf -> Nat]
    BY <1>1 DEF IInv, TypeOK, Trajectories
  <2> QED BY <2>1, <2>2 DEF Put
<1>5. /\ UNCHANGED <<MaxSize, Placed, Recent, setup, crashes, ids, index>>
      /\ \A j : SlotOf(j)' = SlotOf(j)
  <2>1. UNCHANGED <<MaxSize, Placed, setup, crashes, ids, index, lastSlot>>
    BY DEF PutData, MaxSize, Placed, indexVars
  <2> QED BY <2>1 DEF Recent, SlotOf
<1>6. BufInv'
  <2> SUFFICES ASSUME NEW j \in Recent
               PROVE  SlotOf(j) \in DOMAIN buf' /\ (Reliable => buf'[SlotOf(j)] = index[ids[j]])
    BY <1>5 DEF BufInv, Reliable, PutData, execVars
  <2>1. CASE j = L
    BY <1>4, <2>1
  <2>2. CASE j # L
    <3>1. SlotOf(j) # SlotOf(L)
      BY <1>2, <2>2, RingFacts
    <3>2. SlotOf(j) \in DOMAIN buf /\ (Reliable => buf[SlotOf(j)] = index[ids[j]])
      BY <2>2 DEF IInv, BufInv, PutData, L
    <3> QED BY <1>4, <3>1, <3>2
  <2> QED BY <2>1, <2>2
<1>7. CacheInv'
  BY <1>5 DEF IInv, CacheInv, PutData
<1>8. TypeOK'
  <2>1. todo' \in Nat
    BY <1>1 DEF PutData
  <2> QED BY <1>4, <2>1 DEF IInv, TypeOK, PutData, MaxSize, indexVars, winVars, execVars,
                            diskVars, thrVars
<1>9. PhaseInv' /\ FlushInv'
  BY DEF IInv, PhaseInv, FlushInv, PutData, thrVars
<1> QED BY <1>6, <1>7, <1>8, <1>9, KeepIds, KeepFiles, KeepCkpt, KeepSave, KeepWindow, KeepRight
        DEF IInv, PutData, indexVars, winVars, execVars, diskVars

-----------------------------------------------------------------------------
(* The save executor.                                                       *)

(* The file of a save task.                                                 *)
LEMMA SaveIdFact ==
    ASSUME NEW t, NEW id, t.ids = {id}
    PROVE  SaveId(t) = id
  BY DEF SaveId

(* A thread takes the oldest task; the file of a save is not whole until    *)
(* the save is done.                                                        *)
LEMMA ExecStartStep ==
    ASSUME IInv, ExecStart
    PROVE  IInv'
<1> DEFINE t == Head(execq)
<1>1. /\ t \in Tasks /\ execq' = Tail(execq) /\ execq' \in Seq(Tasks)
      /\ Range(execq) = {t} \cup Range(execq')
      /\ running' = running \cup {t}
  <2>1. execq \in Seq(Tasks) /\ execq # <<>> /\ execq' = Tail(execq) /\ running' = running \cup {t}
    BY DEF IInv, TypeOK, ExecStart
  <2> QED BY <2>1, TailFacts
<1>2. Submitted' = Submitted /\ t \in Submitted
  BY <1>1 DEF Submitted
<1>3. setup.autoSave
  BY DEF IInv, SaveInv, ExecStart
<1>4. ASSUME t.kind = "save"
      PROVE  \E id \in DOMAIN index :
                /\ SaveOf(t, id)
                /\ DOMAIN files' = DOMAIN files \cup {id} /\ files'[id] = Torn
                /\ \A x \in DOMAIN files : x # id => files'[x] = files[x]
                /\ files' \in [DOMAIN files' -> Nat]
  <2>1. PICK id \in DOMAIN index : SaveOf(t, id)
    BY <1>2, <1>4 DEF IInv, SaveInv
  <2>2. SaveId(t) = id
    BY <2>1, SaveIdFact DEF SaveOf
  <2>3. files' = Put(files, id, Torn) /\ files \in [DOMAIN files -> Nat]
    BY <1>4, <2>2 DEF IInv, TypeOK, ExecStart
  <2>4. /\ DOMAIN files' = DOMAIN files \cup {id} /\ files'[id] = Torn
        /\ \A x \in DOMAIN files : x # id => files'[x] = files[x]
        /\ files' \in [DOMAIN files' -> Nat]
    BY <2>3 DEF Put, Torn
  <2> QED BY <2>1, <2>4
<1>5. t.kind # "save" => files' = files
  BY DEF ExecStart
<1>6. /\ UNCHANGED <<setup, tpc, todo, futs, made, crashes, ids, index, place, loaded, counter, window,
                     current, cache, owner, buf, lastSlot, batch, saved, failed, meta, dindex, ckpt,
                     spc, pick, slot, preq>>
  BY DEF ExecStart, trainVars, indexVars, winVars, cacheVars, thrVars
<1> HIDE DEF t
<1>7. TypeOK'
  <2>1. IsFiniteSet(running') /\ Cardinality(running') <= Pool /\ running' \subseteq Tasks
    <3>1. IsFiniteSet(running) /\ Cardinality(running) \in Nat /\ Cardinality(running) < Pool
          /\ running \subseteq Tasks
      BY FS_CardinalityType DEF IInv, TypeOK, ExecStart
    <3>2. /\ IsFiniteSet(running \cup {t})
          /\ Cardinality(running \cup {t}) <= Cardinality(running) + 1
      BY <3>1, FS_AddElement
    <3>3. Cardinality(running \cup {t}) \in Nat /\ Pool \in Nat
      BY <3>2, FS_CardinalityType, ReplayAssumption
    <3> QED BY <1>1, <3>1, <3>2, <3>3
  <2>2. files' \in [DOMAIN files' -> Nat]
    BY <1>4, <1>5 DEF IInv, TypeOK
  <2> QED BY <1>1, <1>6, <2>1, <2>2 DEF IInv, TypeOK, MaxSize
<1>8. FilesInv'
  <2>1. CASE t.kind = "save"
    <3>1. DOMAIN index = Range(ids)
      BY DEF IInv, TypeOK
    <3> QED BY <1>4, <1>6, <2>1, <3>1 DEF IInv, FilesInv, Torn
  <2>2. CASE t.kind # "save"
    BY <1>5, <1>6, <2>2, KeepFiles DEF IInv
  <2> QED BY <2>1, <2>2
<1>9. SaveInv'
  <2>1. \A u, id : SaveOf(u, id)' = SaveOf(u, id)
    BY <1>6 DEF SaveOf
  <2>2. ASSUME NEW id \in DOMAIN place, place[id] = "auto"
        PROVE  \/ \E u \in Submitted : SaveOf(u, id)
               \/ id \in DOMAIN files' /\ files'[id] = index[id]
               \/ id \in failed
    <3>1. \/ \E u \in Submitted : SaveOf(u, id)
          \/ id \in DOMAIN files /\ files[id] = index[id]
          \/ id \in failed
      BY <1>3, <2>2 DEF IInv, SaveInv
    <3>2. CASE t.kind = "save"
      BY <1>2, <1>4, <3>1, <3>2
    <3>3. CASE t.kind # "save"
      BY <1>5, <3>1, <3>3
    <3> QED BY <3>2, <3>3
  <2> QED BY <1>2, <1>3, <1>6, <2>1, <2>2 DEF IInv, SaveInv, NoCheckpoint
<1>10. FlushInv'
  BY <1>2, <1>6 DEF IInv, FlushInv, Pairs, NoCheckpoint
<1>11. PhaseInv'
  BY <1>6 DEF IInv, PhaseInv, ExecStart
<1> QED BY <1>6, <1>7, <1>8, <1>9, <1>10, <1>11, KeepIds, KeepCache, KeepBuf, KeepCkpt, KeepWindow, KeepRight
        DEF IInv, cacheVars

(* A task leaves its thread.                                                *)
LEMMA RunningShrinks ==
    ASSUME IInv, NEW t \in running, running' = running \ {t}, execq' = execq
    PROVE  /\ IsFiniteSet(running') /\ Cardinality(running') <= Pool /\ running' \subseteq Tasks
           /\ Submitted' \subseteq Submitted
           /\ \A u \in Submitted : u # t => u \in Submitted'
<1>1. IsFiniteSet(running) /\ Cardinality(running) <= Pool /\ running \subseteq Tasks
  BY DEF IInv, TypeOK
<1>2. IsFiniteSet(running \ {t}) /\ Cardinality(running \ {t}) = Cardinality(running) - 1
  BY <1>1, FS_RemoveElement
<1>3. Cardinality(running) \in Nat /\ Pool \in Nat
  BY <1>1, FS_CardinalityType, ReplayAssumption
<1> QED BY <1>1, <1>2, <1>3 DEF Submitted

(* A save is done: the file holds the trajectory of its id.                 *)
LEMMA SaveDoneStep ==
    ASSUME IInv, NEW t \in running, SaveDone(t)
    PROVE  IInv'
<1>1. t.kind = "save" /\ t \in Submitted /\ running' = running \ {t} /\ execq' = execq
      /\ saved' = saved \cup {SaveId(t)} /\ files' = Put(files, SaveId(t), t.data)
  BY DEF SaveDone, Submitted
<1>2. PICK id \in DOMAIN index : SaveOf(t, id)
  BY <1>1 DEF IInv, SaveInv
<1>3. SaveId(t) = id /\ t.data = index[id] /\ t.ids = {id}
  BY <1>2, SaveIdFact DEF SaveOf
<1>4. DOMAIN index = Range(ids) /\ index[id] \in Trajectories /\ index[id] \in Nat
  BY <1>2 DEF IInv, TypeOK, Trajectories
<1>5. /\ DOMAIN files' = DOMAIN files \cup {id} /\ files'[id] = index[id]
      /\ \A x \in DOMAIN files : x # id => files'[x] = files[x]
      /\ files' \in [DOMAIN files' -> Nat]
  BY <1>1, <1>3, <1>4 DEF IInv, TypeOK, Put
<1>6. /\ UNCHANGED <<setup, tpc, todo, futs, made, crashes, ids, index, place, loaded, counter, window,
                     current, cache, owner, buf, lastSlot, batch, failed, meta, dindex, ckpt,
                     spc, pick, slot, preq>>
  BY DEF SaveDone, trainVars, indexVars, winVars, cacheVars, thrVars
<1>7. setup.autoSave
  BY DEF IInv, SaveInv
<1>8. TypeOK'
  <2>1. IsFiniteSet(running') /\ Cardinality(running') <= Pool /\ running' \subseteq Tasks
    BY <1>1, RunningShrinks
  <2>2. saved' \subseteq Range(ids)
    BY <1>1, <1>2, <1>3, <1>4 DEF IInv, TypeOK
  <2> QED BY <1>1, <1>5, <1>6, <2>1, <2>2 DEF IInv, TypeOK, MaxSize
<1>9. FilesInv'
  BY <1>2, <1>4, <1>5, <1>6 DEF IInv, FilesInv, Torn
<1>10. /\ Submitted' \subseteq Submitted
       /\ \A u \in Submitted : u # t => u \in Submitted'
  BY <1>1 DEF Submitted
<1>11. SaveInv'
  <2>1. \A u, x : SaveOf(u, x)' = SaveOf(u, x)
    BY <1>6 DEF SaveOf
  <2>2. ASSUME NEW x \in DOMAIN place, place[x] = "auto"
        PROVE  \/ \E u \in Submitted' : SaveOf(u, x)
               \/ x \in DOMAIN files' /\ files'[x] = index[x]
               \/ x \in failed
    <3>1. \/ \E u \in Submitted : SaveOf(u, x)
          \/ x \in DOMAIN files /\ files[x] = index[x]
          \/ x \in failed
      BY <1>7, <2>2 DEF IInv, SaveInv
    <3>2. CASE x = id
      BY <1>5, <3>2
    <3>3. CASE x # id
      <4>1. \A u : SaveOf(u, x) => u # t
        BY <1>3, <3>3 DEF SaveOf
      <4> QED BY <1>5, <1>10, <3>1, <3>3, <4>1
    <3> QED BY <3>2, <3>3
  <2> QED BY <1>6, <1>7, <1>10, <2>1, <2>2 DEF IInv, SaveInv, NoCheckpoint
<1>12. FlushInv'
  <2>1. \A u \in Submitted : u.kind \in {"flush", "flush_index"} => u \in Submitted'
    BY <1>1, <1>10
  <2> QED BY <1>6, <2>1 DEF IInv, FlushInv, Pairs, NoCheckpoint
<1>13. PhaseInv'
  BY <1>1, <1>6 DEF IInv, PhaseInv
<1> QED BY <1>6, <1>8, <1>9, <1>11, <1>12, <1>13, KeepIds, KeepCache, KeepBuf, KeepCkpt, KeepWindow, KeepRight
        DEF IInv, cacheVars

(* A save raises: its id joins those whose save has failed.                 *)
LEMMA SaveRaisesStep ==
    ASSUME IInv, NEW t \in running, SaveRaises(t)
    PROVE  IInv'
<1>1. /\ t.kind = "save" /\ t \in Submitted /\ running' = running \ {t} /\ execq' = execq
      /\ failed' = failed \cup {SaveId(t)}
      /\ UNCHANGED <<setup, tpc, todo, futs, made, crashes, ids, index, place, loaded, counter,
                     window, current, cache, owner, buf, lastSlot, batch, saved, files, meta,
                     dindex, ckpt, spc, pick, slot, preq>>
  BY DEF SaveRaises, Submitted, trainVars, indexVars, winVars, cacheVars, diskVars, thrVars
<1>2. PICK id \in DOMAIN index : SaveOf(t, id)
  BY <1>1 DEF IInv, SaveInv
<1>3. /\ SaveId(t) = id /\ t.ids = {id} /\ setup.autoSave
      /\ failed' = failed \cup {id} /\ failed' # {}
  BY <1>1, <1>2, SaveIdFact DEF SaveOf, IInv, SaveInv
<1>4. failed' \subseteq Nat
  <2>1. failed \subseteq Nat /\ ids \in Seq(Nat) /\ id \in Range(ids)
    BY <1>2 DEF IInv, TypeOK
  <2>2. id \in Nat
    BY <2>1 DEF Range
  <2> QED BY <1>3, <2>1, <2>2
<1>5. TypeOK'
  BY <1>1, <1>4, RunningShrinks DEF IInv, TypeOK, MaxSize
<1>6. SaveInv'
  <2>1. \A u, x : SaveOf(u, x)' = SaveOf(u, x)
    BY <1>1 DEF SaveOf
  <2>2. Submitted' \subseteq Submitted /\ \A u \in Submitted : u # t => u \in Submitted'
    BY <1>1, RunningShrinks
  <2>3. ASSUME NEW x \in DOMAIN place, place[x] = "auto"
        PROVE  \/ \E u \in Submitted' : SaveOf(u, x)
               \/ x \in DOMAIN files /\ files[x] = index[x]
               \/ x \in failed'
    <3>1. \A u : SaveOf(u, x) /\ x # id => u # t
      BY <1>3 DEF SaveOf
    <3> QED BY <1>3, <2>2, <2>3, <3>1 DEF IInv, SaveInv
  <2> QED BY <1>1, <1>3, <2>1, <2>2, <2>3 DEF IInv, SaveInv, NoCheckpoint
<1>7. FlushInv'
  BY <1>3 DEF FlushInv
<1>8. PhaseInv'
  BY <1>1, <1>3 DEF IInv, PhaseInv
<1> QED BY <1>1, <1>3, <1>5, <1>6, <1>7, <1>8, KeepIds, KeepCache, KeepBuf, KeepFiles,
           KeepCkpt, KeepWindow, KeepRight
        DEF IInv, cacheVars

(* A flush raises: a save of its batch has failed.                          *)
LEMMA FlushRaisesStep ==
    ASSUME IInv, NEW t \in running, FlushRaises(t)
    PROVE  IInv'
<1>1. /\ t.kind = "flush" /\ failed # {} /\ running' = running \ {t} /\ execq' = execq
      /\ UNCHANGED <<setup, tpc, todo, futs, made, crashes, ids, index, place, loaded, counter,
                     window, current, cache, owner, buf, lastSlot, batch, saved, failed, files,
                     meta, dindex, ckpt, spc, pick, slot, preq>>
  BY DEF FlushRaises, trainVars, indexVars, winVars, cacheVars, diskVars, thrVars
<1>2. TypeOK'
  BY <1>1, RunningShrinks DEF IInv, TypeOK, MaxSize
<1>3. SaveInv'
  <2>1. \A u, x : SaveOf(u, x)' = SaveOf(u, x)
    BY <1>1 DEF SaveOf
  <2>2. \A u, x : SaveOf(u, x) => u.kind = "save"
    BY DEF SaveOf
  <2>3. /\ Submitted' \subseteq Submitted
        /\ \A u \in Submitted : u.kind = "save" => u \in Submitted'
    BY <1>1, RunningShrinks
  <2>4. setup.autoSave
    BY DEF IInv, SaveInv
  <2>5. \A id \in DOMAIN place : place[id] = "auto" =>
          \/ \E u \in Submitted' : SaveOf(u, id)
          \/ id \in DOMAIN files /\ files[id] = index[id]
          \/ id \in failed
    BY <2>2, <2>3, <2>4 DEF IInv, SaveInv
  <2> QED BY <1>1, <2>1, <2>3, <2>4, <2>5 DEF IInv, SaveInv, NoCheckpoint
<1>4. FlushInv' /\ PhaseInv'
  BY <1>1 DEF IInv, FlushInv, PhaseInv
<1> QED BY <1>1, <1>2, <1>3, <1>4, KeepIds, KeepCache, KeepBuf, KeepFiles, KeepCkpt,
           KeepWindow, KeepRight
        DEF IInv, cacheVars

(* metadata.json is written with the counter as it is now; the same task    *)
(* goes on to the index.                                                    *)
LEMMA FlushMetaStep ==
    ASSUME IInv, NEW t \in running, FlushMeta(t)
    PROVE  IInv'
<1> DEFINE u == [t EXCEPT !.kind = "flush_index"]
<1>1. t \in Tasks /\ u \in Tasks /\ t.kind = "flush" /\ u.kind = "flush_index"
  BY DEF IInv, TypeOK, Tasks, FlushMeta
<1>2. /\ running' = (running \ {t}) \cup {u} /\ execq' = execq /\ meta' = counter
      /\ UNCHANGED <<setup, tpc, todo, futs, made, crashes, ids, index, place, loaded, counter, window,
                     current, cache, owner, buf, lastSlot, batch, saved, failed, files, dindex, ckpt,
                     spc, pick, slot, preq>>
  BY DEF FlushMeta, trainVars, indexVars, winVars, cacheVars, thrVars
<1> HIDE DEF u
<1>3. TypeOK'
  <2>1. IsFiniteSet(running') /\ Cardinality(running') <= Pool
    <3>1. IsFiniteSet(running) /\ Cardinality(running) <= Pool
      BY DEF IInv, TypeOK
    <3>2. /\ IsFiniteSet(running \ {t})
          /\ Cardinality(running \ {t}) = Cardinality(running) - 1
      BY <3>1, FS_RemoveElement
    <3>3. /\ IsFiniteSet((running \ {t}) \cup {u})
          /\ Cardinality((running \ {t}) \cup {u}) <= Cardinality(running \ {t}) + 1
      <4>1. Cardinality(running \ {t}) \in Nat
        BY <3>2, FS_CardinalityType
      <4> QED BY <3>2, <4>1, FS_AddElement
    <3>4. Cardinality(running) \in Nat /\ Cardinality((running \ {t}) \cup {u}) \in Nat /\ Pool \in Nat
      BY <3>1, <3>3, FS_CardinalityType, ReplayAssumption
    <3> QED BY <1>2, <3>1, <3>2, <3>3, <3>4
  <2>2. running' \subseteq Tasks
    BY <1>1, <1>2 DEF IInv, TypeOK
  <2> QED BY <1>2, <2>1, <2>2 DEF IInv, TypeOK, MaxSize
<1>4. /\ u \in Submitted' /\ Submitted' \subseteq Submitted \cup {u}
      /\ \A v \in Submitted : v # t => v \in Submitted'
  BY <1>2 DEF Submitted
<1>5. SaveInv'
  <2>1. \A v, x : SaveOf(v, x)' = SaveOf(v, x)
    BY <1>2 DEF SaveOf
  <2>2. \A v, x : SaveOf(v, x) => v.kind = "save"
    BY DEF SaveOf
  <2>3. /\ \A v \in Submitted : v.kind = "save" => v \in Submitted'
        /\ \A v \in Submitted' : v.kind = "save" => v \in Submitted
    BY <1>1, <1>4
  <2>4. setup.autoSave
    BY DEF IInv, SaveInv
  <2>5. \A v \in Submitted' : v.kind = "save" => \E id \in DOMAIN index' : SaveOf(v, id)'
    BY <1>2, <2>1, <2>3 DEF IInv, SaveInv
  <2>6. \A id \in DOMAIN place : place[id] = "auto" =>
          \/ \E v \in Submitted' : SaveOf(v, id)
          \/ id \in DOMAIN files /\ files[id] = index[id]
          \/ id \in failed
    BY <2>2, <2>3, <2>4 DEF IInv, SaveInv
  <2> QED BY <1>2, <2>1, <2>4, <2>5, <2>6 DEF IInv, SaveInv, NoCheckpoint
<1>6. FlushInv'
  BY <1>1, <1>2, <1>4 DEF IInv, FlushInv, Pairs, NoCheckpoint
<1>7. PhaseInv'
  BY <1>2 DEF IInv, PhaseInv
<1> QED BY <1>2, <1>3, <1>5, <1>6, <1>7, KeepIds, KeepCache, KeepBuf, KeepFiles, KeepCkpt,
           KeepWindow, KeepRight
        DEF IInv, cacheVars

(* The pairs of the index are in the order of the ids.                      *)
LEMMA PairsOrdered ==
    ASSUME IInv
    PROVE  /\ Ordered(Pairs(ids)) /\ Len(Pairs(ids)) = Len(ids) /\ DOMAIN Pairs(ids) = DOMAIN ids
           /\ \A i \in DOMAIN ids : Pairs(ids)[i] = <<ids[i], index[ids[i]]>>
           /\ \A i \in DOMAIN ids : Pairs(ids)[i][1] = ids[i] /\ Pairs(ids)[i][2] = index[ids[i]]
<1>1. ids \in Seq(Nat) /\ index \in [Range(ids) -> Trajectories]
  BY DEF IInv, TypeOK
<1>2. DOMAIN ids = 1..Len(ids) /\ Len(ids) \in Nat /\ \A i \in DOMAIN ids : ids[i] \in Nat
  BY <1>1
<1>3. \A i \in DOMAIN ids : <<ids[i], index[ids[i]]>> \in Nat \X Trajectories
  BY <1>1, <1>2 DEF Range
<1>4. /\ Pairs(ids) \in Seq(Nat \X Trajectories) /\ Len(Pairs(ids)) = Len(ids)
      /\ DOMAIN Pairs(ids) = DOMAIN ids
      /\ \A i \in DOMAIN ids : Pairs(ids)[i] = <<ids[i], index[ids[i]]>>
  BY <1>2, <1>3 DEF Pairs
<1>5. \A i \in DOMAIN ids : Pairs(ids)[i][1] = ids[i] /\ Pairs(ids)[i][2] = index[ids[i]]
  BY <1>4
<1>6. Ordered(Pairs(ids))
  BY <1>4, <1>5 DEF IInv, IdsInv, IdsUnique, Ordered
<1> QED BY <1>4, <1>5, <1>6

(* trajectory_index.json is written with the index as it is now.            *)
LEMMA FlushIndexStep ==
    ASSUME IInv, NEW t \in running, FlushIndex(t)
    PROVE  IInv'
<1>1. /\ t.kind = "flush_index" /\ running' = running \ {t} /\ execq' = execq
      /\ dindex' = Pairs(ids)
      /\ UNCHANGED <<setup, tpc, todo, futs, made, crashes, ids, index, place, loaded, counter, window,
                     current, cache, owner, buf, lastSlot, batch, saved, failed, files, meta, ckpt,
                     spc, pick, slot, preq>>
  BY DEF FlushIndex, trainVars, indexVars, winVars, cacheVars, thrVars
<1>2. TypeOK'
  <2>1. IsFiniteSet(running') /\ Cardinality(running') <= Pool /\ running' \subseteq Tasks
    BY <1>1, RunningShrinks
  <2> QED BY <1>1, <2>1 DEF IInv, TypeOK, MaxSize
<1>3. /\ Submitted' \subseteq Submitted
      /\ \A v \in Submitted : v.kind # "flush_index" => v \in Submitted'
  BY <1>1 DEF Submitted
<1>4. SaveInv'
  <2>1. \A v, x : SaveOf(v, x)' = SaveOf(v, x)
    BY <1>1 DEF SaveOf
  <2>2. \A v, x : SaveOf(v, x) => v.kind = "save"
    BY DEF SaveOf
  <2>3. setup.autoSave
    BY DEF IInv, SaveInv
  <2>4. \A id \in DOMAIN place : place[id] = "auto" =>
          \/ \E v \in Submitted' : SaveOf(v, id)
          \/ id \in DOMAIN files /\ files[id] = index[id]
          \/ id \in failed
    BY <1>3, <2>2, <2>3 DEF IInv, SaveInv
  <2> QED BY <1>1, <1>3, <2>1, <2>3, <2>4 DEF IInv, SaveInv, NoCheckpoint
<1>5. FlushInv'
  BY <1>1, <1>3 DEF IInv, FlushInv, Pairs, NoCheckpoint
<1>6. IdsInv'
  <2>1. Ordered(dindex')
    BY <1>1, PairsOrdered
  <2> QED BY <1>1, <2>1 DEF IInv, IdsInv, IdsUnique, Ordered, Checkpoint, NoCheckpoint
<1>7. PhaseInv'
  BY <1>1 DEF IInv, PhaseInv
<1> QED BY <1>1, <1>2, <1>4, <1>5, <1>6, <1>7, KeepCache, KeepBuf, KeepFiles, KeepCkpt,
           KeepWindow, KeepRight
        DEF IInv, cacheVars

-----------------------------------------------------------------------------
(* sample_chunks.                                                           *)

(* The window sampled from is the last Window ids, cached as list or not.   *)
LEMMA WindowFacts ==
    ASSUME IInv
    PROVE  /\ WindowIds = LastN(ids, Window)
           /\ \A id \in Range(WindowIds) : \E j \in DOMAIN ids : id = ids[j] /\ Len(ids) - j < Window
           /\ Range(WindowIds) \subseteq Range(ids)
<1>1. WindowIds = LastN(ids, Window)
  BY DEF IInv, WindowInv, WindowIds
<1>2. ids \in Seq(Nat) /\ Window \in Nat \ {0}
  BY ReplayAssumption DEF IInv, TypeOK
<1>3. Range(LastN(ids, Window)) = {ids[j] : j \in {i \in DOMAIN ids : Len(ids) - i < Window}}
  BY <1>2, LastNFacts
<1> QED BY <1>1, <1>3 DEF Range

(* What training draws on its own thread is what it gets.  With a cache at  *)
(* least as large as the window all of the window is cached, and the data   *)
(* of a cached id is in its slot; otherwise the file has it.                *)
LEMMA SampleStep ==
    ASSUME IInv, Sample
    PROVE  IInv'
<1>1. /\ tpc = "ready" /\ ~setup.preload /\ current' = TRUE /\ window' = WindowIds
      /\ tpc' = tpc \/ tpc' = "sample_raised"
      /\ UNCHANGED <<setup, todo, futs, made, crashes, ids, index, place, loaded, counter, cache, owner,
                     buf, lastSlot, execq, running, saved, failed, files, meta, dindex, ckpt,
                     spc, pick, slot, preq>>
  BY DEF Sample, indexVars, cacheVars, execVars, diskVars, thrVars
<1>2. PICK id \in Range(WindowIds) :
        \/ /\ id \in DOMAIN cache
           /\ batch' = [want |-> index[id], got |-> buf[cache[id]]]
           /\ tpc' = tpc
        \/ /\ id \notin DOMAIN cache /\ Loadable(id)
           /\ batch' = [want |-> index[id], got |-> File(id)[id]]
           /\ tpc' = tpc
        \/ /\ id \notin DOMAIN cache /\ ~Loadable(id)
           /\ tpc' = "sample_raised"
           /\ batch' = batch
  BY DEF Sample
<1>3. PICK j \in DOMAIN ids : id = ids[j] /\ Len(ids) - j < Window
  BY WindowFacts
<1>4. /\ Placed = Len(ids) /\ MaxSize \in Nat \ {0} /\ Recent \subseteq DOMAIN ids
      /\ DOMAIN ids = 1..Len(ids) /\ Len(ids) \in Nat /\ Window \in Nat
  BY <1>1, RingFacts, ReplayAssumption
<1>5. DOMAIN cache = {ids[i] : i \in Recent} /\ \A i \in Recent : cache[ids[i]] = SlotOf(i)
  BY <1>1 DEF IInv, CacheInv
<1>6. MaxSize >= Window => id \in DOMAIN cache
  <2> SUFFICES ASSUME MaxSize >= Window PROVE j \in Recent
    BY <1>3, <1>5
  <2> QED BY <1>3, <1>4 DEF Recent
<1>7. id \notin DOMAIN cache => MaxSize < Window
  BY <1>4, <1>6
<1>8. ASSUME Sound, id \in DOMAIN cache
      PROVE  buf[cache[id]] = index[id]
  <2>1. PICK i \in Recent : id = ids[i]
    BY <1>5, <1>8
  <2>2. Reliable
    BY <1>8 DEF IInv, TypeOK, Sound, Reliable
  <2>3. buf[SlotOf(i)] = index[ids[i]]
    BY <1>1, <2>2 DEF IInv, BufInv
  <2> QED BY <1>5, <2>1, <2>3
<1>9. ASSUME Sound, id \notin DOMAIN cache, Loadable(id)
      PROVE  File(id)[id] = index[id]
  <2>1. setup.autoSave /\ crashes = 0
    BY <1>4, <1>7, <1>9 DEF Sound, MaxSize
  <2>2. place[id] = "auto" /\ id \in DOMAIN files /\ files[id] # Torn
    BY <1>9, <2>1 DEF IInv, FilesInv, Loadable, File
  <2> QED BY <2>1, <2>2 DEF IInv, FilesInv, File
<1>10. RightSamples'
  <2>1. Sound' = Sound /\ MaxSize' = MaxSize
    BY <1>1 DEF Sound, MaxSize
  <2>2. Sound => batch'.got = batch'.want
    BY <1>1, <1>2, <1>8, <1>9 DEF IInv, RightSamples
  <2>3. tpc' = "sample_raised" => MaxSize < Window
    BY <1>1, <1>2, <1>7
  <2> QED BY <2>1, <2>2, <2>3 DEF RightSamples
<1>11. TypeOK'
  BY <1>1 DEF IInv, TypeOK, MaxSize
<1>12. WindowInv'
  BY <1>1, WindowFacts DEF WindowInv, LastN
<1>13. PhaseInv'
  BY <1>1 DEF IInv, PhaseInv
<1> QED BY <1>1, <1>10, <1>11, <1>12, <1>13, KeepIds, KeepCache, KeepBuf, KeepFiles, KeepCkpt,
           KeepSave, KeepFlush
        DEF IInv, cacheVars

(* Training waits for the sampling thread.                                  *)
LEMMA WaitBatchStep ==
    ASSUME IInv, WaitBatch
    PROVE  IInv'
<1>1. /\ tpc = "ready" /\ tpc' = "waiting" /\ setup.preload
      /\ spc' = IF spc = "idle" THEN "loop" ELSE spc
      /\ UNCHANGED <<setup, todo, futs, made, crashes, ids, index, place, loaded, counter, window,
                     current, cache, owner, buf, lastSlot, batch, execq, running, saved, failed, files,
                     meta, dindex, ckpt, pick, slot, preq>>
  BY DEF WaitBatch, indexVars, winVars, cacheVars, execVars, diskVars
<1>2. TypeOK'
  BY <1>1 DEF IInv, TypeOK, MaxSize
<1>3. PhaseInv'
  BY <1>1 DEF IInv, PhaseInv
<1> QED BY <1>1, <1>2, <1>3, KeepIds, KeepCache, KeepBuf, KeepFiles, KeepCkpt, KeepSave,
           KeepFlush, KeepWindow, KeepRight
        DEF IInv, cacheVars

(* ... and takes the batch at the head of preload_queue.                    *)
LEMMA GetBatchStep ==
    ASSUME IInv, GetBatch
    PROVE  IInv'
<1>1. /\ tpc = "waiting" /\ tpc' = "ready" /\ preq # <<>> /\ preq' = Tail(preq)
      /\ UNCHANGED <<setup, todo, futs, made, crashes, ids, index, place, loaded, counter, window,
                     current, cache, owner, buf, lastSlot, execq, running, saved, failed, files,
                     meta, dindex, ckpt, spc, pick, slot>>
  BY DEF GetBatch, indexVars, winVars, cacheVars, execVars, diskVars
<1>2. TypeOK'
  <2> DEFINE Batches == [want : Trajectories, got : Nat \cup {None}]
  <2>1. preq \in Seq(Batches) /\ Len(preq) <= Prefetch /\ Prefetch \in Nat
    BY ReplayAssumption DEF IInv, TypeOK
  <2>2. preq' \in Seq(Batches) /\ Len(preq') = Len(preq) - 1 /\ Len(preq) \in Nat
    <3> HIDE DEF Batches
    <3> QED BY <1>1, <2>1
  <2> QED BY <1>1, <2>1, <2>2 DEF IInv, TypeOK, MaxSize
<1>3. PhaseInv' /\ RightSamples'
  BY <1>1 DEF IInv, PhaseInv, RightSamples
<1> QED BY <1>1, <1>2, <1>3, KeepIds, KeepCache, KeepBuf, KeepFiles, KeepCkpt, KeepSave,
           KeepFlush, KeepWindow
        DEF IInv, cacheVars

(* The sampling thread moves nothing but its own state, the window cache    *)
(* and preload_queue.                                                       *)
LEMMA PreloadStep ==
    ASSUME IInv, Preload
    PROVE  IInv'
<1> DEFINE Batches == [want : Trajectories, got : Nat \cup {None}]
<1>1. /\ UNCHANGED <<setup, tpc, todo, futs, made, crashes, ids, index, place, loaded, counter,
                     cache, owner, buf, lastSlot, batch, execq, running, saved, failed, files,
                     meta, dindex, ckpt>>
      /\ spc # "idle"
  BY DEF Preload, PreloadWindow, PreloadMask, PreloadSlot, PreloadGather, PreloadLoad,
         trainVars, indexVars, winVars, cacheVars, execVars, diskVars
<1>2. \/ UNCHANGED <<window, current>>
      \/ window' = WindowIds /\ current' = TRUE
  BY DEF Preload, PreloadWindow, PreloadMask, PreloadSlot, PreloadGather, PreloadLoad, winVars
<1>3. WindowInv'
  <2>1. CASE UNCHANGED <<window, current>>
    BY <1>1, <2>1, KeepWindow DEF IInv
  <2>2. CASE window' = WindowIds /\ current' = TRUE
    BY <1>1, <2>2, WindowFacts DEF WindowInv, LastN
  <2> QED BY <1>2, <2>1, <2>2
<1>4. preq \in Seq(Batches) /\ Len(preq) \in Nat /\ Prefetch \in Nat
  BY ReplayAssumption DEF IInv, TypeOK
<1>5. /\ spc' \in {"loop", "mask", "slot", "gather", "load", "dead"}
      /\ spc' \in {"mask", "slot", "gather", "load"} =>
            pick' \in Range(ids) /\ Len(preq') < Prefetch
      /\ preq' \in Seq(Batches) /\ Len(preq') <= Prefetch
  <2>1. CASE PreloadWindow
    BY <1>4, <2>1, WindowFacts DEF PreloadWindow, IInv, TypeOK
  <2>2. CASE PreloadMask
    BY <1>4, <2>2 DEF PreloadMask, IInv, TypeOK
  <2>3. CASE PreloadSlot
    BY <1>4, <2>3 DEF PreloadSlot, IInv, TypeOK
  <2>4. CASE PreloadGather \/ (PreloadLoad /\ Loadable(pick))
    <3>1. pick \in Range(ids) /\ Len(preq) < Prefetch /\ index[pick] \in Trajectories
      BY <2>4 DEF IInv, TypeOK, PreloadGather, PreloadLoad
    <3>2. \A n \in DOMAIN buf : buf[n] \in Nat
      BY DEF IInv, TypeOK
    <3>3. ASSUME PreloadLoad, Loadable(pick)
          PROVE  File(pick)[pick] \in Nat
      <4>1. pick \in DOMAIN place /\ pick \in DOMAIN File(pick)
        BY <3>3 DEF Loadable
      <4>2. files \in [DOMAIN files -> Nat] /\ loaded \in [DOMAIN loaded -> Nat]
        BY DEF IInv, TypeOK
      <4> QED BY <4>1, <4>2 DEF File
    <3>4. \E b \in Batches : preq' = Append(preq, b) /\ spc' = "loop"
      BY <2>4, <3>1, <3>2, <3>3 DEF PreloadGather, PreloadLoad
    <3> HIDE DEF Batches
    <3> QED BY <1>4, <3>1, <3>4
  <2>5. CASE PreloadLoad /\ ~Loadable(pick)
    BY <1>4, <2>5 DEF PreloadLoad, IInv, TypeOK
  <2> HIDE DEF Batches
  <2> QED BY <2>1, <2>2, <2>3, <2>4, <2>5 DEF Preload
<1>6. current' \in BOOLEAN
  BY <1>2 DEF IInv, TypeOK
<1>7. TypeOK'
  BY <1>1, <1>5, <1>6 DEF IInv, TypeOK, MaxSize
<1>8. PhaseInv'
  <2>1. ids # <<>>
    <3>1. CASE PreloadWindow
      BY <3>1 DEF PreloadWindow
    <3>2. CASE spc \in {"mask", "slot", "gather", "load"}
      BY <3>2 DEF IInv, TypeOK, Range
    <3> QED BY <3>1, <3>2 DEF Preload, PreloadMask, PreloadSlot, PreloadGather, PreloadLoad
  <2> QED BY <1>1, <2>1 DEF IInv, PhaseInv
<1> QED BY <1>1, <1>3, <1>7, <1>8, KeepIds, KeepCache, KeepBuf, KeepFiles, KeepCkpt, KeepSave,
           KeepFlush, KeepRight
        DEF IInv, cacheVars

-----------------------------------------------------------------------------
(* Checkpoints, deaths and restarts.                                        *)

(* A checkpoint holds the index, in order, and nothing but right data.      *)
LEMMA SaveCheckpointStep ==
    ASSUME IInv, SaveCheckpoint
    PROVE  IInv'
<1>1. /\ tpc = "ready"
      /\ UNCHANGED <<setup, tpc, todo, futs, made, crashes, ids, index, place, loaded, counter, window,
                     current, cache, owner, buf, lastSlot, batch, execq, running, saved, failed, files,
                     meta, dindex, spc, pick, slot, preq>>
  BY DEF SaveCheckpoint, trainVars, indexVars, winVars, cacheVars, execVars, diskVars, thrVars
<1>2. /\ ckpt'.saved = TRUE /\ ckpt'.files = CheckpointFiles /\ ckpt'.list = Pairs(ids)
      /\ ckpt'.counter = counter
  BY DEF SaveCheckpoint
<1>3. ckpt' # NoCheckpoint
  BY <1>2 DEF NoCheckpoint
<1>4. ASSUME ~setup.autoSave
      PROVE  /\ DOMAIN CheckpointFiles = {ids[j] : j \in Recent}
             /\ failed = {} => \A j \in Recent : CheckpointFiles[ids[j]] = index[ids[j]]
             /\ \A j \in Recent : CheckpointFiles[ids[j]] \in Nat
  <2>1. CheckpointFiles = [id \in DOMAIN cache |-> buf[cache[id]]]
    BY <1>4 DEF CheckpointFiles
  <2>2. DOMAIN cache = {ids[j] : j \in Recent} /\ \A j \in Recent : cache[ids[j]] = SlotOf(j)
    BY <1>1 DEF IInv, CacheInv
  <2>3. \A j \in Recent : /\ SlotOf(j) \in DOMAIN buf
                          /\ failed = {} => buf[SlotOf(j)] = index[ids[j]]
    BY <1>1, <1>4 DEF IInv, BufInv, Reliable
  <2>4. buf \in [DOMAIN buf -> Nat]
    BY DEF IInv, TypeOK
  <2> QED BY <2>1, <2>2, <2>3, <2>4
<1>5. setup.autoSave => /\ DOMAIN CheckpointFiles \subseteq DOMAIN files
                        /\ \A id \in DOMAIN CheckpointFiles : CheckpointFiles[id] = files[id]
  BY DEF CheckpointFiles
<1>6. CheckpointFiles \in [DOMAIN CheckpointFiles -> Nat]
  <2>1. CheckpointFiles = [id \in DOMAIN CheckpointFiles |-> CheckpointFiles[id]]
    BY DEF CheckpointFiles
  <2>2. ASSUME NEW id \in DOMAIN CheckpointFiles PROVE CheckpointFiles[id] \in Nat
    <3>1. CASE setup.autoSave
      BY <1>5, <3>1 DEF IInv, TypeOK
    <3>2. CASE ~setup.autoSave
      BY <1>4, <3>2
    <3> QED BY <3>1, <3>2
  <2> QED BY <2>1, <2>2
<1>7. IdsInv'
  <2>1. Checkpoint(ckpt')
    <3>1. counter \in Nat /\ \A i \in DOMAIN ids : ids[i] < counter
      BY DEF IInv, TypeOK, IdsInv, IdsUnique
    <3> QED BY <1>2, <1>6, <3>1, PairsOrdered DEF Checkpoint
  <2>2. Checkpoint(ckpt)'
    BY <2>1 DEF Checkpoint, Ordered, Trajectories
  <2>3. IdsUnique' /\ Ordered(dindex)'
    BY <1>1 DEF IInv, IdsInv, IdsUnique, Ordered, Trajectories
  <2> QED BY <1>2, <2>2, <2>3 DEF IdsInv
<1>8. CkptInv'
  <2>1. ASSUME ~setup.autoSave, failed = {}, NEW j \in DOMAIN ids, Len(ids) - j < Window
        PROVE  ids[j] \in DOMAIN CheckpointFiles /\ CheckpointFiles[ids[j]] = index[ids[j]]
    <3>1. Placed = Len(ids) /\ MaxSize = Window /\ DOMAIN ids = 1..Len(ids)
      BY <1>1, <2>1, RingFacts DEF MaxSize
    <3>2. j \in Recent
      BY <2>1, <3>1 DEF Recent
    <3> QED BY <1>4, <2>1, <3>2
  <2>2. ASSUME setup.autoSave, crashes = 0, NEW id \in DOMAIN CheckpointFiles
        PROVE  CheckpointFiles[id] \in {Torn, index[id]}
    BY <1>5, <2>2 DEF IInv, FilesInv
  <2> QED BY <1>1, <1>2, <2>1, <2>2, PairsOrdered DEF CkptInv, Torn
<1>9. SaveInv'
  <2>1. UNCHANGED Submitted /\ \A u, id : SaveOf(u, id)' = SaveOf(u, id)
    BY <1>1 DEF Submitted, SaveOf
  <2> QED BY <1>1, <1>3, <2>1 DEF IInv, SaveInv, NoCheckpoint
<1>10. FlushInv'
  BY <1>3 DEF FlushInv, NoCheckpoint
<1>11. TypeOK' /\ PhaseInv'
  BY <1>1 DEF IInv, TypeOK, PhaseInv, MaxSize
<1> QED BY <1>1, <1>7, <1>8, <1>9, <1>10, <1>11, KeepCache, KeepBuf, KeepFiles, KeepWindow, KeepRight
        DEF IInv, cacheVars

(* A crash leaves the disk.                                                 *)
LEMMA CrashStep ==
    ASSUME IInv, Crash
    PROVE  IInv'
<1>1. /\ tpc' = "down" /\ crashes' = crashes + 1 /\ todo' = 0 /\ futs' = {}
      /\ ids' = <<>> /\ index' = Empty /\ place' = Empty /\ loaded' = Empty
      /\ counter' = 0 /\ failed' = (IF setup.autoSave THEN {} ELSE failed) /\ current' = FALSE /\ cache' = Empty /\ owner' = Empty /\ buf' = Empty
      /\ lastSlot' = 0 /\ execq' = <<>> /\ running' = {} /\ saved' = {} /\ batch' = NoBatch
      /\ spc' = "idle" /\ preq' = <<>>
      /\ UNCHANGED <<setup, made, files, meta, dindex, ckpt>>
  BY DEF Crash, diskVars
<1>2. DOMAIN Empty = {} /\ Range(<<>>) = {} /\ DOMAIN <<>> = {} /\ Len(<<>>) = 0
  BY DEF Empty, Range
<1>3. MaxSize' = MaxSize /\ MaxSize \in Nat \ {0} /\ Prefetch \in Nat /\ Pool \in Nat
  BY <1>1, RingFacts, ReplayAssumption DEF MaxSize
<1>4. crashes \in Nat /\ crashes' \in 0..MaxCrashes
  BY ReplayAssumption DEF IInv, TypeOK, Crash
<1>5. TypeOK'
  <2>1. /\ Empty \in [{} -> Trajectories] /\ Empty \in [{} -> {"auto", "loaded"}]
        /\ Empty \in [{} -> Nat]
    BY DEF Empty
  <2>2. IsFiniteSet({}) /\ Cardinality({}) = 0
    BY FS_EmptySet
  <2>3. lastSlot' \in 0..(MaxSize' - 1)
    BY <1>1, <1>3
  <2>4. /\ ids' \in Seq(Nat) /\ execq' \in Seq(Tasks) /\ running' \subseteq Tasks
        /\ index' \in [Range(ids') -> Trajectories]
        /\ DOMAIN place' \subseteq Range(ids') /\ DOMAIN cache' \subseteq Range(ids')
        /\ place' \in [DOMAIN place' -> {"auto", "loaded"}]
        /\ loaded' \in [DOMAIN loaded' -> Nat]
        /\ buf' \in [DOMAIN buf' -> Nat] /\ saved' \subseteq Range(ids')
    BY <1>1, <1>2, <2>1
  <2>5. preq' \in Seq([want : Trajectories, got : Nat \cup {None}]) /\ Len(preq') <= Prefetch
    BY <1>1, <1>2, <1>3
  <2>6. IsFiniteSet(running') /\ Cardinality(running') <= Pool
    BY <1>1, <1>3, <2>2
  <2>7. failed' \subseteq Nat
    BY <1>1 DEF IInv, TypeOK
  <2> QED BY <1>1, <1>4, <2>3, <2>4, <2>5, <2>6, <2>7 DEF IInv, TypeOK
<1>6. IdsInv'
  <2>1. IdsUnique'
    BY <1>1, <1>2 DEF IdsUnique
  <2> QED BY <1>1, <1>2, <2>1 DEF IInv, IdsInv, Ordered, Checkpoint, Trajectories, NoCheckpoint
<1>7. Placed' = 0 /\ Recent' = {}
  BY <1>1, <1>2 DEF Placed, Recent
<1>8. CacheInv' /\ BufInv'
  BY <1>1, <1>2, <1>7 DEF CacheInv, BufInv
<1>9. FilesInv'
  BY <1>1, <1>4 DEF FilesInv
<1>10. CkptInv'
  BY <1>1, <1>4 DEF IInv, CkptInv, Torn
<1>11. SaveInv' /\ FlushInv' /\ WindowInv'
  BY <1>1, <1>2 DEF SaveInv, FlushInv, WindowInv, Submitted
<1>12. PhaseInv' /\ RightSamples'
  BY <1>1, <1>4 DEF PhaseInv, RightSamples, NoBatch
<1> QED BY <1>5, <1>6, <1>8, <1>9, <1>10, <1>11, <1>12 DEF IInv

(* What load_checkpoint restores from a list in order of ids: the list, its *)
(* index, and, if every file of the most recent ids can be read, a cache of *)
(* them in the order of the list.                                           *)
LEMMA LoadFacts ==
    ASSUME NEW s, Ordered(s), NEW c, NEW fs, fs \in [DOMAIN fs -> Nat],
           NEW size \in Nat \ {0}, MaxSize' = size,
           LoadCheckpoint(s, c, fs, size)
    PROVE  /\ ids' \in Seq(Nat) /\ Len(ids') = Len(s) /\ Len(s) \in Nat
           /\ DOMAIN s = 1..Len(s) /\ DOMAIN ids' = DOMAIN s
           /\ \A i \in DOMAIN s : ids'[i] = s[i][1] /\ s[i][1] \in Nat
           /\ index' \in [Range(ids') -> Trajectories]
           /\ \A i \in DOMAIN s : index'[ids'[i]] = s[i][2]
           /\ counter' = c
           /\ place' = [id \in Range(ids') |-> "loaded"] /\ loaded' = fs
           /\ \/ /\ tpc' = "load_raised" /\ cache' = Empty /\ buf' = Empty /\ lastSlot' = 0
                 /\ \E j \in DOMAIN s : /\ Len(s) - j < size
                                        /\ ~(s[j][1] \in DOMAIN fs /\ fs[s[j][1]] # Torn)
              \/ /\ tpc' = "ready" /\ CacheInv' /\ lastSlot' \in 0..(size - 1)
                 /\ DOMAIN cache' \subseteq Range(ids') /\ buf' \in [DOMAIN buf' -> Nat]
                 /\ \A j \in Recent' : /\ j \in DOMAIN s /\ Len(s) - j < size
                                       /\ SlotOf(j)' \in DOMAIN buf'
                                       /\ s[j][1] \in DOMAIN fs /\ fs[s[j][1]] # Torn
                                       /\ buf'[SlotOf(j)'] = fs[s[j][1]]
<1> DEFINE list == [i \in DOMAIN s |-> s[i][1]]
           recent == LastN(list, size)
           at == [id \in Range(recent) |-> (CHOOSE i \in DOMAIN recent : recent[i] = id) - 1]
           n == Len(s)
           k == Len(recent)
<1>1. /\ n \in Nat /\ DOMAIN s = 1..n
      /\ \A i \in DOMAIN s : s[i] \in Nat \X Trajectories
      /\ \A i \in DOMAIN s : s[i][1] \in Nat /\ s[i][2] \in Trajectories
      /\ \A i, j \in DOMAIN s : i < j => s[i][1] < s[j][1]
  BY DEF Ordered
<1>2. /\ list \in Seq(Nat) /\ Len(list) = n /\ DOMAIN list = DOMAIN s
      /\ \A i \in DOMAIN s : list[i] = s[i][1]
  BY <1>1
<1>3. /\ ids' = list /\ counter' = c
      /\ place' = [id \in Range(list) |-> "loaded"] /\ loaded' = fs
      /\ index' = [id \in Range(list) |-> (CHOOSE e \in Range(s) : e[1] = id)[2]]
  BY DEF LoadCheckpoint
<1>4. IF \A id \in Range(recent) : id \in DOMAIN fs /\ fs[id] # Torn
      THEN /\ tpc' = "ready"
           /\ cache' = at
           /\ owner' = [m \in Range(at) |-> recent[m + 1]]
           /\ buf' = [m \in Range(at) |-> fs[recent[m + 1]]]
           /\ lastSlot' = Len(recent) % size
      ELSE tpc' = "load_raised" /\ cache' = Empty /\ buf' = Empty /\ lastSlot' = 0
  BY DEF LoadCheckpoint
<1> HIDE DEF list, n
<1>5. \A i, j \in DOMAIN s : s[i][1] = s[j][1] => i = j
  BY <1>1
<1>6. /\ index' \in [Range(ids') -> Trajectories]
      /\ \A i \in DOMAIN s : index'[ids'[i]] = s[i][2]
  <2>1. ASSUME NEW i \in DOMAIN s
        PROVE  (CHOOSE e \in Range(s) : e[1] = list[i])[2] = s[i][2]
    <3>1. s[i] \in Range(s) /\ s[i][1] = list[i]
      BY <1>2 DEF Range
    <3>2. \A e \in Range(s) : e[1] = list[i] => e = s[i]
      BY <1>2, <1>5 DEF Range
    <3> QED BY <3>1, <3>2
  <2>2. \A i \in DOMAIN s : list[i] \in Range(list)
    BY <1>2 DEF Range
  <2>3. \A i \in DOMAIN s : index'[list[i]] = s[i][2]
    BY <1>3, <2>1, <2>2
  <2>4. \A id \in Range(list) : \E i \in DOMAIN s : id = list[i]
    BY <1>2 DEF Range
  <2>5. \A id \in Range(list) : index'[id] \in Trajectories
    BY <1>1, <2>3, <2>4
  <2>6. index' = [id \in Range(list) |-> index'[id]] /\ ids' = list
    BY <1>3
  <2> QED BY <2>3, <2>5, <2>6
<1>7. /\ recent \in Seq(Nat) /\ DOMAIN recent = 1..k /\ k = IF n > size THEN size ELSE n
      /\ k \in Nat /\ n - k \in Nat
      /\ \A i \in 1..k : recent[i] = list[n - k + i]
      /\ Range(recent) = {list[j] : j \in {i \in DOMAIN s : n - i < size}}
  <2>0. list \in Seq(Nat) /\ size \in Nat \ {0}
    BY <1>2
  <2>1. /\ recent \in Seq(Nat) /\ DOMAIN recent = 1..Len(recent)
        /\ Len(recent) = IF Len(list) > size THEN size ELSE Len(list)
        /\ Len(list) - Len(recent) \in Nat
    BY <2>0, LastNFacts
  <2>2. \A i \in 1..Len(recent) : recent[i] = list[Len(list) - Len(recent) + i]
    BY <2>0, LastNFacts
  <2>3. Range(recent) = {list[j] : j \in {i \in DOMAIN list : Len(list) - i < size}}
    BY <2>0, LastNFacts
  <2> QED BY <1>1, <1>2, <2>1, <2>2, <2>3 DEF k
<1> HIDE DEF recent, k
<1>8. \A i \in 1..k : n - k + i \in DOMAIN s /\ n - (n - k + i) < size
  BY <1>1, <1>7
<1>9. \A i, j \in 1..k : recent[i] = recent[j] => i = j
  <2> SUFFICES ASSUME NEW i \in 1..k, NEW j \in 1..k, recent[i] = recent[j] PROVE i = j
    OBVIOUS
  <2> DEFINE a == n - k + i
             b == n - k + j
  <2>0. a \in DOMAIN s /\ b \in DOMAIN s /\ list[a] = list[b]
    BY <1>7, <1>8
  <2> HIDE DEF a, b
  <2>2. a = b
    BY <1>2, <1>5, <2>0
  <2>1. n - k + i = n - k + j
    BY <2>2 DEF a, b
  <2> QED BY <1>1, <1>7, <2>1
<1>10. /\ DOMAIN at = Range(recent)
       /\ \A i \in 1..k : recent[i] \in Range(recent) /\ at[recent[i]] = i - 1
       /\ Range(at) = 0..(k - 1)
  <2>1. DOMAIN at = Range(recent)
    OBVIOUS
  <2>2. \A i \in 1..k : recent[i] \in Range(recent)
    BY <1>7 DEF Range
  <2>3. ASSUME NEW i \in 1..k PROVE at[recent[i]] = i - 1
    <3>1. (CHOOSE j \in DOMAIN recent : recent[j] = recent[i]) = i
      BY <1>7, <1>9
    <3> QED BY <2>2, <3>1
  <2>4. \A x \in Range(recent) : \E i \in 1..k : x = recent[i]
    BY <1>7 DEF Range
  <2> HIDE DEF at
  <2>5. Range(at) \subseteq 0..(k - 1)
    <3> SUFFICES ASSUME NEW x \in Range(recent) PROVE at[x] \in 0..(k - 1)
      BY <2>1 DEF Range
    <3>1. PICK i \in 1..k : x = recent[i]
      BY <2>4
    <3> QED BY <1>7, <2>3, <3>1
  <2>6. 0..(k - 1) \subseteq Range(at)
    <3> SUFFICES ASSUME NEW m \in 0..(k - 1) PROVE m \in Range(at)
      OBVIOUS
    <3>1. m + 1 \in 1..k /\ (m + 1) - 1 = m
      BY <1>7
    <3>2. recent[m + 1] \in DOMAIN at /\ at[recent[m + 1]] = m
      BY <2>1, <2>2, <2>3, <3>1
    <3> QED BY <3>2 DEF Range
  <2> QED BY <2>1, <2>2, <2>3, <2>5, <2>6
<1> HIDE DEF at
<1>11. CASE \E id \in Range(recent) : ~(id \in DOMAIN fs /\ fs[id] # Torn)
  <2>1. tpc' = "load_raised" /\ cache' = Empty /\ buf' = Empty /\ lastSlot' = 0
    BY <1>4, <1>11
  <2>2. \E j \in DOMAIN s : n - j < size /\ ~(s[j][1] \in DOMAIN fs /\ fs[s[j][1]] # Torn)
    <3>1. PICK id \in Range(recent) : ~(id \in DOMAIN fs /\ fs[id] # Torn)
      BY <1>11
    <3>2. PICK j \in DOMAIN s : n - j < size /\ id = list[j]
      BY <1>7
    <3> QED BY <1>2, <3>1, <3>2
  <2> QED BY <1>1, <1>2, <1>3, <1>6, <2>1, <2>2 DEF n
<1>12. CASE \A id \in Range(recent) : id \in DOMAIN fs /\ fs[id] # Torn
  <2>1. /\ tpc' = "ready" /\ cache' = at
        /\ owner' = [m \in Range(at) |-> recent[m + 1]]
        /\ buf' = [m \in Range(at) |-> fs[recent[m + 1]]]
        /\ lastSlot' = k % size
    BY <1>4, <1>12 DEF k
  <2>2. /\ lastSlot' = IF k = size THEN 0 ELSE k
        /\ lastSlot' \in 0..(size - 1)
    <3>1. k \in 0..size
      BY <1>1, <1>7
    <3>2. \A a \in 0..size : a % size = IF a = size THEN 0 ELSE a
      OBVIOUS
    <3> QED BY <2>1, <3>1, <3>2
  <2>3. Placed' = n /\ Recent' = {j \in 1..n : n - j < size}
    <3>1. Len(ids') = n /\ tpc' # "indexed"
      BY <1>2, <1>3, <2>1
    <3>2. Placed' = n - 0
      BY <3>1 DEF Placed
    <3>3. Placed' = n
      BY <1>1, <3>2
    <3> QED BY <3>3 DEF Recent
  <2>4. ASSUME NEW j \in Recent'
        PROVE  /\ j - (n - k) \in 1..k /\ SlotOf(j)' = j - (n - k) - 1
               /\ ids'[j] = recent[j - (n - k)]
    <3>1. j \in 1..n /\ n - j < size
      BY <2>3
    <3>2. j - (n - k) \in 1..k /\ n - k + (j - (n - k)) = j
      <4>1. j \in Int /\ n \in Int /\ k \in Int /\ n - j < size /\ j <= n /\ size \in Int
        BY <1>1, <1>7, <3>1
      <4>2. (k = size /\ n > size) \/ k = n
        BY <1>1, <1>7
      <4>3. 1 <= j /\ k <= n
        BY <1>1, <1>7, <3>1
      <4> QED BY <4>1, <4>2, <4>3
    <3>3. SlotOf(j)' = LET x == lastSlot' - (n + 1 - j) IN IF x >= 0 THEN x ELSE x + size
      BY <2>3 DEF SlotOf
    <3>4. SlotOf(j)' = j - (n - k) - 1
      <4>1. CASE n >= size
        <5>1. k = size /\ lastSlot' = 0
          BY <1>1, <1>7, <2>2, <4>1
        <5> QED BY <1>1, <3>1, <3>3, <5>1
      <4>2. CASE n < size
        <5>1. k = n /\ lastSlot' = n
          BY <1>1, <1>7, <2>2, <4>2
        <5> QED BY <1>1, <3>1, <3>3, <5>1
      <4> QED BY <1>1, <4>1, <4>2
    <3> QED BY <1>3, <1>7, <3>2, <3>4
  <2>5. \A i \in 1..k : n - k + i \in Recent' /\ ids'[n - k + i] = recent[i]
    BY <1>1, <1>3, <1>7, <1>8, <2>3
  <2>6. DOMAIN cache' = {ids'[j] : j \in Recent'}
    <3>1. ASSUME NEW x \in DOMAIN cache' PROVE x \in {ids'[j] : j \in Recent'}
      <4>1. PICK i \in 1..k : x = recent[i]
        BY <1>7, <1>10, <2>1, <3>1 DEF Range
      <4> QED BY <2>5, <4>1
    <3>2. ASSUME NEW j \in Recent' PROVE ids'[j] \in DOMAIN cache'
      BY <1>10, <2>1, <2>4
    <3> QED BY <3>1, <3>2
  <2>7. ASSUME NEW j \in Recent'
        PROVE  cache'[ids'[j]] = SlotOf(j)' /\ SlotOf(j)' \in 0..(k - 1)
    <3> DEFINE i == j - (n - k)
    <3>1. i \in 1..k /\ SlotOf(j)' = i - 1 /\ ids'[j] = recent[i]
      BY <2>4
    <3> HIDE DEF i
    <3>2. i - 1 \in 0..(k - 1)
      BY <1>7, <3>1
    <3> QED BY <1>10, <2>1, <3>1, <3>2
  <2>8. DOMAIN owner' = 0..(k - 1) /\ DOMAIN buf' = 0..(k - 1)
    BY <1>10, <2>1
  <2>9. ASSUME NEW m \in DOMAIN owner'
        PROVE  owner'[m] \in DOMAIN cache' /\ cache'[owner'[m]] = m
    <3>1. m + 1 \in 1..k /\ (m + 1) - 1 = m
      BY <1>7, <2>8
    <3>2. owner'[m] = recent[m + 1]
      BY <2>1, <2>8, <2>9
    <3> QED BY <1>10, <2>1, <3>1, <3>2
  <2>10. CacheInv'
    BY <2>6, <2>7, <2>8, <2>9 DEF CacheInv
  <2>11. ASSUME NEW j \in Recent'
         PROVE  /\ j \in DOMAIN s /\ n - j < size
                /\ s[j][1] \in DOMAIN fs /\ fs[s[j][1]] # Torn
                /\ buf'[SlotOf(j)'] = fs[s[j][1]]
    <3>1. j \in DOMAIN s /\ n - j < size
      BY <1>1, <2>3
    <3>2. s[j][1] = recent[j - (n - k)] /\ recent[j - (n - k)] \in Range(recent)
      BY <1>2, <1>3, <1>10, <2>4, <3>1
    <3>3. SlotOf(j)' + 1 = j - (n - k)
      BY <1>1, <1>7, <2>3, <2>4
    <3>4. buf'[SlotOf(j)'] = fs[recent[SlotOf(j)' + 1]]
      BY <1>10, <2>1, <2>7
    <3> QED BY <1>12, <3>1, <3>2, <3>3, <3>4
  <2>12. buf' \in [DOMAIN buf' -> Nat]
    <3>1. \A m \in 0..(k - 1) : recent[m + 1] \in DOMAIN fs
      <4>1. \A m \in 0..(k - 1) : m + 1 \in 1..k
        BY <1>7
      <4> QED BY <1>10, <1>12, <4>1
    <3> QED BY <1>10, <2>1, <3>1
  <2>13. DOMAIN cache' \subseteq Range(ids')
    BY <1>1, <1>2, <1>3, <2>3, <2>6 DEF Range
  <2> QED BY <1>1, <1>2, <1>3, <1>6, <2>1, <2>2, <2>7, <2>8, <2>10, <2>11, <2>12, <2>13 DEF n
<1> QED BY <1>11, <1>12

(* A restart without checkpoint begins anew; with one it resumes.           *)
LEMMA RestartStep ==
    ASSUME IInv, Restart
    PROVE  IInv'
<1>1. /\ tpc = "down" /\ ids = <<>> /\ execq = <<>> /\ running = {} /\ current = FALSE
      /\ crashes \in Nat \ {0}
      /\ UNCHANGED <<setup, todo, futs, made, crashes, window, current, batch, execq, running,
                     saved, failed, files, meta, dindex, ckpt, spc, pick, slot, preq>>
  BY DEF IInv, TypeOK, PhaseInv, Restart, winVars, execVars, diskVars, thrVars
<1>2. MaxSize' = MaxSize /\ MaxSize \in Nat \ {0}
  BY <1>1, RingFacts DEF MaxSize
<1>3. Range(ids) = {}
  BY <1>1 DEF Range
<1>4. CASE ~ckpt.saved
  <2>1. tpc' = "ready" /\ UNCHANGED <<ids, index, place, loaded, counter, cache, owner, buf, lastSlot>>
    BY <1>4 DEF Restart, indexVars, cacheVars
  <2>2. TypeOK'
    BY <1>1, <1>2, <2>1 DEF IInv, TypeOK
  <2>3. PhaseInv'
    BY <1>1, <2>1 DEF IInv, PhaseInv
  <2> QED BY <1>1, <2>1, <2>2, <2>3, KeepIds, KeepCache, KeepBuf, KeepFiles, KeepCkpt, KeepSave,
             KeepFlush, KeepWindow, KeepRight
          DEF IInv, cacheVars
<1>5. CASE ckpt.saved
  <2> DEFINE s == ckpt.list
  <2>1. LoadCheckpoint(ckpt.list, ckpt.counter, ckpt.files, MaxSize)
    BY <1>5 DEF Restart
  <2>2. /\ ckpt # NoCheckpoint /\ ckpt.counter \in Nat /\ Ordered(ckpt.list)
        /\ \A i \in DOMAIN s : s[i][1] < ckpt.counter
        /\ ckpt.files \in [DOMAIN ckpt.files -> Nat]
    BY <1>5 DEF IInv, IdsInv, Checkpoint, NoCheckpoint
  <2>3. /\ ids' \in Seq(Nat) /\ Len(ids') = Len(s) /\ Len(s) \in Nat
        /\ DOMAIN s = 1..Len(s) /\ DOMAIN ids' = DOMAIN s
        /\ \A i \in DOMAIN s : ids'[i] = s[i][1] /\ s[i][1] \in Nat
        /\ index' \in [Range(ids') -> Trajectories]
        /\ \A i \in DOMAIN s : index'[ids'[i]] = s[i][2]
        /\ counter' = ckpt.counter
        /\ place' = [id \in Range(ids') |-> "loaded"] /\ loaded' = ckpt.files
    BY <1>2, <2>1, <2>2, LoadFacts
  <2>4. \/ /\ tpc' = "load_raised" /\ cache' = Empty /\ buf' = Empty /\ lastSlot' = 0
           /\ \E j \in DOMAIN s : /\ Len(s) - j < MaxSize
                                  /\ ~(s[j][1] \in DOMAIN ckpt.files /\ ckpt.files[s[j][1]] # Torn)
        \/ /\ tpc' = "ready" /\ CacheInv' /\ lastSlot' \in 0..(MaxSize - 1)
           /\ DOMAIN cache' \subseteq Range(ids') /\ buf' \in [DOMAIN buf' -> Nat]
           /\ \A j \in Recent' :
                 /\ j \in DOMAIN s /\ Len(s) - j < MaxSize
                 /\ SlotOf(j)' \in DOMAIN buf'
                 /\ s[j][1] \in DOMAIN ckpt.files /\ ckpt.files[s[j][1]] # Torn
                 /\ buf'[SlotOf(j)'] = ckpt.files[s[j][1]]
    BY <1>2, <2>1, <2>2, LoadFacts
  <2> HIDE DEF s
  <2>5. /\ ~setup.autoSave /\ failed = {} => \A j \in DOMAIN s : Len(s) - j < MaxSize =>
              s[j][1] \in DOMAIN ckpt.files /\ ckpt.files[s[j][1]] = s[j][2]
        /\ setup.autoSave /\ crashes <= 1 =>
              \A j \in DOMAIN s : s[j][1] \in DOMAIN ckpt.files =>
                 ckpt.files[s[j][1]] \in {Torn, s[j][2]}
    <3>1. crashes <= 1 => crashes = 1
      BY <1>1
    <3>2. ~setup.autoSave => MaxSize = Window
      BY DEF MaxSize
    <3> QED BY <1>1, <1>5, <3>1, <3>2 DEF IInv, CkptInv, s
  <2>6. \A j \in DOMAIN s : s[j][2] # Torn
    BY <2>2 DEF Ordered, s, Trajectories, Torn
  <2>7. tpc' = "load_raised" => setup.autoSave \/ failed # {}
    BY <2>4, <2>5, <2>6
  <2>8. TypeOK'
    <3>1. /\ DOMAIN cache' \subseteq Range(ids') /\ buf' \in [DOMAIN buf' -> Nat]
          /\ lastSlot' \in 0..(MaxSize - 1) /\ tpc' \in {"load_raised", "ready"}
      <4>1. CASE tpc' = "load_raised"
        <5>1. DOMAIN Empty = {} /\ Empty \in [{} -> Nat]
          BY DEF Empty
        <5> QED BY <1>2, <2>4, <4>1, <5>1
      <4>2. CASE tpc' = "ready"
        BY <2>4, <4>2
      <4> QED BY <2>4, <4>1, <4>2
    <3>2. saved = {} /\ spc \notin {"mask", "slot", "gather", "load"}
      BY <1>3 DEF IInv, TypeOK
    <3>3. /\ place' \in [DOMAIN place' -> {"auto", "loaded"}] /\ DOMAIN place' \subseteq Range(ids')
      BY <2>3
    <3> QED BY <1>1, <1>2, <2>2, <2>3, <3>1, <3>2, <3>3 DEF IInv, TypeOK
  <2>9. IdsInv'
    <3>1. IdsUnique'
      <4>1. /\ \A i, j \in DOMAIN s : i < j => s[i][1] < s[j][1]
            /\ \A i \in DOMAIN s : s[i][1] < ckpt.counter
        BY <2>2 DEF Ordered, s
      <4>2. /\ DOMAIN ids' = DOMAIN s /\ counter' = ckpt.counter
            /\ \A i \in DOMAIN s : ids'[i] = s[i][1]
        BY <2>3
      <4> QED BY <4>1, <4>2 DEF IdsUnique
    <3> QED BY <1>1, <1>5, <3>1 DEF IInv, IdsInv, Ordered, Checkpoint, Trajectories, NoCheckpoint
  <2>10. CacheInv'
    BY <2>4 DEF CacheInv
  <2>11. BufInv'
    <3> SUFFICES ASSUME tpc' = "ready", NEW j \in Recent'
                 PROVE  /\ SlotOf(j)' \in DOMAIN buf'
                        /\ Reliable => buf'[SlotOf(j)'] = index'[ids'[j]]
      BY <1>1, <2>4 DEF BufInv, Reliable
    <3>1. /\ j \in DOMAIN s /\ Len(s) - j < MaxSize
          /\ SlotOf(j)' \in DOMAIN buf'
          /\ s[j][1] \in DOMAIN ckpt.files /\ ckpt.files[s[j][1]] # Torn
          /\ buf'[SlotOf(j)'] = ckpt.files[s[j][1]]
      BY <2>4
    <3>2. Reliable => ckpt.files[s[j][1]] = s[j][2]
      BY <2>5, <3>1 DEF Reliable
    <3> QED BY <2>3, <3>1, <3>2
  <2>12. FilesInv'
    BY <1>1 DEF FilesInv
  <2>13. SaveInv' /\ FlushInv' /\ WindowInv'
    <3>1. Submitted' = {}
      BY <1>1 DEF Submitted, Range
    <3>2. ckpt' # NoCheckpoint /\ NoCheckpoint' = NoCheckpoint
      BY <1>1, <2>2 DEF NoCheckpoint
    <3>3. \A id \in DOMAIN place' : place'[id] # "auto"
      BY <2>3
    <3> QED BY <1>1, <3>1, <3>2, <3>3 DEF SaveInv, FlushInv, WindowInv, NoCheckpoint
  <2>14. PhaseInv'
    BY <1>1, <2>4, <2>7 DEF IInv, PhaseInv
  <2> QED BY <1>1, <2>4, <2>8, <2>9, <2>10, <2>11, <2>12, <2>13, <2>14, KeepCkpt, KeepRight
          DEF IInv
<1> QED BY <1>4, <1>5

-----------------------------------------------------------------------------
(* A collector closes its data set, and a rank loads its part.              *)

(* Nothing but the phase changes while the executor is shut down.           *)
LEMMA CloseStep ==
    ASSUME IInv, Close \/ Closed
    PROVE  IInv'
<1>1. /\ tpc \in {"ready", "closing"} /\ tpc' \in {"closing", "closed"}
      /\ UNCHANGED <<setup, todo, futs, made, crashes, ids, index, place, loaded, counter, window,
                     current, cache, owner, buf, lastSlot, batch, execq, running, saved, failed, files,
                     meta, dindex, ckpt, spc, pick, slot, preq>>
  BY DEF Close, Closed, indexVars, winVars, cacheVars, execVars, diskVars, thrVars
<1>2. TypeOK'
  BY <1>1 DEF IInv, TypeOK, MaxSize
<1>3. PhaseInv'
  BY <1>1 DEF IInv, PhaseInv, Close, Closed, NoCheckpoint
<1> QED BY <1>1, <1>2, <1>3, KeepIds, KeepCache, KeepBuf, KeepFiles, KeepCkpt, KeepSave,
           KeepFlush, KeepWindow, KeepRight
        DEF IInv, cacheVars

(* When the executor has shut down, no save and no flush is left to come.   *)
LEMMA DurableFacts ==
    ASSUME IInv
    PROVE  ClosedIsDurable
<1> SUFFICES ASSUME tpc = "closed"
             PROVE  /\ failed = {} => dindex = Pairs(ids) /\ meta = counter
                    /\ \A id \in Range(ids) \ failed :
                          id \in DOMAIN files /\ files[id] = index[id]
  BY DEF ClosedIsDurable
<1>1. setup.autoSave /\ ids # <<>> /\ ckpt = NoCheckpoint /\ execq = <<>> /\ running = {}
  BY DEF IInv, PhaseInv
<1>2. Submitted = {}
  BY <1>1 DEF Submitted, Range
<1>3. failed = {} => dindex = Pairs(ids) /\ meta = counter
  BY <1>1, <1>2 DEF IInv, FlushInv
<1>4. \A id \in Range(ids) : id \in DOMAIN place /\ place[id] = "auto"
  BY <1>1 DEF IInv, SaveInv
<1> QED BY <1>1, <1>2, <1>3, <1>4 DEF IInv, SaveInv

(* A rank's part is a stretch of the list.                                  *)
LEMMA PartFacts ==
    ASSUME NEW s, Ordered(s), NEW r \in 0..(World - 1)
    PROVE  LET p == Part(s, r, World) IN
           /\ Ordered(p) /\ Len(p) \in Nat /\ DOMAIN p = 1..Len(p)
           /\ \A i \in DOMAIN p : \E j \in DOMAIN s : p[i] = s[j]
<1> DEFINE n == Len(s)
           a == PartStart(n, r, World)
           b == PartEnd(n, r, World)
           p == Part(s, r, World)
           T == Nat \X Trajectories
<1>1. s \in Seq(T) /\ n \in Nat /\ DOMAIN s = 1..n /\ World \in Nat \ {0} /\ r \in Nat
  BY ReplayAssumption DEF Ordered
<1>2. a \in Nat /\ b \in Nat /\ a <= b /\ b <= n
  <2>1. /\ n \div World \in Nat /\ n % World \in 0..(World - 1)
        /\ n = World * (n \div World) + (n % World)
    BY <1>1, QuotientRemainder
  <2> DEFINE q == n \div World
             m == n % World
  <2>2. q \in Nat /\ m \in 0..(World - 1) /\ n = World * q + m
    BY <2>1
  <2>3. a = r * q + MinOf(r, m) /\ b = a + q + (IF r < m THEN 1 ELSE 0)
    BY DEF PartStart, PartEnd
  <2> HIDE DEF n, q, m, a, b
  <2>4. r * q \in Nat /\ (r + 1) * q = r * q + q
    BY <1>1, <2>2, OneMore
  <2>5. MinOf(r, m) \in Nat /\ MinOf(r, m) + (IF r < m THEN 1 ELSE 0) <= m
    BY <1>1, <2>2 DEF MinOf
  <2>6. (r + 1) * q <= World * q
    <3>1. World - (r + 1) \in Nat
      BY <1>1
    <3>2. (World - (r + 1)) * q \in Nat
      BY <2>2, <3>1, OneMore
    <3>3. (World - (r + 1)) * q = World * q - (r + 1) * q
      BY <1>1, <2>2
    <3> QED BY <1>1, <2>2, <2>4, <3>2, <3>3
  <2> DEFINE x == r * q
             w == World * q
             d == MinOf(r, m)
             e == IF r < m THEN 1 ELSE 0
  <2>7. /\ x \in Nat /\ w \in Int /\ x + q <= w /\ n = w + m /\ d \in Nat /\ e \in Nat
        /\ d + e <= m /\ a = x + d /\ b = a + q + e /\ q \in Nat /\ m \in Nat
    BY <1>1, <2>2, <2>3, <2>4, <2>5, <2>6
  <2> HIDE DEF x, w, d, e
  <2> QED BY <2>7
<1>3. p = SubSeq(s, a + 1, b)
  BY DEF Part
<1> HIDE DEF n, a, b, p, T
<1>4. /\ p \in Seq(T) /\ Len(p) = b - a /\ DOMAIN p = 1..(b - a)
      /\ \A i \in 1..(b - a) : p[i] = s[a + i]
  <2>1. SubSeq(s, a + 1, b) \in Seq(T)
    BY <1>1, <1>2 DEF n
  <2>2. Len(SubSeq(s, a + 1, b)) = b - a
    BY <1>1, <1>2 DEF n
  <2>3. \A i \in 1..(b - a) : SubSeq(s, a + 1, b)[i] = s[a + i]
    BY <1>1, <1>2 DEF n
  <2> QED BY <1>3, <2>1, <2>2, <2>3
<1>5. \A i \in DOMAIN p : a + i \in DOMAIN s /\ p[i] = s[a + i]
  BY <1>1, <1>2, <1>4
<1>6. Ordered(p)
  <2>1. ASSUME NEW i \in DOMAIN p, NEW j \in DOMAIN p, i < j
        PROVE  p[i][1] < p[j][1]
    <3>1. a + i < a + j
      BY <1>2, <1>4, <2>1
    <3> QED BY <1>5, <3>1 DEF Ordered
  <2> QED BY <1>4, <2>1 DEF Ordered, T
<1> QED BY <1>2, <1>4, <1>5, <1>6 DEF p

(* The counter of a distributed load is above every id of the part.         *)
LEMMA NextIdFacts ==
    ASSUME NEW p, Ordered(p)
    PROVE  NextId(p) \in Nat /\ \A i \in DOMAIN p : p[i][1] < NextId(p)
<1>1. /\ Len(p) \in Nat /\ DOMAIN p = 1..Len(p) /\ (p = <<>> <=> Len(p) = 0)
      /\ \A i \in DOMAIN p : p[i][1] \in Nat
      /\ \A i, j \in DOMAIN p : i < j => p[i][1] < p[j][1]
  BY DEF Ordered
<1>2. CASE p = <<>>
  BY <1>1, <1>2 DEF NextId
<1>3. CASE p # <<>>
  <2> DEFINE n == Len(p)
             S == {e[1] : e \in Range(p)}
  <2>1. n \in DOMAIN p /\ \A i \in DOMAIN p : i = n \/ i < n
    BY <1>1, <1>3
  <2>2. \A i \in DOMAIN p : p[i][1] \in S
    BY DEF Range
  <2>3. \A y \in S : \E i \in DOMAIN p : y = p[i][1]
    BY DEF Range
  <2>4. NextId(p) = Max(S) + 1
    BY <1>3 DEF NextId
  <2> HIDE DEF S, n
  <2>5. \A i \in DOMAIN p : p[n][1] >= p[i][1]
    BY <1>1, <2>1
  <2>6. p[n][1] \in S /\ \A y \in S : p[n][1] >= y
    BY <2>1, <2>2, <2>3, <2>5
  <2>7. Max(S) \in S /\ \A y \in S : Max(S) >= y
    BY <2>6 DEF Max
  <2>8. Max(S) \in Nat
    BY <1>1, <2>3, <2>7
  <2>9. \A i \in DOMAIN p : Max(S) >= p[i][1]
    BY <2>2, <2>7
  <2> QED BY <1>1, <2>4, <2>8, <2>9
<1> QED BY <1>2, <1>3

(* A rank loads its part of a closed data set into a buffer of its own:     *)
(* every file of it is whole.                                               *)
LEMMA LoadDatasetStep ==
    ASSUME IInv, NEW r \in 0..(World - 1), LoadDataset(r)
    PROVE  IInv'
<1> DEFINE p == Part(dindex, r, World)
<1>1. /\ tpc = "closed" /\ setup' = [setup EXCEPT !.autoSave = FALSE]
      /\ IF dindex # <<>> THEN LoadCheckpoint(p, NextId(p), files, Window)
         ELSE /\ tpc' = "load_raised"
              /\ ids' = <<>> /\ index' = Empty /\ place' = Empty /\ loaded' = Empty
              /\ counter' = 0 /\ cache' = Empty /\ owner' = Empty /\ buf' = Empty
              /\ lastSlot' = 0
      /\ todo' = 0 /\ futs' = {} /\ current' = FALSE /\ batch' = NoBatch /\ saved' = {}
      /\ UNCHANGED <<made, crashes, execq, running, failed, files, meta, dindex, ckpt,
                     spc, pick, slot, preq>>
  BY DEF LoadDataset, diskVars, thrVars
<1>2. /\ setup.autoSave /\ ~setup.preload /\ ckpt = NoCheckpoint /\ execq = <<>> /\ running = {}
      /\ spc = "idle"
  BY <1>1 DEF IInv, PhaseInv
<1>3. /\ setup' \in [autoSave : BOOLEAN, preload : BOOLEAN, cacheSize : Nat \ {0}]
      /\ setup'.autoSave = FALSE /\ setup'.preload = setup.preload
  BY <1>1 DEF IInv, TypeOK
<1>4. MaxSize' = Window /\ Window \in Nat \ {0}
  BY <1>3, ReplayAssumption DEF MaxSize
<1>5. failed = {} => /\ dindex = Pairs(ids) /\ dindex # <<>>
                     /\ \A id \in Range(ids) : id \in DOMAIN files /\ files[id] = index[id]
  <2> SUFFICES ASSUME failed = {}
               PROVE  /\ dindex = Pairs(ids) /\ dindex # <<>>
                      /\ \A id \in Range(ids) : id \in DOMAIN files /\ files[id] = index[id]
    OBVIOUS
  <2>1. /\ dindex = Pairs(ids)
        /\ \A id \in Range(ids) : id \in DOMAIN files /\ files[id] = index[id]
    BY <1>1, DurableFacts DEF ClosedIsDurable
  <2>2. Len(Pairs(ids)) = Len(ids) /\ ids \in Seq(Nat) /\ ids # <<>>
    BY <1>1, PairsOrdered DEF IInv, TypeOK, PhaseInv
  <2>3. Len(ids) # 0 /\ Len(<<>>) = 0
    BY <2>2
  <2> QED BY <2>1, <2>2, <2>3
<1>6. /\ Ordered(p) /\ Len(p) \in Nat /\ DOMAIN p = 1..Len(p)
      /\ \A i \in DOMAIN p : \E j \in DOMAIN dindex : p[i] = dindex[j]
  <2>1. Ordered(dindex)
    BY DEF IInv, IdsInv
  <2> QED BY <2>1, PartFacts
<1> HIDE DEF p
<1>7. failed = {} =>
        \A i \in DOMAIN p : /\ p[i][1] \in DOMAIN files /\ files[p[i][1]] = p[i][2]
                            /\ p[i][2] # Torn
  <2> SUFFICES ASSUME failed = {}, NEW i \in DOMAIN p
               PROVE  p[i][1] \in DOMAIN files /\ files[p[i][1]] = p[i][2] /\ p[i][2] # Torn
    OBVIOUS
  <2>1. PICK j \in DOMAIN ids : p[i][1] = ids[j] /\ p[i][2] = index[ids[j]]
    BY <1>5, <1>6, PairsOrdered
  <2>2. p[i][2] # Torn
    BY <1>6 DEF Ordered, Trajectories, Torn
  <2>3. ids[j] \in Range(ids)
    BY DEF Range
  <2> QED BY <1>5, <2>1, <2>2, <2>3
<1>8. NextId(p) \in Nat /\ \A i \in DOMAIN p : p[i][1] < NextId(p)
  BY <1>6, NextIdFacts
<1>9. files \in [DOMAIN files -> Nat]
  BY DEF IInv, TypeOK
<1>10. /\ ids' \in Seq(Nat) /\ DOMAIN ids' = DOMAIN p
       /\ \A i \in DOMAIN p : ids'[i] = p[i][1] /\ p[i][1] \in Nat
       /\ index' \in [Range(ids') -> Trajectories]
       /\ \A i \in DOMAIN p : index'[ids'[i]] = p[i][2]
       /\ counter' = NextId(p)
       /\ place' \in [DOMAIN place' -> {"auto", "loaded"}] /\ DOMAIN place' \subseteq Range(ids')
       /\ loaded' \in [DOMAIN loaded' -> Nat]
  <2>1. CASE dindex # <<>>
    <3>1. LoadCheckpoint(p, NextId(p), files, Window)
      BY <1>1, <2>1
    <3>2. /\ ids' \in Seq(Nat) /\ DOMAIN ids' = DOMAIN p
          /\ \A i \in DOMAIN p : ids'[i] = p[i][1] /\ p[i][1] \in Nat
          /\ index' \in [Range(ids') -> Trajectories]
          /\ \A i \in DOMAIN p : index'[ids'[i]] = p[i][2]
          /\ counter' = NextId(p)
          /\ place' = [id \in Range(ids') |-> "loaded"] /\ loaded' = files
      BY <1>4, <1>6, <1>9, <3>1, LoadFacts
    <3>3. place' \in [DOMAIN place' -> {"auto", "loaded"}] /\ DOMAIN place' \subseteq Range(ids')
      BY <3>2
    <3> QED BY <1>9, <3>2, <3>3
  <2>2. CASE dindex = <<>>
    <3>1. DOMAIN p = {} /\ p = <<>> /\ NextId(p) = 0
      <4>1. DOMAIN p = {}
        BY <1>6, <2>2
      <4>2. Len(p) = 0 /\ p \in Seq(Nat \X Trajectories)
        BY <1>6, <4>1 DEF Ordered
      <4>3. p = <<>>
        BY <4>2
      <4> QED BY <4>1, <4>3 DEF NextId
    <3>2. /\ ids' = <<>> /\ index' = Empty /\ place' = Empty /\ loaded' = Empty /\ counter' = 0
      BY <1>1, <2>2
    <3>3. /\ DOMAIN Empty = {} /\ Empty \in [{} -> Trajectories]
          /\ Empty \in [{} -> {"auto", "loaded"}] /\ Empty \in [{} -> Nat]
          /\ Range(<<>>) = {} /\ DOMAIN <<>> = {} /\ <<>> \in Seq(Nat)
      BY DEF Empty, Range
    <3> QED BY <3>1, <3>2, <3>3
  <2> QED BY <2>1, <2>2
<1>11. /\ tpc' = "ready" \/ (tpc' = "load_raised" /\ failed # {})
       /\ CacheInv' /\ lastSlot' \in 0..(Window - 1)
       /\ DOMAIN cache' \subseteq Range(ids') /\ buf' \in [DOMAIN buf' -> Nat]
       /\ tpc' = "ready" => \A j \in Recent' :
             /\ j \in DOMAIN p /\ SlotOf(j)' \in DOMAIN buf'
             /\ buf'[SlotOf(j)'] = files[p[j][1]]
  <2>1. \/ /\ tpc' = "load_raised" /\ cache' = Empty /\ buf' = Empty /\ lastSlot' = 0
           /\ \/ dindex = <<>>
              \/ \E j \in DOMAIN p : /\ Len(p) - j < Window
                                     /\ ~(p[j][1] \in DOMAIN files /\ files[p[j][1]] # Torn)
        \/ /\ tpc' = "ready" /\ CacheInv' /\ lastSlot' \in 0..(Window - 1)
           /\ DOMAIN cache' \subseteq Range(ids') /\ buf' \in [DOMAIN buf' -> Nat]
           /\ \A j \in Recent' : /\ j \in DOMAIN p /\ Len(p) - j < Window
                                 /\ SlotOf(j)' \in DOMAIN buf'
                                 /\ p[j][1] \in DOMAIN files /\ files[p[j][1]] # Torn
                                 /\ buf'[SlotOf(j)'] = files[p[j][1]]
    <3>1. CASE dindex # <<>>
      <4>1. LoadCheckpoint(p, NextId(p), files, Window)
        BY <1>1, <3>1
      <4>2. \/ /\ tpc' = "load_raised" /\ cache' = Empty /\ buf' = Empty /\ lastSlot' = 0
               /\ \E j \in DOMAIN p : /\ Len(p) - j < Window
                                      /\ ~(p[j][1] \in DOMAIN files /\ files[p[j][1]] # Torn)
            \/ /\ tpc' = "ready" /\ CacheInv' /\ lastSlot' \in 0..(Window - 1)
               /\ DOMAIN cache' \subseteq Range(ids') /\ buf' \in [DOMAIN buf' -> Nat]
               /\ \A j \in Recent' : /\ j \in DOMAIN p /\ Len(p) - j < Window
                                     /\ SlotOf(j)' \in DOMAIN buf'
                                     /\ p[j][1] \in DOMAIN files /\ files[p[j][1]] # Torn
                                     /\ buf'[SlotOf(j)'] = files[p[j][1]]
        BY <1>4, <1>6, <1>9, <4>1, LoadFacts
      <4> QED BY <4>2
    <3>2. CASE dindex = <<>>
      BY <1>1, <3>2
    <3> QED BY <3>1, <3>2
  <2>2. CASE tpc' = "ready"
    BY <2>1, <2>2
  <2>3. CASE tpc' = "load_raised"
    <3>1. failed # {}
      BY <1>5, <1>7, <2>1, <2>3
    <3>2. CacheInv'
      BY <2>3 DEF CacheInv
    <3>3. DOMAIN Empty = {} /\ Empty \in [{} -> Nat]
      BY DEF Empty
    <3>4. cache' = Empty /\ buf' = Empty /\ lastSlot' = 0
      BY <2>1, <2>3
    <3> QED BY <1>4, <2>3, <3>1, <3>2, <3>3, <3>4
  <2> QED BY <2>1, <2>2, <2>3
<1>12. TypeOK'
  BY <1>1, <1>2, <1>3, <1>4, <1>8, <1>10, <1>11 DEF IInv, TypeOK
<1>13. IdsInv'
  <2>1. IdsUnique'
    BY <1>6, <1>8, <1>10 DEF IdsUnique, Ordered
  <2> QED BY <1>1, <1>2, <2>1 DEF IInv, IdsInv, Ordered, Trajectories, NoCheckpoint
<1>14. BufInv'
  <2> SUFFICES ASSUME tpc' = "ready", NEW j \in Recent'
               PROVE  /\ SlotOf(j)' \in DOMAIN buf'
                      /\ failed = {} => buf'[SlotOf(j)'] = index'[ids'[j]]
    BY <1>1, <1>3, <1>11 DEF BufInv, Reliable
  <2> QED BY <1>7, <1>10, <1>11
<1>15. FilesInv' /\ CkptInv' /\ FlushInv' /\ WindowInv'
  <2>1. ckpt'.saved = FALSE
    BY <1>1, <1>2 DEF NoCheckpoint
  <2> QED BY <1>1, <1>3, <2>1 DEF FilesInv, CkptInv, FlushInv, WindowInv
<1>16. SaveInv'
  <2>1. Submitted' = {}
    BY <1>1, <1>2 DEF Submitted, Range
  <2> QED BY <1>1, <1>2, <1>3, <2>1 DEF SaveInv
<1>17. PhaseInv' /\ RightSamples'
  BY <1>1, <1>2, <1>3, <1>11 DEF PhaseInv, RightSamples, NoBatch
<1> QED BY <1>11, <1>12, <1>13, <1>14, <1>15, <1>16, <1>17 DEF IInv

-----------------------------------------------------------------------------
(* The theorems.                                                            *)

(* A new actor process, before its first batch.                             *)
LEMMA InitInv ==
    ASSUME Init
    PROVE  IInv
<1>1. DOMAIN Empty = {} /\ Range(<<>>) = {} /\ DOMAIN <<>> = {} /\ Len(<<>>) = 0
  BY DEF Empty, Range
<1>2. /\ setup \in [autoSave : BOOLEAN, preload : BOOLEAN, cacheSize : Nat \ {0}]
      /\ MaxSize \in Nat \ {0} /\ Prefetch \in Nat /\ Pool \in Nat /\ MaxCrashes \in Nat
  <2>1. setup \in [autoSave : BOOLEAN, preload : BOOLEAN, cacheSize : Nat \ {0}]
    BY ReplayAssumption DEF Init
  <2> QED BY <2>1, ReplayAssumption DEF MaxSize
<1>3. /\ ids = <<>> /\ index = Empty /\ place = Empty /\ loaded = Empty
      /\ counter = 0 /\ failed = {} /\ current = FALSE
      /\ cache = Empty /\ owner = Empty /\ buf = Empty /\ lastSlot = 0
      /\ execq = <<>> /\ running = {} /\ saved = {} /\ batch = NoBatch
      /\ spc = "idle" /\ preq = <<>> /\ tpc = "ready" /\ todo = 0 /\ futs = {} /\ made = 0
      /\ crashes = 0 /\ files = Empty /\ dindex = <<>> /\ ckpt = NoCheckpoint
  BY DEF Init, Fresh
<1>4. TypeOK
  <2>1. /\ Empty \in [{} -> Trajectories] /\ Empty \in [{} -> {"auto", "loaded"}]
        /\ Empty \in [{} -> Nat]
    BY DEF Empty
  <2>2. IsFiniteSet(running) /\ Cardinality(running) <= Pool
    BY <1>2, <1>3, FS_EmptySet
  <2>3. lastSlot \in 0..(MaxSize - 1) /\ crashes \in 0..MaxCrashes
    BY <1>2, <1>3
  <2>4. /\ ids \in Seq(Nat) /\ execq \in Seq(Tasks) /\ running \subseteq Tasks
        /\ index \in [Range(ids) -> Trajectories]
        /\ DOMAIN place \subseteq Range(ids) /\ DOMAIN cache \subseteq Range(ids)
        /\ place \in [DOMAIN place -> {"auto", "loaded"}]
        /\ loaded \in [DOMAIN loaded -> Nat] /\ failed \subseteq Nat
        /\ buf \in [DOMAIN buf -> Nat] /\ files \in [DOMAIN files -> Nat]
        /\ saved \subseteq Range(ids)
    BY <1>1, <1>3, <2>1
  <2>5. preq \in Seq([want : Trajectories, got : Nat \cup {None}]) /\ Len(preq) <= Prefetch
    BY <1>1, <1>2, <1>3
  <2> QED BY <1>2, <1>3, <2>2, <2>3, <2>4, <2>5 DEF TypeOK
<1>5. IdsInv
  <2>1. Ordered(<<>>)
    BY <1>1 DEF Ordered
  <2> QED BY <1>1, <1>3, <2>1 DEF IdsInv, IdsUnique
<1>6. Recent = {}
  BY <1>1, <1>3 DEF Placed, Recent
<1>7. CacheInv /\ BufInv /\ FilesInv
  BY <1>1, <1>3, <1>6 DEF CacheInv, BufInv, FilesInv
<1>8. CkptInv /\ SaveInv /\ FlushInv /\ WindowInv
  BY <1>1, <1>3 DEF CkptInv, SaveInv, FlushInv, WindowInv, Submitted, NoCheckpoint
<1>9. PhaseInv /\ RightSamples
  BY <1>3 DEF PhaseInv, RightSamples, NoBatch
<1> QED BY <1>4, <1>5, <1>7, <1>8, <1>9 DEF IInv

(* A step that changes nothing.                                             *)
LEMMA StutterStep ==
    ASSUME IInv, UNCHANGED vars
    PROVE  IInv'
<1>1. UNCHANGED <<setup, tpc, todo, futs, made, crashes, ids, index, place, loaded, counter, window,
                  current, cache, owner, buf, lastSlot, batch, execq, running, saved, failed, files,
                  meta, dindex, ckpt, spc, pick, slot, preq>>
  BY DEF vars, trainVars, indexVars, winVars, cacheVars, execVars, diskVars, thrVars
<1>2. TypeOK' /\ PhaseInv'
  BY <1>1 DEF IInv, TypeOK, PhaseInv, MaxSize, NoCheckpoint
<1> QED BY <1>1, <1>2, KeepIds, KeepCache, KeepBuf, KeepFiles, KeepCkpt, KeepSave,
           KeepFlush, KeepWindow, KeepRight
        DEF IInv, cacheVars

(* IInv holds in every reachable state: whatever the actor's thread, the    *)
(* save executor, the sampling thread and the crashes do, the cache is a    *)
(* ring of the most recent trajectories, the files and checkpoints hold     *)
(* what their ids name, and every save and flush is done or still to come.  *)
THEOREM InductiveInvariant == Spec => []IInv
<1>1. Init => IInv
  BY InitInv
<1>2. IInv /\ [Next]_vars => IInv'
  <2> SUFFICES ASSUME IInv, [Next]_vars PROVE IInv'
    OBVIOUS
  <2>1. CASE \E n \in 1..MaxAdds : AddTrajectories(n)
    BY <2>1, AddTrajectoriesStep
  <2>2. CASE Add
    BY <2>2, AddIndexStep, PutMapStep, PutDataStep, AddDoneStep DEF Add
  <2>3. CASE Exec
    BY <2>3, ExecStartStep, SaveDoneStep, SaveRaisesStep, FlushMetaStep, FlushIndexStep,
       FlushRaisesStep DEF Exec, Work
  <2>4. CASE Sample \/ WaitBatch \/ GetBatch
    BY <2>4, SampleStep, WaitBatchStep, GetBatchStep
  <2>5. CASE Preload
    BY <2>5, PreloadStep
  <2>6. CASE SaveCheckpoint \/ Crash \/ Restart
    BY <2>6, SaveCheckpointStep, CrashStep, RestartStep
  <2>7. CASE Close \/ Closed
    BY <2>7, CloseStep
  <2>8. CASE \E r \in 0..(World - 1) : LoadDataset(r)
    BY <2>8, LoadDatasetStep
  <2>9. CASE PollEmpty \/ Joining \/ Raised \/ UNCHANGED vars
    BY <2>9, StutterStep DEF PollEmpty, Joining, Raised
  <2> QED BY <2>1, <2>2, <2>3, <2>4, <2>5, <2>6, <2>7, <2>8, <2>9 DEF Next
<1> QED BY <1>1, <1>2, PTL DEF Spec

(* TypeOK: in particular the executor never runs more than max_workers      *)
(* tasks, preload_queue never outgrows prefetch_size, and nothing is        *)
(* cached, located or saved that _trajectory_index does not hold.           *)
THEOREM TypeCorrect == Spec => []TypeOK
<1>1. IInv => TypeOK
  BY DEF IInv
<1> QED BY <1>1, InductiveInvariant, PTL

(* IdsUnique: _trajectory_counter stays above every id in use, also after   *)
(* load_checkpoint of a whole checkpoint or of a rank's part, so no id is   *)
(* given out twice.                                                         *)
THEOREM NoIdTwice == Spec => []IdsUnique
<1>1. IInv => IdsUnique
  BY DEF IInv, IdsInv
<1> QED BY <1>1, InductiveInvariant, PTL

(* RestoreSucceeds: load_checkpoint finds every file it asks for, unless it *)
(* loads a checkpoint of an auto_save buffer or a data set one of whose     *)
(* saves has raised.                                                        *)
THEOREM Restorable == Spec => []RestoreSucceeds
<1>1. IInv => RestoreSucceeds
  BY DEF IInv, PhaseInv, RestoreSucceeds
<1> QED BY <1>1, InductiveInvariant, PTL

(* RightSamples: sample on the actor's thread returns the trajectory it     *)
(* drew, and raises only if the cache is smaller than the window.           *)
THEOREM SamplesAreRight == Spec => []RightSamples
<1>1. IInv => RightSamples
  BY DEF IInv
<1> QED BY <1>1, InductiveInvariant, PTL

(* ClosedIsDurable: when close(wait=True) returns, every trajectory whose   *)
(* save has not raised is on disk, and if none has, the whole data set is.  *)
THEOREM CloseFlushes == Spec => []ClosedIsDurable
<1>1. IInv => ClosedIsDurable
  BY DurableFacts
<1> QED BY <1>1, InductiveInvariant, PTL
=============================================================================
