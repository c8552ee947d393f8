-------------------------- MODULE DeviceLockProofs --------------------------
(***************************************************************************)
(* Proofs about DeviceLock for any number of workers and accelerators.     *)
(***************************************************************************)
EXTENDS DeviceLock, SequenceTheorems, TLAPS

(***************************************************************************)
(* A gather contributes tasks only.                                        *)
(***************************************************************************)
LEMMA GatherType ==
  ASSUME NEW w \in Worker, NEW op \in {"acquire", "release"}
  PROVE  /\ Gather(op, w) \in Seq(Tasks)
         /\ Len(Gather(op, w)) = Len(accel_ids[w])
         /\ Devices(w) \subseteq Device
<1>1. accel_ids[w] \in Seq(Device)
  BY AccelIdsAssumption
<1>2. \A i \in 1..Len(accel_ids[w]) : accel_ids[w][i] \in Device
  BY <1>1
<1>3. Len(accel_ids[w]) \in Nat
  BY <1>1
<1>4. \A i \in 1..Len(accel_ids[w]) : Task(op, w, accel_ids[w][i]) \in Tasks
  BY <1>2 DEF Task, Tasks
<1>5. Gather(op, w) \in Seq(Tasks)
  BY <1>3, <1>4 DEF Gather
<1>6. Len(Gather(op, w)) = Len(accel_ids[w])
  BY <1>3 DEF Gather
<1>7. Devices(w) \subseteq Device
  BY <1>2 DEF Devices
<1>. QED
  BY <1>5, <1>6, <1>7

(***************************************************************************)
(* The tasks of a gather, by position: one per accelerator of w, all       *)
(* different.                                                              *)
(***************************************************************************)
LEMMA GatherTasks ==
  ASSUME NEW w \in Worker, NEW op \in {"acquire", "release"}
  PROVE  /\ \A i \in 1..Len(Gather(op, w)) :
              /\ Gather(op, w)[i] \in Tasks
              /\ Gather(op, w)[i].op = op
              /\ Gather(op, w)[i].w = w
              /\ Gather(op, w)[i].d \in Devices(w)
         /\ \A i, j \in 1..Len(Gather(op, w)) :
              Gather(op, w)[i] = Gather(op, w)[j] => i = j
<1>1. Len(Gather(op, w)) = Len(accel_ids[w]) /\ Len(accel_ids[w]) \in Nat
  BY GatherType, AccelIdsAssumption
<1>2. \A i \in 1..Len(accel_ids[w]) :
        Gather(op, w)[i] = Task(op, w, accel_ids[w][i])
  BY DEF Gather
<1>3. \A i \in 1..Len(accel_ids[w]) : accel_ids[w][i] \in Devices(w)
  BY DEF Devices
<1>4. \A i, j \in 1..Len(accel_ids[w]) :
        Task(op, w, accel_ids[w][i]) = Task(op, w, accel_ids[w][j]) => i = j
  BY AccelIdsAssumption DEF Task
<1>5. \A i \in 1..Len(accel_ids[w]) :
        /\ Task(op, w, accel_ids[w][i]).op = op
        /\ Task(op, w, accel_ids[w][i]).w = w
        /\ Task(op, w, accel_ids[w][i]).d = accel_ids[w][i]
  BY DEF Task
<1>6. Gather(op, w) \in Seq(Tasks)
  BY GatherType
<1>. QED
  BY <1>1, <1>2, <1>3, <1>4, <1>5, <1>6

(***************************************************************************)
(* The woken future is the oldest one, so removing it drops the head.      *)
(***************************************************************************)
LEMMA RemoveFutureHead ==
  ASSUME NEW s \in Seq(Worker), NEW w \in Worker, s # <<>>, s[1] = w
  PROVE  /\ RemoveFuture(s, w) \in Seq(Worker)
         /\ Len(RemoveFuture(s, w)) = Len(s) - 1
         /\ \A j \in 1..(Len(s) - 1) : RemoveFuture(s, w)[j] = s[j + 1]
<1> DEFINE k == CHOOSE i \in 1..Len(s) :
                  s[i] = w /\ \A j \in 1..(i - 1) : s[j] # w
<1>1. Len(s) \in Nat /\ Len(s) >= 1
  OBVIOUS
<1>2. 1 \in 1..Len(s) /\ s[1] = w /\ \A j \in 1..(1 - 1) : s[j] # w
  BY <1>1
<1>3. k \in 1..Len(s) /\ s[k] = w /\ \A j \in 1..(k - 1) : s[j] # w
  BY <1>2, Zenon
<1>4. k = 1
  BY <1>1, <1>3
<1> HIDE DEF k
<1>5. RemoveFuture(s, w) = [j \in 1..(Len(s) - 1) |-> IF j < k THEN s[j] ELSE s[j + 1]]
  BY Zenon DEF RemoveFuture, k
<1>6. \A j \in 1..(Len(s) - 1) : s[j + 1] \in Worker
  BY <1>1
<1>. QED
  BY <1>1, <1>4, <1>5, <1>6

(***************************************************************************)
(* The loop's queue, by position: after a gather, and after running its    *)
(* oldest callback t.                                                      *)
(***************************************************************************)
LEMMA ReadyAfterGather ==
  ASSUME NEW w \in Worker, NEW op \in {"acquire", "release"},
         ready \in Seq(Tasks), ready' = ready \o Gather(op, w)
  PROVE  /\ ready' \in Seq(Tasks)
         /\ \A i \in 1..Len(ready') :
              IF i <= Len(ready)
              THEN i \in 1..Len(ready) /\ ready'[i] = ready[i]
              ELSE \E k \in 1..Len(Gather(op, w)) :
                     k = i - Len(ready) /\ ready'[i] = Gather(op, w)[k]
<1>1. Gather(op, w) \in Seq(Tasks)
  BY GatherType
<1>. QED
  BY <1>1

(* Running the oldest callback keeps the rest of the loop as it was.       *)
LEMMA ReadyAfterTask ==
  ASSUME ready \in Seq(Tasks), ready # <<>>
  PROVE  /\ Head(ready) = ready[1] /\ 1 \in 1..Len(ready)
         /\ Tail(ready) \in Seq(Tasks)
         /\ \A i \in 1..Len(Tail(ready)) :
              i + 1 \in 1..Len(ready) /\ Tail(ready)[i] = ready[i + 1]
         /\ Len(Tail(ready)) \in Nat
  OBVIOUS

(***************************************************************************)
(* acquire_devices and release_devices: the new tasks concern a worker     *)
(* that had none, because a worker outside a call waits for nothing.       *)
(***************************************************************************)
LEMMA GatherInv ==
  ASSUME IInv, NEW w \in Worker, NEW op, NEW p, pend[w] = {},
         (op = "acquire" /\ p = "acquiring") \/ (op = "release" /\ p = "releasing"),
         pc' = [pc EXCEPT ![w] = p],
         pend' = [pend EXCEPT ![w] = Devices(w)],
         ready' = ready \o Gather(op, w),
         UNCHANGED <<locked, owner, waiters>>
  PROVE  TypeOK' /\ OwnedIffLocked' /\ ReadyInv' /\ WaitersInv'
<1> USE DEF IInv
<1>0. op \in {"acquire", "release"}
  OBVIOUS
<1>1. /\ Gather(op, w) \in Seq(Tasks)
      /\ Devices(w) \subseteq Device
  BY <1>0, GatherType
<1>2. /\ \A i \in 1..Len(Gather(op, w)) :
           /\ Gather(op, w)[i] \in Tasks
           /\ Gather(op, w)[i].op = op
           /\ Gather(op, w)[i].w = w
           /\ Gather(op, w)[i].d \in Devices(w)
      /\ \A i, j \in 1..Len(Gather(op, w)) :
           Gather(op, w)[i] = Gather(op, w)[j] => i = j
  BY <1>0, GatherTasks
<1>3. /\ ready' \in Seq(Tasks)
      /\ \A i \in 1..Len(ready') :
              IF i <= Len(ready)
              THEN i \in 1..Len(ready) /\ ready'[i] = ready[i]
              ELSE \E k \in 1..Len(Gather(op, w)) :
                     k = i - Len(ready) /\ ready'[i] = Gather(op, w)[k]
  BY <1>0, ReadyAfterGather DEF TypeOK
<1>4. TypeOK'
  BY <1>1, <1>3 DEF TypeOK
<1>5. OwnedIffLocked'
  BY DEF OwnedIffLocked
<1>6. \A i \in 1..Len(ready) : ready[i].w # w /\ ready[i] \in Tasks
  BY DEF ReadyInv, CallbackInv, TypeOK
<1>7. \A d \in Device : \A i \in 1..Len(waiters[d]) :
        waiters[d][i] # w /\ waiters[d][i] \in Worker
  BY DEF WaitersInv, TypeOK
<1>8. ASSUME NEW i \in 1..Len(ready'), i <= Len(ready)
      PROVE  /\ ready'[i] = ready[i] /\ i \in 1..Len(ready)
             /\ ready[i].w \in Worker /\ ready[i].w # w
             /\ pc'[ready[i].w] = pc[ready[i].w]
             /\ pend'[ready[i].w] = pend[ready[i].w]
  BY <1>8, <1>3, <1>6 DEF TypeOK, Tasks
<1>9. ASSUME NEW i \in 1..Len(ready'), ~(i <= Len(ready))
      PROVE  /\ ready'[i].op = op /\ ready'[i].w = w
             /\ ready'[i].d \in Device
             /\ ready'[i].d \in pend'[w] /\ pc'[w] = p
  BY <1>9, <1>1, <1>2, <1>3 DEF TypeOK
<1>10. ASSUME NEW i \in 1..Len(ready')
       PROVE  CallbackInv(ready[i])'
  <2>1. CASE i <= Len(ready)
    <3>1. CallbackInv(ready[i])
      BY <2>1, <1>8 DEF ReadyInv
    <3>. QED
      BY <3>1, <2>1, <1>8 DEF CallbackInv
  <2>2. CASE ~(i <= Len(ready))
    BY <2>2, <1>9, <1>7 DEF CallbackInv
  <2>. QED
    BY <2>1, <2>2
<1>11. ASSUME NEW i \in 1..Len(ready'), NEW j \in 1..Len(ready'),
              ready'[i] = ready'[j]
       PROVE  i = j
  <2>1. CASE i <= Len(ready) /\ j <= Len(ready)
    BY <2>1, <1>8, <1>11 DEF ReadyInv
  <2>2. CASE ~(i <= Len(ready)) /\ ~(j <= Len(ready))
    BY <2>2, <1>2, <1>3, <1>11 DEF TypeOK
  <2>3. CASE i <= Len(ready) /\ ~(j <= Len(ready))
    BY <2>3, <1>8, <1>9, <1>11
  <2>4. CASE ~(i <= Len(ready)) /\ j <= Len(ready)
    BY <2>4, <1>8, <1>9, <1>11
  <2>. QED
    BY <2>1, <2>2, <2>3, <2>4
<1>12. ReadyInv'
  BY <1>10, <1>11 DEF ReadyInv
<1>13. WaitersInv'
  BY <1>7 DEF WaitersInv, TypeOK
<1>. QED
  BY <1>4, <1>5, <1>12, <1>13

(* A worker's call of acquire_devices preserves the invariant.             *)
LEMMA AcquireDevicesInv ==
  ASSUME IInv, NEW w \in Worker, AcquireDevices(w)
  PROVE  IInv'
<1>1. pend[w] = {}
  BY DEF IInv, PcInv, AcquireDevices
<1>2. TypeOK' /\ OwnedIffLocked' /\ ReadyInv' /\ WaitersInv'
  BY <1>1, GatherInv DEF AcquireDevices
<1>3. PcInv'
  BY DEF IInv, TypeOK, PcInv, AcquireDevices
<1>. QED
  BY <1>2, <1>3 DEF IInv

(* A worker's call of release_devices preserves the invariant.             *)
LEMMA ReleaseDevicesInv ==
  ASSUME IInv, NEW w \in Worker, ReleaseDevices(w)
  PROVE  IInv'
<1>1. pend[w] = {}
  BY DEF IInv, PcInv, ReleaseDevices
<1>2. TypeOK' /\ OwnedIffLocked' /\ ReadyInv' /\ WaitersInv'
  BY <1>1, GatherInv DEF ReleaseDevices
<1>3. PcInv'
  BY <1>1 DEF IInv, TypeOK, PcInv, ReleaseDevices
<1>. QED
  BY <1>2, <1>3 DEF IInv

(* The return of a finished gather preserves the invariant.                *)
LEMMA ReturnInv ==
  ASSUME IInv, NEW w \in Worker, Return(w)
  PROVE  IInv'
<1> USE DEF IInv
<1>1. TypeOK' /\ OwnedIffLocked' /\ PcInv'
  BY DEF TypeOK, OwnedIffLocked, PcInv, Return
<1>2. \A i \in 1..Len(ready) : ready[i].w # w /\ ready[i] \in Tasks
  BY DEF ReadyInv, CallbackInv, TypeOK, Return
<1>3. \A v \in Worker : v # w => pc'[v] = pc[v]
  BY DEF Return, TypeOK
<1>4. ASSUME NEW i \in 1..Len(ready')
      PROVE  CallbackInv(ready[i])'
  <2>1. CallbackInv(ready[i]) /\ ready[i] \in Tasks /\ ready[i].w # w
    BY <1>2 DEF ReadyInv, Return
  <2>. QED
    BY <2>1, <1>3 DEF CallbackInv, Return, Tasks
<1>5. ReadyInv'
  BY <1>4 DEF ReadyInv, Return
<1>6. \A d \in Device : \A i \in 1..Len(waiters[d]) :
        waiters[d][i] # w /\ waiters[d][i] \in Worker
  BY DEF WaitersInv, TypeOK, Return
<1>7. WaitersInv'
  BY <1>3, <1>6 DEF WaitersInv, Return
<1>. QED
  BY <1>1, <1>5, <1>7

(***************************************************************************)
(* What holds of the callback at the head of the loop, and of the rest.    *)
(***************************************************************************)
LEMMA HeadFacts ==
  ASSUME IInv, NEW w \in Worker, NEW d \in Device,
         NEW op \in {"acquire", "wakeup", "release"},
         ready # <<>>, Head(ready) = Task(op, w, d)
  PROVE  /\ CallbackInv(Task(op, w, d))
         /\ Tail(ready) \in Seq(Tasks)
         /\ \A i \in 1..Len(Tail(ready)) :
              /\ Tail(ready)[i] \in Tasks
              /\ Tail(ready)[i] # Task(op, w, d)
              /\ CallbackInv(Tail(ready)[i])
         /\ \A i, j \in 1..Len(Tail(ready)) :
              Tail(ready)[i] = Tail(ready)[j] => i = j
<1> USE DEF IInv
<1>1. ready \in Seq(Tasks) /\ ready # <<>>
  BY DEF TypeOK
<1>2. /\ Head(ready) = ready[1] /\ 1 \in 1..Len(ready)
      /\ Tail(ready) \in Seq(Tasks)
      /\ \A i \in 1..Len(Tail(ready)) :
           i + 1 \in 1..Len(ready) /\ Tail(ready)[i] = ready[i + 1]
      /\ Len(Tail(ready)) \in Nat
  BY <1>1, ReadyAfterTask
<1>3. CallbackInv(ready[1])
  BY <1>2 DEF ReadyInv
<1>4. \A i \in 1..Len(Tail(ready)) : i \in Nat /\ i + 1 # 1
  BY <1>2
<1>5. \A i \in 1..Len(Tail(ready)) :
        Tail(ready)[i] \in Tasks /\ CallbackInv(Tail(ready)[i])
  BY <1>1, <1>2 DEF ReadyInv
<1>6. \A i \in 1..Len(Tail(ready)) : Tail(ready)[i] # ready[1]
  BY <1>2, <1>4 DEF ReadyInv
<1>7. \A i, j \in 1..Len(Tail(ready)) : Tail(ready)[i] = Tail(ready)[j] => i = j
  BY <1>2 DEF ReadyInv
<1>. QED
  BY <1>2, <1>3, <1>5, <1>6, <1>7

(* WorkerDeviceLock.acquire up to its await preserves the invariant.       *)
LEMMA AcquireTaskInv ==
  ASSUME IInv, NEW w \in Worker, NEW d \in Device, AcquireTask(w, d)
  PROVE  IInv'
<1> USE DEF IInv
<1> DEFINE t == Task("acquire", w, d)
<1>1. /\ CallbackInv(t)
      /\ ready' \in Seq(Tasks)
      /\ \A i \in 1..Len(ready') :
           ready'[i] \in Tasks /\ ready'[i] # t /\ CallbackInv(ready'[i])
      /\ \A i, j \in 1..Len(ready') : ready'[i] = ready'[j] => i = j
  BY HeadFacts DEF AcquireTask
<1>2. /\ d \in pend[w] /\ pc[w] = "acquiring"
      /\ \A j \in 1..Len(waiters[d]) : waiters[d][j] # w
  BY <1>1 DEF CallbackInv, Task
<1>3. ASSUME NEW i \in 1..Len(ready')
      PROVE  /\ ready'[i].w \in Worker /\ ready'[i].d \in Device
             /\ ready'[i].op \in {"acquire", "wakeup", "release"}
             /\ (ready'[i].op = "acquire" /\ ready'[i].w = w) => ready'[i].d # d
  BY <1>1 DEF Tasks, Task
<1>4. waiters[d] \in Seq(Worker)
  BY DEF TypeOK
<1>5. CASE owner[d] = w \/ (~locked[d] /\ waiters[d] = <<>>)
  <2>1. /\ locked' = [locked EXCEPT ![d] = owner[d] # w \/ @]
        /\ owner' = [owner EXCEPT ![d] = w]
        /\ pend' = [pend EXCEPT ![w] = @ \ {d}]
        /\ UNCHANGED <<waiters, pc>>
    BY <1>5 DEF AcquireTask, CanTake, TaskDone
  <2>2. locked'[d] /\ owner'[d] = w /\ owner'[d] # None
    BY <2>1, NoneAssumption DEF TypeOK, OwnedIffLocked
  <2>3. TypeOK'
    BY <1>1, <2>1 DEF TypeOK
  <2>4. OwnedIffLocked'
    BY <2>1, <2>2 DEF OwnedIffLocked, TypeOK
  <2>5. owner[d] = w \/ owner[d] = None
    BY <1>5 DEF OwnedIffLocked
  <2>6. PcInv'
    BY <2>1, <2>5, <1>2, NoneAssumption DEF PcInv, TypeOK
  <2>7. \A i \in 1..Len(ready') : ready'[i].w = w => ready'[i].d # d
    <3> SUFFICES ASSUME NEW i \in 1..Len(ready'), ready'[i].w = w, ready'[i].d = d
                 PROVE  FALSE
      OBVIOUS
    <3>1. ready'[i].op # "release"
      BY <1>1, <1>2 DEF CallbackInv
    <3>2. ready'[i].op = "wakeup" => waiters[d] # <<>> /\ waiters[d][1] = w
      BY <1>1 DEF CallbackInv
    <3>3. ready'[i].op # "wakeup"
      BY <3>2, <1>2, <1>4
    <3>. QED
      BY <3>1, <3>3, <1>3
  <2>8. ASSUME NEW i \in 1..Len(ready')
        PROVE  CallbackInv(ready[i])'
    <3>1. CallbackInv(ready'[i])
      BY <1>1
    <3>2. ready'[i].d \in pend'[ready'[i].w]
      BY <3>1, <2>1, <2>7, <1>3 DEF CallbackInv, TypeOK
    <3>3. ready'[i].op = "wakeup" => ready'[i].d # d
      BY <3>1, <1>2, <1>3, <1>5, NoneAssumption DEF CallbackInv, OwnedIffLocked
    <3>4. ready'[i].op = "wakeup" => ~locked'[ready'[i].d]
      BY <3>1, <3>3, <2>1, <1>3 DEF CallbackInv, TypeOK
    <3>. QED
      BY <3>1, <3>2, <3>4, <2>1 DEF CallbackInv
  <2>9. ReadyInv'
    BY <1>1, <2>8 DEF ReadyInv
  <2>10. WaitersInv'
    BY <2>1, <1>2 DEF WaitersInv, TypeOK
  <2>. QED
    BY <2>3, <2>4, <2>6, <2>9, <2>10
<1>6. CASE ~(owner[d] = w \/ (~locked[d] /\ waiters[d] = <<>>))
  <2>1. /\ waiters' = [waiters EXCEPT ![d] = Append(@, w)]
        /\ UNCHANGED <<locked, owner, pend, pc>>
    BY <1>6 DEF AcquireTask, CanTake, Park
  <2>2. TypeOK'
    BY <1>1, <2>1 DEF TypeOK
  <2>3. OwnedIffLocked' /\ PcInv'
    BY <2>1 DEF OwnedIffLocked, PcInv
  <2>4. /\ waiters'[d] = Append(waiters[d], w)
        /\ Len(waiters'[d]) = Len(waiters[d]) + 1
        /\ \A j \in 1..Len(waiters[d]) : waiters'[d][j] = waiters[d][j]
        /\ waiters'[d][Len(waiters[d]) + 1] = w
        /\ \A c \in Device : c # d => waiters'[c] = waiters[c]
    BY <2>1, <1>4 DEF TypeOK
  <2>5. ASSUME NEW i \in 1..Len(ready')
        PROVE  CallbackInv(ready[i])'
    <3>1. CallbackInv(ready'[i])
      BY <1>1
    <3>2. CASE ready'[i].d # d
      BY <3>1, <3>2, <2>1, <2>4, <1>3 DEF CallbackInv
    <3>3. CASE ready'[i].d = d
      BY <3>1, <3>3, <2>1, <2>4, <1>3, <1>4 DEF CallbackInv
    <3>. QED
      BY <3>2, <3>3
  <2>6. ReadyInv'
    BY <1>1, <2>5 DEF ReadyInv
  <2>7. WaitersInv'
    BY <2>1, <2>4, <1>2, <1>4 DEF WaitersInv
  <2>. QED
    BY <2>2, <2>3, <2>6, <2>7
<1>. QED
  BY <1>5, <1>6

(* The rest of acquire, in a woken task, preserves the invariant.          *)
LEMMA WakeupTaskInv ==
  ASSUME IInv, NEW w \in Worker, NEW d \in Device, WakeupTask(w, d)
  PROVE  IInv'
<1> USE DEF IInv
<1> DEFINE t == Task("wakeup", w, d)
<1>1. /\ CallbackInv(t)
      /\ ready' \in Seq(Tasks)
      /\ \A i \in 1..Len(ready') :
           ready'[i] \in Tasks /\ ready'[i] # t /\ CallbackInv(ready'[i])
      /\ \A i, j \in 1..Len(ready') : ready'[i] = ready'[j] => i = j
  BY HeadFacts DEF WakeupTask
<1>2. /\ d \in pend[w] /\ pc[w] = "acquiring" /\ ~locked[d]
      /\ waiters[d] # <<>> /\ waiters[d][1] = w
  BY <1>1 DEF CallbackInv, Task
<1>3. ASSUME NEW i \in 1..Len(ready')
      PROVE  /\ ready'[i].w \in Worker /\ ready'[i].d \in Device
             /\ ready'[i].op \in {"acquire", "wakeup", "release"}
             /\ (ready'[i].op = "wakeup" /\ ready'[i].w = w) => ready'[i].d # d
  BY <1>1 DEF Tasks, Task
<1>4. waiters[d] \in Seq(Worker)
  BY DEF TypeOK
<1>5. owner[d] = None
  BY <1>2 DEF OwnedIffLocked
<1>6. /\ waiters' = [waiters EXCEPT ![d] = RemoveFuture(@, w)]
      /\ locked' = [locked EXCEPT ![d] = TRUE]
      /\ owner' = [owner EXCEPT ![d] = w]
      /\ pend' = [pend EXCEPT ![w] = @ \ {d}]
      /\ pc' = pc
  BY <1>5 DEF WakeupTask, TaskDone
<1>7. /\ waiters'[d] \in Seq(Worker)
      /\ Len(waiters'[d]) = Len(waiters[d]) - 1
      /\ \A j \in 1..(Len(waiters[d]) - 1) : waiters'[d][j] = waiters[d][j + 1]
      /\ \A c \in Device : c # d => waiters'[c] = waiters[c]
  BY <1>2, <1>4, <1>6, RemoveFutureHead DEF TypeOK
<1>8. \A j \in 1..Len(waiters'[d]) :
        j + 1 \in 1..Len(waiters[d]) /\ waiters'[d][j] = waiters[d][j + 1]
        /\ waiters'[d][j] # w
  BY <1>2, <1>4, <1>7 DEF WaitersInv
<1>9. TypeOK'
  BY <1>1, <1>6, <1>7 DEF TypeOK
<1>10. OwnedIffLocked'
  BY <1>6, NoneAssumption DEF OwnedIffLocked, TypeOK
<1>11. PcInv'
  BY <1>2, <1>5, <1>6, NoneAssumption DEF PcInv, TypeOK
<1>12. ASSUME NEW i \in 1..Len(ready')
       PROVE  CallbackInv(ready[i])'
  <2>1. CallbackInv(ready'[i])
    BY <1>1
  <2>2. ready'[i].op = "wakeup" => ready'[i].d # d
    BY <2>1, <1>2, <1>3 DEF CallbackInv
  <2>3. ready'[i].d = d => ready'[i].w # w
    BY <2>1, <2>2, <1>2, <1>3, <1>4 DEF CallbackInv
  <2>4. ready'[i].d \in pend'[ready'[i].w]
    BY <2>1, <2>3, <1>3, <1>6 DEF CallbackInv, TypeOK
  <2>5. ready'[i].op = "wakeup" => ~locked'[ready'[i].d]
    BY <2>1, <2>2, <1>3, <1>6 DEF CallbackInv, TypeOK
  <2>6. CASE ready'[i].d # d
    BY <2>1, <2>4, <2>5, <2>6, <1>3, <1>6, <1>7 DEF CallbackInv
  <2>7. CASE ready'[i].d = d
    BY <2>1, <2>2, <2>4, <2>7, <1>3, <1>6, <1>8 DEF CallbackInv
  <2>. QED
    BY <2>6, <2>7
<1>13. ReadyInv'
  BY <1>1, <1>12 DEF ReadyInv
<1>14. WaitersInv'
  <2> SUFFICES ASSUME NEW c \in Device
               PROVE  /\ \A i \in 1..Len(waiters'[c]) :
                           /\ pc'[waiters'[c][i]] = "acquiring"
                           /\ c \in pend'[waiters'[c][i]]
                      /\ \A i, j \in 1..Len(waiters'[c]) :
                           waiters'[c][i] = waiters'[c][j] => i = j
    BY DEF WaitersInv
  <2>1. CASE c # d
    BY <2>1, <1>6, <1>7 DEF WaitersInv, TypeOK
  <2>2. CASE c = d
    <3>1. \A i \in 1..Len(waiters[d]) :
            pc[waiters[d][i]] = "acquiring" /\ d \in pend[waiters[d][i]]
      BY DEF WaitersInv
    <3>2. \A i \in 1..Len(waiters'[d]) : waiters'[d][i] \in Worker
      BY <1>7
    <3>3. \A v \in Worker : v # w => pend'[v] = pend[v]
      BY <1>6 DEF TypeOK
    <3>4. \A i \in 1..Len(waiters'[d]) :
            pc'[waiters'[d][i]] = "acquiring" /\ d \in pend'[waiters'[d][i]]
      BY <3>1, <3>2, <3>3, <1>6, <1>8
    <3>5. \A i, j \in 1..Len(waiters'[d]) :
            waiters'[d][i] = waiters'[d][j] => i + 1 = j + 1
      BY <1>8 DEF WaitersInv
    <3>6. \A i, j \in 1..Len(waiters'[d]) : i + 1 = j + 1 => i = j
      OBVIOUS
    <3>. QED
      BY <2>2, <3>4, <3>5, <3>6
  <2>. QED
    BY <2>1, <2>2
<1>. QED
  BY <1>9, <1>10, <1>11, <1>13, <1>14

(* WorkerDeviceLock.release preserves the invariant.                       *)
LEMMA ReleaseTaskInv ==
  ASSUME IInv, NEW w \in Worker, NEW d \in Device, ReleaseTask(w, d)
  PROVE  IInv'
<1> USE DEF IInv
<1> DEFINE t == Task("release", w, d)
           rest == Tail(ready)
<1>1. /\ CallbackInv(t)
      /\ rest \in Seq(Tasks)
      /\ \A i \in 1..Len(rest) :
           rest[i] \in Tasks /\ rest[i] # t /\ CallbackInv(rest[i])
      /\ \A i, j \in 1..Len(rest) : rest[i] = rest[j] => i = j
  BY HeadFacts DEF ReleaseTask
<1>2. d \in pend[w] /\ pc[w] = "releasing"
  BY <1>1 DEF CallbackInv, Task
<1>3. owner[d] = w /\ locked[d]
  BY <1>2, NoneAssumption DEF PcInv, OwnedIffLocked
<1>4. /\ locked' = [locked EXCEPT ![d] = FALSE]
      /\ owner' = [owner EXCEPT ![d] = None]
      /\ ready' = rest \o WakeUpFirst(d)
      /\ pend' = [pend EXCEPT ![w] = @ \ {d}]
      /\ UNCHANGED <<waiters, pc>>
  BY <1>3 DEF ReleaseTask, TaskDone
<1> HIDE DEF rest
<1>5. waiters[d] \in Seq(Worker) /\ \A c \in Device : waiters[c] \in Seq(Worker)
  BY DEF TypeOK
<1>6. ASSUME NEW i \in 1..Len(rest)
      PROVE  /\ rest[i].w \in Worker /\ rest[i].d \in Device
             /\ rest[i].op \in {"acquire", "wakeup", "release"}
             /\ rest[i].w = w => rest[i].d # d
             /\ rest[i].op = "wakeup" => rest[i].d # d
  BY <1>1, <1>2, <1>3 DEF Tasks, Task, CallbackInv
<1>7. \A c \in Device : \A j \in 1..Len(waiters[c]) :
        waiters[c][j] \in Worker /\ waiters[c][j] # w
  BY <1>2, <1>5 DEF WaitersInv
<1>8. OwnedIffLocked'
  BY <1>4 DEF OwnedIffLocked, TypeOK
<1>9. PcInv'
  BY <1>2, <1>3, <1>4 DEF PcInv, TypeOK
<1>10. WaitersInv'
  BY <1>4, <1>7 DEF WaitersInv, TypeOK
<1>11. ASSUME NEW u \in Tasks, CallbackInv(u), u.w = w => u.d # d,
              u.op = "wakeup" => u.d # d
       PROVE  /\ u.d \in pend'[u.w]
              /\ u.op = "release" => pc'[u.w] = "releasing"
              /\ u.op = "acquire" => /\ pc'[u.w] = "acquiring"
                                     /\ \A j \in 1..Len(waiters'[u.d]) :
                                          waiters'[u.d][j] # u.w
              /\ u.op = "wakeup"  => /\ pc'[u.w] = "acquiring"
                                     /\ ~locked'[u.d]
                                     /\ waiters'[u.d] # <<>>
                                     /\ waiters'[u.d][1] = u.w
  <2>1. u.w \in Worker /\ u.d \in Device
    BY DEF Tasks
  <2>2. u.d \in pend'[u.w]
    BY <2>1, <1>4, <1>11 DEF CallbackInv, TypeOK
  <2>3. u.op = "wakeup" => ~locked'[u.d]
    BY <2>1, <1>4, <1>11 DEF CallbackInv, TypeOK
  <2>. QED
    BY <2>2, <2>3, <1>4, <1>11 DEF CallbackInv
<1>12. CASE waiters[d] = <<>>
  <2>1. ready' = rest
    BY <1>1, <1>4, <1>12 DEF WakeUpFirst
  <2>2. TypeOK'
    BY <2>1, <1>1, <1>4 DEF TypeOK
  <2>3. ASSUME NEW i \in 1..Len(ready')
        PROVE  CallbackInv(ready[i])'
    BY <2>1, <1>1, <1>6, <1>11 DEF CallbackInv
  <2>4. ReadyInv'
    BY <2>1, <2>3, <1>1 DEF ReadyInv
  <2>. QED
    BY <2>2, <2>4, <1>8, <1>9, <1>10
<1>13. CASE waiters[d] # <<>>
  <2> DEFINE v == waiters[d][1]
             n == Task("wakeup", v, d)
  <2>1. v \in Worker /\ v # w /\ 1 \in 1..Len(waiters[d]) /\ Head(waiters[d]) = v
    BY <1>5, <1>7, <1>13
  <2>2. pc[v] = "acquiring" /\ d \in pend[v]
    BY <2>1 DEF WaitersInv
  <2>3. n \in Tasks /\ n.op = "wakeup" /\ n.w = v /\ n.d = d
    BY <2>1 DEF Task, Tasks
  <2>4. ready' = Append(rest, n)
    BY <2>1, <2>3, <1>1, <1>4, <1>13 DEF WakeUpFirst
  <2> HIDE DEF n, v
  <2>5. /\ ready' \in Seq(Tasks)
        /\ Len(ready') = Len(rest) + 1
        /\ \A i \in 1..Len(rest) : ready'[i] = rest[i]
        /\ ready'[Len(rest) + 1] = n
        /\ Len(rest) \in Nat
    BY <2>3, <2>4, <1>1
  <2>6. TypeOK'
    BY <2>5, <1>4 DEF TypeOK
  <2>7. /\ d \in pend'[v] /\ pc'[v] = "acquiring" /\ ~locked'[d]
        /\ waiters'[d] # <<>> /\ waiters'[d][1] = v
    BY <2>1, <2>2, <1>4, <1>13 DEF TypeOK, v
  <2>8. ASSUME NEW i \in 1..Len(ready')
        PROVE  CallbackInv(ready[i])'
    <3>1. CASE i \in 1..Len(rest)
      BY <3>1, <2>5, <1>1, <1>6, <1>11 DEF CallbackInv
    <3>2. CASE i = Len(rest) + 1
      BY <3>2, <2>3, <2>5, <2>7 DEF CallbackInv
    <3>. QED
      BY <3>1, <3>2, <2>5
  <2>9. \A i \in 1..Len(rest) : rest[i] # n
    BY <1>6, <2>3
  <2>10. \A i, j \in 1..Len(ready') : ready'[i] = ready'[j] => i = j
    BY <2>5, <2>9, <1>1
  <2>11. ReadyInv'
    BY <2>8, <2>10 DEF ReadyInv
  <2>. QED
    BY <2>6, <2>11, <1>8, <1>9, <1>10
<1>. QED
  BY <1>12, <1>13

(***************************************************************************)
(* IInv is an invariant of the device locks.                               *)
(***************************************************************************)
THEOREM InductiveInvariant == Spec => []IInv
<1>1. Init => IInv
  BY DEF Init, IInv, TypeOK, OwnedIffLocked, PcInv, ReadyInv, WaitersInv
<1>2. IInv /\ [Next]_vars => IInv'
  <2> SUFFICES ASSUME IInv, [Next]_vars
               PROVE  IInv'
    OBVIOUS
  <2>1. ASSUME NEW w \in Worker, AcquireDevices(w) \/ ReleaseDevices(w) \/ Return(w)
        PROVE  IInv'
    BY <2>1, AcquireDevicesInv, ReleaseDevicesInv, ReturnInv
  <2>2. ASSUME NEW w \in Worker, NEW d \in Device,
               AcquireTask(w, d) \/ WakeupTask(w, d) \/ ReleaseTask(w, d)
        PROVE  IInv'
    BY <2>2, AcquireTaskInv, WakeupTaskInv, ReleaseTaskInv
  <2>3. CASE UNCHANGED vars
    BY <2>3 DEF vars, IInv, TypeOK, OwnedIffLocked, PcInv, ReadyInv, CallbackInv,
                WaitersInv
  <2>. QED
    BY <2>1, <2>2, <2>3 DEF Next, EventLoop
<1>. QED
  BY <1>1, <1>2, PTL DEF Spec

(***************************************************************************)
(* Every state has the types of the code's fields.                         *)
(***************************************************************************)
THEOREM TypeCorrect == Spec => []TypeOK
<1>1. IInv => TypeOK
  BY DEF IInv
<1>. QED
  BY <1>1, InductiveInvariant, PTL

(***************************************************************************)
(* Two workers that share an accelerator are never both inside their       *)
(* with-blocks, for any workers and any accelerator lists.                 *)
(***************************************************************************)
THEOREM LockExcludes == Spec => []MutualExclusion
<1>1. IInv => MutualExclusion
  <2> SUFFICES ASSUME IInv, NEW v \in Worker, NEW w \in Worker, v # w,
                      pc[v] = "holding", pc[w] = "holding"
               PROVE  Devices(v) \cap Devices(w) = {}
    BY DEF MutualExclusion
  <2>1. /\ \A d \in Devices(v) : owner[d] = v
        /\ \A d \in Devices(w) : owner[d] = w
    BY DEF IInv, PcInv
  <2>. QED
    BY <2>1
<1>. QED
  BY <1>1, InductiveInvariant, PTL

(***************************************************************************)
(* No RuntimeError and no failed assert for matched acquire/release pairs. *)
(***************************************************************************)
THEOREM LockNeverRaises == Spec => []NoLockError
<1>1. IInv => NoLockError
  BY DEF IInv, PcInv, NoLockError
<1>. QED
  BY <1>1, InductiveInvariant, PTL

-----------------------------------------------------------------------------
(***************************************************************************)
(* A step that adds no acquire callback and puts nobody in line keeps the  *)
(* order: k callbacks left the front of the loop.                          *)
(***************************************************************************)
LEMMA OrderKept ==
  ASSUME OrderInv, IInv', OwnerInv', NEW k \in Nat,
         \A i \in 1..Len(ready') : ready'[i].op = "acquire" =>
           i + k \in 1..Len(ready) /\ ready'[i] = ready[i + k],
         \A v \in Worker : \A d \in Device : InLine(v, d)' => InLine(v, d),
         \A v, w \in Worker : \A d \in Device : Ahead(v, w, d)' => Ahead(v, w, d)
  PROVE  OrderInv'
<1>1. \A w \in Worker : \A i \in 1..Len(ready') :
        AcquireAt(i, w)' => i + k \in 1..Len(ready) /\ AcquireAt(i + k, w)
  BY DEF AcquireAt
<1>2. \A i, j \in Nat : i < j => i + k < j + k
  OBVIOUS
<1>3. \A i \in 1..Len(ready') : i \in Nat
  OBVIOUS
<1>4. GatherTogether'
  <2> SUFFICES ASSUME NEW u \in Worker, NEW w \in Worker,
                      NEW i \in 1..Len(ready'), NEW j \in 1..Len(ready'),
                      NEW l \in 1..Len(ready'), i < j, j < l,
                      AcquireAt(i, w)', AcquireAt(j, u)', AcquireAt(l, w)'
               PROVE  u = w
    BY DEF GatherTogether
  <2>1. GatherTogether
    BY DEF OrderInv
  <2>. QED
    BY <1>1, <1>2, <1>3, <2>1 DEF GatherTogether
<1>5. InLineFirst'
  <2> SUFFICES ASSUME NEW u \in Worker, NEW w \in Worker, NEW d \in Device,
                      NEW i \in 1..Len(ready'), NEW j \in 1..Len(ready'), i < j,
                      AcquireAt(i, u)', AcquireAt(j, w)', InLine(w, d)'
               PROVE  u = w
    BY DEF InLineFirst
  <2>1. InLineFirst
    BY DEF OrderInv
  <2>. QED
    BY <1>1, <1>2, <1>3, <2>1 DEF InLineFirst
<1>6. AheadInAllLines'
  BY <1>1 DEF OrderInv, AheadInAllLines
<1>7. OneOrder'
  BY DEF OrderInv, OneOrder
<1>. QED
  BY <1>4, <1>5, <1>6, <1>7 DEF OrderInv

(* Whoever is ahead of another is in line.                                 *)
LEMMA AheadIsInLine ==
  ASSUME NEW v \in Worker, NEW w \in Worker, NEW d \in Device, Ahead(v, w, d)
  PROVE  InLine(v, d)
  BY DEF Ahead, InLine, Waits

(* A worker outside acquire() stands in no line, and has no acquire task.  *)
LEMMA AcquireDevicesOrder ==
  ASSUME OrderInv, NEW w \in Worker, AcquireDevices(w)
  PROVE  OrderInv'
<1>1. IInv /\ IInv' /\ pend[w] = {} /\ pc[w] = "idle"
  BY AcquireDevicesInv DEF OrderInv, IInv, PcInv, AcquireDevices
<1>2. \A i \in 1..Len(ready) : ready[i].w # w
  BY <1>1 DEF IInv, ReadyInv, CallbackInv
<1>3. \A d \in Device : ~ InLine(w, d)
  BY <1>1 DEF IInv, WaitersInv, OrderInv, OwnerInv, InLine, Waits
<1>4. \A v, u \in Worker : \A d \in Device :
        (InLine(v, d)' <=> InLine(v, d)) /\ (Ahead(v, u, d)' <=> Ahead(v, u, d))
  BY DEF AcquireDevices, InLine, Ahead, Waits
<1>5. \A i \in 1..Len(ready') :
        IF i <= Len(ready)
        THEN i \in 1..Len(ready) /\ ready'[i] = ready[i]
        ELSE ready'[i].w = w
  <2>1. /\ ready \in Seq(Tasks) /\ ready' = ready \o Gather("acquire", w)
        /\ "acquire" \in {"acquire", "release"}
    BY <1>1 DEF IInv, TypeOK, AcquireDevices
  <2>. QED
    BY <2>1, ReadyAfterGather, GatherTasks
<1>6. \A u \in Worker : \A i \in 1..Len(ready') : AcquireAt(i, u)' =>
        IF i <= Len(ready)
        THEN i \in 1..Len(ready) /\ AcquireAt(i, u) /\ u # w
        ELSE u = w
  BY <1>2, <1>5 DEF AcquireAt
<1>7. OwnerInv'
  BY <1>1, GatherType DEF OrderInv, OwnerInv, IInv, TypeOK, AcquireDevices
<1>8. Len(ready) \in Nat /\ \A i \in 1..Len(ready') : i \in Nat
  BY <1>1 DEF IInv, TypeOK
<1>9. GatherTogether'
  <2> SUFFICES ASSUME NEW u \in Worker, NEW x \in Worker,
                      NEW i \in 1..Len(ready'), NEW j \in 1..Len(ready'),
                      NEW l \in 1..Len(ready'), i < j, j < l,
                      AcquireAt(i, x)', AcquireAt(j, u)', AcquireAt(l, x)'
               PROVE  u = x
    BY DEF GatherTogether
  <2>1. CASE l <= Len(ready)
    <3>1. i <= Len(ready) /\ j <= Len(ready)
      BY <2>1, <1>8
    <3>. QED
      BY <2>1, <3>1, <1>6 DEF OrderInv, GatherTogether
  <2>2. CASE ~(l <= Len(ready))
    <3>1. x = w /\ ~(i <= Len(ready))
      BY <2>2, <1>6
    <3>2. ~(j <= Len(ready))
      BY <3>1, <1>8
    <3>. QED
      BY <3>1, <3>2, <1>6
  <2>. QED
    BY <2>1, <2>2
<1>10. InLineFirst'
  <2> SUFFICES ASSUME NEW u \in Worker, NEW x \in Worker, NEW d \in Device,
                      NEW i \in 1..Len(ready'), NEW j \in 1..Len(ready'), i < j,
                      AcquireAt(i, u)', AcquireAt(j, x)', InLine(x, d)'
               PROVE  u = x
    BY DEF InLineFirst
  <2>1. x # w
    BY <1>3, <1>4
  <2>2. j <= Len(ready)
    BY <2>1, <1>6
  <2>3. i <= Len(ready)
    BY <2>2, <1>8
  <2>. QED
    BY <2>2, <2>3, <1>4, <1>6 DEF OrderInv, InLineFirst
<1>11. AheadInAllLines'
  <2> SUFFICES ASSUME NEW v \in Worker, NEW u \in Worker, NEW d \in Device,
                      Ahead(v, u, d)', NEW i \in 1..Len(ready'), AcquireAt(i, v)'
               PROVE  FALSE
    BY DEF AheadInAllLines
  <2>1. Ahead(v, u, d) /\ v # w
    BY <1>3, <1>4, AheadIsInLine
  <2>. QED
    BY <2>1, <1>6 DEF OrderInv, AheadInAllLines
<1>12. OneOrder'
  BY <1>4 DEF OrderInv, OneOrder
<1>. QED
  BY <1>1, <1>7, <1>9, <1>10, <1>11, <1>12 DEF OrderInv

(* release_devices adds no acquire callback and leaves the lines alone.    *)
LEMMA ReleaseDevicesOrder ==
  ASSUME OrderInv, NEW w \in Worker, ReleaseDevices(w)
  PROVE  OrderInv'
<1>1. IInv /\ IInv' /\ pend[w] = {} /\ pc[w] = "holding"
  BY ReleaseDevicesInv DEF OrderInv, IInv, PcInv, ReleaseDevices
<1>2. OwnerInv'
  BY <1>1 DEF OrderInv, OwnerInv, IInv, TypeOK, ReleaseDevices
<1>3. \A i \in 1..Len(ready') : ready'[i].op = "acquire" =>
        i + 0 \in 1..Len(ready) /\ ready'[i] = ready[i + 0]
  <2>1. /\ ready \in Seq(Tasks) /\ ready' = ready \o Gather("release", w)
        /\ "release" \in {"acquire", "release"}
    BY <1>1 DEF IInv, TypeOK, ReleaseDevices
  <2>2. \A i \in 1..Len(ready') : ready'[i].op = "acquire" =>
          i \in 1..Len(ready) /\ ready'[i] = ready[i]
    BY <2>1, ReadyAfterGather, GatherTasks
  <2>. QED
    BY <2>2
<1>4. \A v, u \in Worker : \A d \in Device :
        (InLine(v, d)' => InLine(v, d)) /\ (Ahead(v, u, d)' => Ahead(v, u, d))
  BY DEF ReleaseDevices, InLine, Ahead, Waits
<1>. QED
  BY <1>1, <1>2, <1>3, <1>4, OrderKept, 0 \in Nat

(* The return of a gather moves nobody.                                    *)
LEMMA ReturnOrder ==
  ASSUME OrderInv, NEW w \in Worker, Return(w)
  PROVE  OrderInv'
<1>1. IInv /\ IInv'
  BY ReturnInv DEF OrderInv
<1>2. OwnerInv'
  BY <1>1 DEF OrderInv, OwnerInv, IInv, TypeOK, Return
<1>3. \A i \in 1..Len(ready') : ready'[i].op = "acquire" =>
        i + 0 \in 1..Len(ready) /\ ready'[i] = ready[i + 0]
  BY DEF Return
<1>4. \A v, u \in Worker : \A d \in Device :
        (InLine(v, d)' => InLine(v, d)) /\ (Ahead(v, u, d)' => Ahead(v, u, d))
  BY DEF Return, InLine, Ahead, Waits
<1>. QED
  BY <1>1, <1>2, <1>3, <1>4, OrderKept, 0 \in Nat

(***************************************************************************)
(* The worker whose acquire callback runs gets behind everyone in line for *)
(* d; whoever is in line anywhere has no acquire callback left behind this *)
(* one, so it has nobody to overtake elsewhere.                            *)
(***************************************************************************)
LEMMA AcquireTaskOrder ==
  ASSUME OrderInv, NEW w \in Worker, NEW d \in Device, AcquireTask(w, d)
  PROVE  OrderInv'
<1>1. IInv /\ IInv'
  BY AcquireTaskInv DEF OrderInv
<1>2. /\ ready[1] = Task("acquire", w, d) /\ 1 \in 1..Len(ready)
      /\ \A i \in 1..Len(ready') :
           i + 1 \in 1..Len(ready) /\ ready'[i] = ready[i + 1]
  BY <1>1, ReadyAfterTask DEF IInv, TypeOK, AcquireTask
<1>3. AcquireAt(1, w)
  BY <1>2 DEF AcquireAt, Task
<1>4. \A u \in Worker : \A i \in 1..Len(ready') :
        AcquireAt(i, u)' => i + 1 \in 1..Len(ready) /\ AcquireAt(i + 1, u)
  BY <1>2 DEF AcquireAt
<1>5. \A i \in 1..Len(ready') : i \in Nat /\ 1 < i + 1
  OBVIOUS
<1>6. /\ d \in pend[w] /\ pc[w] = "acquiring"
      /\ \A j \in 1..Len(waiters[d]) : waiters[d][j] # w
  BY <1>1, <1>2 DEF IInv, ReadyInv, CallbackInv, Task
<1>7. ~ InLine(w, d) /\ owner[d] # w
  BY <1>6 DEF OrderInv, OwnerInv, InLine, Waits
<1>8. \A u \in Worker : \A c \in Device : \A i \in 1..Len(ready') :
        InLine(u, c) /\ AcquireAt(i, u)' => u = w
  BY <1>2, <1>3, <1>4, <1>5 DEF OrderInv, InLineFirst
<1>9. \A u \in Worker : \A c \in Device : ~ Ahead(w, u, c)
  BY <1>2, <1>3 DEF OrderInv, AheadInAllLines
<1>10. waiters[d] \in Seq(Worker) /\ Len(waiters[d]) \in Nat
  BY <1>1 DEF IInv, TypeOK
<1>11. /\ \A v \in Worker : \A c \in Device :
            InLine(v, c)' => InLine(v, c) \/ (v = w /\ c = d)
       /\ \A v, u \in Worker : \A c \in Device :
            Ahead(v, u, c)' => Ahead(v, u, c) \/ (u = w /\ InLine(v, d) /\ v # w)
  <2>1. CASE CanTake(w, d)
    <3>1. owner' = [owner EXCEPT ![d] = w] /\ waiters' = waiters
      BY <2>1 DEF AcquireTask
    <3>2. waiters[d] = <<>>
      BY <2>1, <1>7 DEF CanTake
    <3>3. \A c \in Device : c # d => owner'[c] = owner[c]
      BY <3>1, <1>1 DEF IInv, TypeOK
    <3>4. \A c \in Device : \A v \in Worker : Waits(v, c)' <=> Waits(v, c)
      BY <3>1 DEF Waits
    <3>5. \A v \in Worker : ~ Waits(v, d)
      BY <3>2 DEF Waits
    <3>6. \A v \in Worker : owner'[d] = v => v = w
      BY <3>1, <1>1 DEF IInv, TypeOK
    <3>7. \A v \in Worker : \A c \in Device :
            InLine(v, c)' => InLine(v, c) \/ (v = w /\ c = d)
      BY <3>3, <3>4, <3>6 DEF InLine
    <3>8. \A v, u \in Worker : \A c \in Device : Ahead(v, u, c)' => Ahead(v, u, c)
      BY <3>1, <3>3, <3>4, <3>5 DEF Ahead
    <3>. QED
      BY <3>7, <3>8
  <2>2. CASE ~ CanTake(w, d)
    <3>1. owner' = owner /\ waiters' = [waiters EXCEPT ![d] = Append(@, w)]
      BY <2>2 DEF AcquireTask, Park
    <3>2. /\ Len(waiters'[d]) = Len(waiters[d]) + 1
          /\ \A j \in 1..Len(waiters[d]) : waiters'[d][j] = waiters[d][j]
          /\ waiters'[d][Len(waiters[d]) + 1] = w
          /\ \A c \in Device : c # d => waiters'[c] = waiters[c]
      BY <3>1, <1>1, <1>10 DEF IInv, TypeOK
    <3>3. \A j \in 1..Len(waiters'[d]) :
            \/ j \in 1..Len(waiters[d]) /\ waiters'[d][j] = waiters[d][j]
            \/ j = Len(waiters[d]) + 1 /\ waiters'[d][j] = w
      BY <3>2, <1>10
    <3>4. \A v \in Worker : \A c \in Device :
            Waits(v, c)' => Waits(v, c) \/ (v = w /\ c = d)
      BY <3>2, <3>3 DEF Waits
    <3>5. ASSUME NEW v \in Worker, NEW u \in Worker, NEW c \in Device,
                 Ahead(v, u, c)'
          PROVE  Ahead(v, u, c) \/ (u = w /\ InLine(v, d) /\ v # w)
      <4>1. CASE c # d
        BY <4>1, <3>1, <3>2, <3>5 DEF Ahead, Waits
      <4>2. CASE c = d /\ owner[d] = v /\ Waits(u, d)'
        BY <4>2, <3>4, <1>7 DEF Ahead, InLine
      <4>3. ASSUME c = d, NEW i \in 1..Len(waiters'[d]), NEW j \in 1..Len(waiters'[d]),
                   i < j, waiters'[d][i] = v, waiters'[d][j] = u
            PROVE  Ahead(v, u, c) \/ (u = w /\ InLine(v, d) /\ v # w)
        <5>1. i \in 1..Len(waiters[d]) /\ waiters[d][i] = v
          BY <4>3, <3>2, <3>3, <1>10
        <5>2. InLine(v, d) /\ v # w
          BY <5>1, <1>6 DEF InLine, Waits
        <5>. QED
          BY <4>3, <5>1, <5>2, <3>3 DEF Ahead
      <4>. QED
        BY <4>1, <4>2, <4>3, <3>1, <3>5 DEF Ahead
    <3>6. \A v \in Worker : \A c \in Device :
            InLine(v, c)' => InLine(v, c) \/ (v = w /\ c = d)
      BY <3>1, <3>4 DEF InLine
    <3>. QED
      BY <3>5, <3>6
  <2>. QED
    BY <2>1, <2>2
<1>12. OwnerInv'
  <2>1. CASE CanTake(w, d)
    <3>1. /\ owner' = [owner EXCEPT ![d] = w] /\ pc' = pc
          /\ pend' = [pend EXCEPT ![w] = @ \ {d}]
      BY <2>1 DEF AcquireTask, TaskDone
    <3>. QED
      BY <3>1, <1>1, <1>6 DEF OrderInv, OwnerInv, IInv, TypeOK
  <2>2. CASE ~ CanTake(w, d)
    BY <2>2 DEF AcquireTask, OrderInv, OwnerInv
  <2>. QED
    BY <2>1, <2>2
<1>13. GatherTogether'
  <2> SUFFICES ASSUME NEW u \in Worker, NEW x \in Worker,
                      NEW i \in 1..Len(ready'), NEW j \in 1..Len(ready'),
                      NEW l \in 1..Len(ready'), i < j, j < l,
                      AcquireAt(i, x)', AcquireAt(j, u)', AcquireAt(l, x)'
               PROVE  u = x
    BY DEF GatherTogether
  <2>1. i + 1 < j + 1 /\ j + 1 < l + 1
    BY <1>5
  <2>. QED
    BY <2>1, <1>4 DEF OrderInv, GatherTogether
<1>14. InLineFirst'
  <2> SUFFICES ASSUME NEW u \in Worker, NEW x \in Worker, NEW c \in Device,
                      NEW i \in 1..Len(ready'), NEW j \in 1..Len(ready'), i < j,
                      AcquireAt(i, u)', AcquireAt(j, x)', InLine(x, c)'
               PROVE  u = x
    BY DEF InLineFirst
  <2>1. x = w
    BY <1>8, <1>11
  <2>2. 1 < i + 1 /\ i + 1 < j + 1
    BY <1>5
  <2>. QED
    BY <2>1, <2>2, <1>2, <1>3, <1>4 DEF OrderInv, GatherTogether
<1>15. AheadInAllLines'
  <2> SUFFICES ASSUME NEW v \in Worker, NEW u \in Worker, NEW c \in Device,
                      Ahead(v, u, c)', NEW i \in 1..Len(ready'), AcquireAt(i, v)'
               PROVE  FALSE
    BY DEF AheadInAllLines
  <2>1. CASE Ahead(v, u, c)
    BY <2>1, <1>4 DEF OrderInv, AheadInAllLines
  <2>2. CASE InLine(v, d) /\ v # w
    BY <2>2, <1>8
  <2>. QED
    BY <2>1, <2>2, <1>11
<1>16. OneOrder'
  <2> SUFFICES ASSUME NEW v \in Worker, NEW u \in Worker, NEW c \in Device,
                      NEW e \in Device, Ahead(v, u, c)', Ahead(u, v, e)'
               PROVE  FALSE
    BY DEF OneOrder
  <2>. QED
    BY <1>9, <1>11 DEF OrderInv, OneOrder
<1>. QED
  BY <1>1, <1>12, <1>13, <1>14, <1>15, <1>16 DEF OrderInv

(* A woken task moves its worker from the head of the queue to owner.      *)
LEMMA WakeupTaskOrder ==
  ASSUME OrderInv, NEW w \in Worker, NEW d \in Device, WakeupTask(w, d)
  PROVE  OrderInv'
<1>1. IInv /\ IInv'
  BY WakeupTaskInv DEF OrderInv
<1>2. /\ ready[1] = Task("wakeup", w, d) /\ 1 \in 1..Len(ready)
      /\ \A i \in 1..Len(ready') :
           i + 1 \in 1..Len(ready) /\ ready'[i] = ready[i + 1]
  BY <1>1, ReadyAfterTask DEF IInv, TypeOK, WakeupTask
<1>3. /\ d \in pend[w] /\ pc[w] = "acquiring" /\ ~locked[d]
      /\ waiters[d] # <<>> /\ waiters[d][1] = w
  BY <1>1, <1>2 DEF IInv, ReadyInv, CallbackInv, Task
<1>4. owner[d] = None
  BY <1>1, <1>3 DEF IInv, OwnedIffLocked
<1>5. /\ waiters' = [waiters EXCEPT ![d] = RemoveFuture(@, w)]
      /\ owner' = [owner EXCEPT ![d] = w]
      /\ pend' = [pend EXCEPT ![w] = @ \ {d}]
      /\ pc' = pc
  BY <1>4 DEF WakeupTask, TaskDone
<1>6. waiters[d] \in Seq(Worker) /\ Len(waiters[d]) \in Nat /\ 1 \in 1..Len(waiters[d])
  BY <1>1, <1>3 DEF IInv, TypeOK
<1>7. /\ Len(waiters'[d]) = Len(waiters[d]) - 1
      /\ \A j \in 1..(Len(waiters[d]) - 1) : waiters'[d][j] = waiters[d][j + 1]
      /\ \A c \in Device : c # d => waiters'[c] = waiters[c] /\ owner'[c] = owner[c]
      /\ owner'[d] = w
  <2>1. waiters'[d] = RemoveFuture(waiters[d], w)
    BY <1>1, <1>5 DEF IInv, TypeOK
  <2>2. /\ Len(waiters'[d]) = Len(waiters[d]) - 1
        /\ \A j \in 1..(Len(waiters[d]) - 1) : waiters'[d][j] = waiters[d][j + 1]
    <3>1. /\ Len(RemoveFuture(waiters[d], w)) = Len(waiters[d]) - 1
          /\ \A j \in 1..(Len(waiters[d]) - 1) :
               RemoveFuture(waiters[d], w)[j] = waiters[d][j + 1]
      BY <1>3, <1>6, RemoveFutureHead
    <3>. QED
      BY <2>1, <3>1
  <2>. QED
    BY <2>2, <1>1, <1>5 DEF IInv, TypeOK
<1>8. \A j \in 1..Len(waiters'[d]) : /\ j + 1 \in 1..Len(waiters[d]) /\ 1 < j + 1
                                     /\ waiters'[d][j] = waiters[d][j + 1]
  BY <1>6, <1>7
<1>9. OwnerInv'
  BY <1>1, <1>3, <1>5 DEF OrderInv, OwnerInv, IInv, TypeOK
<1>10. \A v \in Worker : \A c \in Device : Waits(v, c)' => Waits(v, c)
  BY <1>7, <1>8 DEF Waits
<1>11. \A v \in Worker : \A c \in Device : InLine(v, c)' => InLine(v, c)
  BY <1>3, <1>6, <1>7, <1>10 DEF InLine, Waits
<1>12. ASSUME NEW v \in Worker, NEW u \in Worker, NEW c \in Device, Ahead(v, u, c)'
       PROVE  Ahead(v, u, c)
  <2>1. CASE c # d
    BY <2>1, <1>7, <1>12 DEF Ahead, Waits
  <2>2. CASE c = d /\ owner'[d] = v /\ Waits(u, d)'
    <3>1. PICK j \in 1..Len(waiters'[d]) : waiters'[d][j] = u
      BY <2>2 DEF Waits
    <3>. QED
      BY <2>2, <3>1, <1>3, <1>6, <1>7, <1>8 DEF Ahead
  <2>3. ASSUME c = d, NEW i \in 1..Len(waiters'[d]), NEW j \in 1..Len(waiters'[d]),
               i < j, waiters'[d][i] = v, waiters'[d][j] = u
        PROVE  Ahead(v, u, c)
    <3>1. i + 1 < j + 1
      BY <2>3
    <3>. QED
      BY <2>3, <3>1, <1>8 DEF Ahead
  <2>. QED
    BY <2>1, <2>2, <2>3, <1>12 DEF Ahead
<1>. QED
  BY <1>1, <1>2, <1>9, <1>11, <1>12, OrderKept, 1 \in Nat

(* A release takes its worker out of the line and wakes nobody but a       *)
(* waiter: the order of those who stay is the one they had.                *)
LEMMA ReleaseTaskOrder ==
  ASSUME OrderInv, NEW w \in Worker, NEW d \in Device, ReleaseTask(w, d)
  PROVE  OrderInv'
<1> DEFINE rest == Tail(ready)
<1>1. IInv /\ IInv'
  BY ReleaseTaskInv DEF OrderInv
<1>2. /\ ready[1] = Task("release", w, d) /\ 1 \in 1..Len(ready)
      /\ rest \in Seq(Tasks) /\ Len(rest) \in Nat
      /\ \A i \in 1..Len(rest) : i + 1 \in 1..Len(ready) /\ rest[i] = ready[i + 1]
  BY <1>1, ReadyAfterTask DEF IInv, TypeOK, ReleaseTask
<1>3. d \in pend[w] /\ pc[w] = "releasing"
  BY <1>1, <1>2 DEF IInv, ReadyInv, CallbackInv, Task
<1>4. owner[d] = w /\ locked[d]
  BY <1>1, <1>3, NoneAssumption DEF IInv, PcInv, OwnedIffLocked, TypeOK
<1>5. /\ owner' = [owner EXCEPT ![d] = None]
      /\ ready' = rest \o WakeUpFirst(d)
      /\ pend' = [pend EXCEPT ![w] = @ \ {d}]
      /\ UNCHANGED <<waiters, pc>>
  BY <1>4 DEF ReleaseTask, TaskDone
<1> HIDE DEF rest
<1>6. /\ WakeUpFirst(d) \in Seq(Tasks)
      /\ \A i \in 1..Len(WakeUpFirst(d)) : WakeUpFirst(d)[i].op = "wakeup"
  <2>1. CASE waiters[d] = <<>>
    BY <2>1 DEF WakeUpFirst
  <2>2. CASE waiters[d] # <<>>
    <3>1. Head(waiters[d]) \in Worker
      BY <2>2, <1>1 DEF IInv, TypeOK
    <3>2. /\ Task("wakeup", Head(waiters[d]), d) \in Tasks
          /\ Task("wakeup", Head(waiters[d]), d).op = "wakeup"
      BY <3>1 DEF Task, Tasks
    <3>3. WakeUpFirst(d) = <<Task("wakeup", Head(waiters[d]), d)>>
      BY <2>2 DEF WakeUpFirst
    <3>. QED
      BY <3>2, <3>3
  <2>. QED
    BY <2>1, <2>2
<1>7. \A i \in 1..Len(ready') : ready'[i].op = "acquire" =>
        i + 1 \in 1..Len(ready) /\ ready'[i] = ready[i + 1]
  <2>1. \A i \in 1..Len(ready') :
          \/ i \in 1..Len(rest) /\ ready'[i] = rest[i]
          \/ /\ i - Len(rest) \in 1..Len(WakeUpFirst(d))
             /\ ready'[i] = WakeUpFirst(d)[i - Len(rest)]
    BY <1>2, <1>5, <1>6
  <2>. QED
    BY <2>1, <1>2, <1>6
<1>8. OwnerInv'
  BY <1>1, <1>3, <1>4, <1>5, NoneAssumption DEF OrderInv, OwnerInv, IInv, TypeOK
<1>9. /\ owner'[d] = None /\ \A c \in Device : c # d => owner'[c] = owner[c]
      /\ \A v \in Worker : v # None
  BY <1>1, <1>5, NoneAssumption DEF IInv, TypeOK
<1>10. \A v, u \in Worker : \A c \in Device :
         (InLine(v, c)' => InLine(v, c)) /\ (Ahead(v, u, c)' => Ahead(v, u, c))
  BY <1>5, <1>9 DEF InLine, Ahead, Waits
<1>. QED
  BY <1>1, <1>7, <1>8, <1>10, OrderKept, 1 \in Nat

(***************************************************************************)
(* OrderInv is an invariant of the device locks.                           *)
(***************************************************************************)
THEOREM OrderInvariant == Spec => []OrderInv
<1>1. Init => OrderInv
  <2> SUFFICES ASSUME Init PROVE OrderInv
    OBVIOUS
  <2>1. IInv
    BY DEF Init, IInv, TypeOK, OwnedIffLocked, PcInv, ReadyInv, WaitersInv
  <2>2. OwnerInv
    BY NoneAssumption DEF Init, OwnerInv
  <2>3. ready = <<>> /\ \A d \in Device : owner[d] = None /\ waiters[d] = <<>>
    BY DEF Init
  <2>4. \A v, w \in Worker : \A d \in Device : ~ Ahead(v, w, d)
    BY <2>3, NoneAssumption DEF Ahead
  <2>. QED
    BY <2>1, <2>2, <2>3, <2>4
       DEF OrderInv, GatherTogether, InLineFirst, AheadInAllLines, OneOrder
<1>2. OrderInv /\ [Next]_vars => OrderInv'
  <2> SUFFICES ASSUME OrderInv, [Next]_vars
               PROVE  OrderInv'
    OBVIOUS
  <2>1. ASSUME NEW w \in Worker, AcquireDevices(w) \/ ReleaseDevices(w) \/ Return(w)
        PROVE  OrderInv'
    BY <2>1, AcquireDevicesOrder, ReleaseDevicesOrder, ReturnOrder
  <2>2. ASSUME NEW w \in Worker, NEW d \in Device,
               AcquireTask(w, d) \/ WakeupTask(w, d) \/ ReleaseTask(w, d)
        PROVE  OrderInv'
    BY <2>2, AcquireTaskOrder, WakeupTaskOrder, ReleaseTaskOrder
  <2>3. CASE UNCHANGED vars
    BY <2>3 DEF vars, OrderInv, IInv, TypeOK, OwnedIffLocked, PcInv, ReadyInv,
                CallbackInv, WaitersInv, OwnerInv, GatherTogether, InLineFirst,
                AheadInAllLines, OneOrder, AcquireAt, InLine, Ahead, Waits
  <2>. QED
    BY <2>1, <2>2, <2>3 DEF Next, EventLoop
<1>. QED
  BY <1>1, <1>2, PTL DEF Spec

(***************************************************************************)
(* Any two workers stand in the same order in the line of every            *)
(* accelerator they both queue for, for any accelerator lists.             *)
(***************************************************************************)
THEOREM LinesAgree == Spec => []SameOrderEverywhere
<1>1. ASSUME OrderInv, NEW v \in Worker, NEW w \in Worker, NEW d \in Device,
             Before(v, w, d)
      PROVE  Ahead(v, w, d)
  <2>1. waiters[d] \in Seq(Worker) /\ owner[d] \in Worker \cup {None}
    BY <1>1 DEF OrderInv, IInv, TypeOK
  <2>2. PICK i \in 1..Len(Line(d)), j \in 1..Len(Line(d)) :
          i < j /\ Line(d)[i] = v /\ Line(d)[j] = w
    BY <1>1 DEF Before
  <2>3. CASE owner[d] = None
    <3>1. Line(d) = waiters[d]
      BY <2>1, <2>3 DEF Line
    <3>. QED
      BY <2>2, <3>1 DEF Ahead
  <2>4. CASE owner[d] # None
    <3>1. Line(d) = <<owner[d]>> \o waiters[d] /\ owner[d] \in Worker
      BY <2>1, <2>4 DEF Line
    <3>2. \A k \in 1..Len(Line(d)) :
            \/ k = 1 /\ Line(d)[k] = owner[d]
            \/ k - 1 \in 1..Len(waiters[d]) /\ Line(d)[k] = waiters[d][k - 1]
      BY <2>1, <3>1
    <3>3. j - 1 \in 1..Len(waiters[d]) /\ waiters[d][j - 1] = w
      BY <2>2, <3>2
    <3>4. CASE i = 1
      BY <2>2, <3>2, <3>3, <3>4 DEF Ahead, Waits
    <3>5. CASE i # 1
      <4>1. i - 1 \in 1..Len(waiters[d]) /\ waiters[d][i - 1] = v /\ i - 1 < j - 1
        BY <2>2, <3>2, <3>5
      <4>. QED
        BY <3>3, <4>1 DEF Ahead
    <3>. QED
      BY <3>4, <3>5
  <2>. QED
    BY <2>3, <2>4
<1>2. OrderInv => SameOrderEverywhere
  BY <1>1 DEF OrderInv, OneOrder, SameOrderEverywhere
<1>. QED
  BY <1>2, OrderInvariant, PTL
=============================================================================
