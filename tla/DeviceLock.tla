----------------------------- MODULE DeviceLock -----------------------------
(***************************************************************************)
(* The accelerator locks of src/rlinf/scheduler/manager/lock_manager.py    *)
(* (WorkerDeviceLock, DeviceLockManager) together with the worker-side     *)
(* handle of src/rlinf/scheduler/worker/lock.py (DeviceLock).              *)
(*                                                                         *)
(* The manager is one asyncio actor: everything it runs is a callback of a *)
(* single event loop, kept here as the FIFO `ready'.  acquire_devices and  *)
(* release_devices hand one task per accelerator to asyncio.gather, which  *)
(* appends them to the loop back to back; a task that must wait parks a    *)
(* future in the lock's deque and is put back on the loop by the release   *)
(* that completes the future.                                              *)
(***************************************************************************)
EXTENDS Naturals, Sequences

CONSTANTS Worker,     \* worker addresses
          Device,     \* global accelerator ids
          accel_ids,  \* accel_ids[w]: Worker.global_accelerator_ids of w
          None        \* the value of _worker_address while nobody owns the lock

\* Each worker names a list of accelerators, each of them once.
ASSUME AccelIdsAssumption ==
  /\ accel_ids \in [Worker -> Seq(Device)]
  /\ \A w \in Worker : \A i, j \in 1..Len(accel_ids[w]) :
       accel_ids[w][i] = accel_ids[w][j] => i = j

ASSUME NoneAssumption == None \notin Worker

VARIABLES
  ready,    \* callbacks of the manager's event loop, oldest first
  locked,   \* WorkerDeviceLock._locked
  owner,    \* WorkerDeviceLock._worker_address
  waiters,  \* WorkerDeviceLock._waiters: whose future waits, oldest first
  pend,     \* accelerators whose task of the worker's gather has not finished
  pc        \* where the worker is in `with self.device_lock:'

vars == <<ready, locked, owner, waiters, pend, pc>>

Devices(w) == {accel_ids[w][i] : i \in 1..Len(accel_ids[w])}

Task(op, w, d) == [op |-> op, w |-> w, d |-> d]
Tasks == [op : {"acquire", "wakeup", "release"}, w : Worker, d : Device]

TypeOK ==
  /\ ready \in Seq(Tasks)
  /\ locked \in [Device -> BOOLEAN]
  /\ owner \in [Device -> Worker \cup {None}]
  /\ waiters \in [Device -> Seq(Worker)]
  /\ pend \in [Worker -> SUBSET Device]
  /\ pc \in [Worker -> {"idle", "acquiring", "holding", "releasing", "error"}]

Init ==
  /\ ready = <<>>
  /\ locked = [d \in Device |-> FALSE]
  /\ owner = [d \in Device |-> None]
  /\ waiters = [d \in Device |-> <<>>]
  /\ pend = [w \in Worker |-> {}]
  /\ pc = [w \in Worker |-> "idle"]

-----------------------------------------------------------------------------
(* asyncio.gather over the accelerators: one task each, in list order.     *)
Gather(op, w) ==
  [i \in 1..Len(accel_ids[w]) |-> Task(op, w, accel_ids[w][i])]

\* __enter__ / acquire: the call reaches DeviceLockManager.acquire_devices.
AcquireDevices(w) ==
  /\ pc[w] = "idle"
  /\ pc' = [pc EXCEPT ![w] = "acquiring"]
  /\ pend' = [pend EXCEPT ![w] = Devices(w)]
  /\ ready' = ready \o Gather("acquire", w)
  /\ UNCHANGED <<locked, owner, waiters>>

\* __exit__ / release: the call reaches DeviceLockManager.release_devices.
ReleaseDevices(w) ==
  /\ pc[w] = "holding"
  /\ pc' = [pc EXCEPT ![w] = "releasing"]
  /\ pend' = [pend EXCEPT ![w] = Devices(w)]
  /\ ready' = ready \o Gather("release", w)
  /\ UNCHANGED <<locked, owner, waiters>>

\* The gather has all its results and ray.get returns in the worker.
Return(w) ==
  /\ pc[w] \in {"acquiring", "releasing"}
  /\ pend[w] = {}
  /\ pc' = [pc EXCEPT ![w] = IF @ = "acquiring" THEN "holding" ELSE "idle"]
  /\ UNCHANGED <<ready, locked, owner, waiters, pend>>

TaskDone(w, d) == pend' = [pend EXCEPT ![w] = @ \ {d}]

\* A task raised: gather re-raises it in the calling worker.
TaskRaises(w) ==
  /\ pc' = [pc EXCEPT ![w] = "error"]
  /\ UNCHANGED pend

-----------------------------------------------------------------------------
(* Mutant: the fast path looks at the queue only.                          *)
CanTakeWhileLocked(w, d) == owner[d] = w \/ waiters[d] = <<>>

(* Mutant: the fast path looks at _locked only and overtakes a woken task. *)
CanTakeBarging(w, d) == owner[d] = w \/ ~locked[d]

(* The two early returns of WorkerDeviceLock.acquire: the lock is already  *)
(* the worker's, or it is free and nobody is in line for it.               *)
CanTake(w, d) == owner[d] = w \/ (~locked[d] /\ waiters[d] = <<>>)

\* Mutant: appendleft.
ParkInFront(s, w) == <<w>> \o s

\* self._waiters.append(fut)
Park(s, w) == Append(s, w)

\* WorkerDeviceLock.acquire up to its first suspension.
AcquireTask(w, d) ==
  /\ ready # <<>> /\ Head(ready) = Task("acquire", w, d)
  /\ ready' = Tail(ready)
  /\ UNCHANGED pc
  /\ IF CanTake(w, d)
       THEN /\ locked' = [locked EXCEPT ![d] = owner[d] # w \/ @]
            /\ owner' = [owner EXCEPT ![d] = w]
            /\ TaskDone(w, d)
            /\ UNCHANGED waiters
       ELSE /\ waiters' = [waiters EXCEPT ![d] = Park(@, w)]
            /\ UNCHANGED <<locked, owner, pend>>

\* deque.remove(fut): drop the oldest entry of w.
RemoveFuture(s, w) ==
  LET i == CHOOSE i \in 1..Len(s) :
             s[i] = w /\ \A j \in 1..(i - 1) : s[j] # w
  IN  [j \in 1..(Len(s) - 1) |-> IF j < i THEN s[j] ELSE s[j + 1]]

\* The rest of WorkerDeviceLock.acquire, after `await fut'; its assert fails
\* if somebody else has become the owner in the meantime.
WakeupTask(w, d) ==
  /\ ready # <<>> /\ Head(ready) = Task("wakeup", w, d)
  /\ ready' = Tail(ready)
  /\ waiters' = [waiters EXCEPT ![d] = RemoveFuture(@, w)]
  /\ locked' = [locked EXCEPT ![d] = TRUE]
  /\ IF owner[d] = None
       THEN /\ owner' = [owner EXCEPT ![d] = w]
            /\ TaskDone(w, d)
            /\ UNCHANGED pc
       ELSE TaskRaises(w) /\ UNCHANGED owner

\* Mutant: release forgets the waiters.
WakeNobody(d) == <<>>

\* asyncio.Lock._wake_up_first: complete the oldest future, if any.
WakeUpFirst(d) ==
  IF waiters[d] = <<>> THEN <<>> ELSE <<Task("wakeup", Head(waiters[d]), d)>>

\* WorkerDeviceLock.release; it raises RuntimeError if another worker owns
\* the lock or nobody has it.
ReleaseTask(w, d) ==
  /\ ready # <<>> /\ Head(ready) = Task("release", w, d)
  /\ UNCHANGED waiters
  /\ IF owner[d] \in {None, w} /\ locked[d]
       THEN /\ locked' = [locked EXCEPT ![d] = FALSE]
            /\ owner' = [owner EXCEPT ![d] = None]
            /\ ready' = Tail(ready) \o WakeUpFirst(d)
            /\ TaskDone(w, d)
            /\ UNCHANGED pc
       ELSE /\ ready' = Tail(ready)
            /\ TaskRaises(w)
            /\ UNCHANGED <<locked, owner>>

EventLoop == \E w \in Worker, d \in Device :
               AcquireTask(w, d) \/ WakeupTask(w, d) \/ ReleaseTask(w, d)

Next ==
  \/ \E w \in Worker : AcquireDevices(w) \/ ReleaseDevices(w) \/ Return(w)
  \/ EventLoop

(***************************************************************************)
(* The loop keeps running callbacks, replies are delivered, and the body   *)
(* of a with-block ends.  No worker is obliged to ask for its devices.     *)
(***************************************************************************)
Fairness ==
  /\ WF_vars(EventLoop)
  /\ \A w \in Worker : WF_vars(Return(w)) /\ WF_vars(ReleaseDevices(w))

Spec == Init /\ [][Next]_vars
FairSpec == Spec /\ Fairness

-----------------------------------------------------------------------------
(***************************************************************************)
(* Inside the with-block a worker has all its accelerators to itself: two  *)
(* workers that share an accelerator are never both past acquire()         *)
(* (worker/lock.py: "only one worker can access the accelerator resources  *)
(* at a time").                                                            *)
(***************************************************************************)
MutualExclusion ==
  \A v, w \in Worker :
    v # w /\ pc[v] = "holding" /\ pc[w] = "holding"
      => Devices(v) \cap Devices(w) = {}

(***************************************************************************)
(* Neither RuntimeError of release nor the assert after `await fut' is     *)
(* reachable from matched acquire/release pairs, although a lock that has  *)
(* been released stays ownerless until the woken task runs.                *)
(***************************************************************************)
NoLockError == \A w \in Worker : pc[w] # "error"

(***************************************************************************)
(* The inductive invariant behind MutualExclusion and NoLockError.  An     *)
(* ownerless lock is an unlocked one; what a worker's finished acquire     *)
(* tasks took is still its own; and every callback on the loop is about an *)
(* accelerator that the worker's current gather still waits for.           *)
(***************************************************************************)
OwnedIffLocked == \A d \in Device : locked[d] <=> owner[d] # None

PcInv ==
  \A w \in Worker :
    /\ pc[w] # "error"
    /\ pc[w] \in {"idle", "holding"} => pend[w] = {}
    /\ pc[w] \in {"acquiring", "holding"} =>
         \A d \in Devices(w) \ pend[w] : owner[d] = w
    /\ pc[w] = "releasing" => \A d \in pend[w] : owner[d] = w

CallbackInv(t) ==
  /\ t.d \in pend[t.w]
  /\ t.op = "release" => pc[t.w] = "releasing"
  /\ t.op = "acquire" => /\ pc[t.w] = "acquiring"
                         /\ \A j \in 1..Len(waiters[t.d]) :
                              waiters[t.d][j] # t.w
  /\ t.op = "wakeup"  => /\ pc[t.w] = "acquiring"
                         /\ ~locked[t.d]
                         /\ waiters[t.d] # <<>>
                         /\ waiters[t.d][1] = t.w

ReadyInv ==
  /\ \A i \in 1..Len(ready) : CallbackInv(ready[i])
  /\ \A i, j \in 1..Len(ready) : ready[i] = ready[j] => i = j

WaitersInv ==
  \A d \in Device :
    /\ \A i \in 1..Len(waiters[d]) :
         pc[waiters[d][i]] = "acquiring" /\ d \in pend[waiters[d][i]]
    /\ \A i, j \in 1..Len(waiters[d]) : waiters[d][i] = waiters[d][j] => i = j

IInv == TypeOK /\ OwnedIffLocked /\ PcInv /\ ReadyInv /\ WaitersInv

\* Who has the lock of d, then who waits for it, in order.
Line(d) == (IF owner[d] = None THEN <<>> ELSE <<owner[d]>>) \o waiters[d]

Before(v, w, d) == \E i, j \in 1..Len(Line(d)) :
                     i < j /\ Line(d)[i] = v /\ Line(d)[j] = w

(***************************************************************************)
(* Two workers that queue for two accelerators queue in the same order at  *)
(* both, whatever the order of their accel_ids: this is what asyncio.gather*)
(* buys, and why partially granted sets cannot wait on each other.         *)
(***************************************************************************)
SameOrderEverywhere ==
  \A v, w \in Worker : \A c, d \in Device :
    ~(Before(v, w, c) /\ Before(w, v, d))

(***************************************************************************)
(* The inductive invariant behind SameOrderEverywhere.  A worker stands in *)
(* the lines of its current gather only; the acquire callbacks of a gather *)
(* are together on the loop; of a gather that is partly in line the rest   *)
(* comes first; and a worker with somebody behind it is in all its lines.  *)
(***************************************************************************)
Waits(w, d) == \E j \in 1..Len(waiters[d]) : waiters[d][j] = w

InLine(w, d) == owner[d] = w \/ Waits(w, d)

Ahead(v, w, d) ==
  \/ owner[d] = v /\ Waits(w, d)
  \/ \E i, j \in 1..Len(waiters[d]) :
       i < j /\ waiters[d][i] = v /\ waiters[d][j] = w

OwnerInv ==
  /\ \A w \in Worker : pend[w] \subseteq Devices(w)
  /\ \A d \in Device : \A w \in Worker : owner[d] = w =>
       /\ d \in Devices(w)
       /\ \/ pc[w] \in {"acquiring", "holding"} /\ d \notin pend[w]
          \/ pc[w] = "releasing" /\ d \in pend[w]

AcquireAt(i, w) == ready[i].op = "acquire" /\ ready[i].w = w

GatherTogether ==
  \A u, w \in Worker : \A i, j, k \in 1..Len(ready) :
    i < j /\ j < k /\ AcquireAt(i, w) /\ AcquireAt(j, u) /\ AcquireAt(k, w) => u = w

InLineFirst ==
  \A u, w \in Worker : \A d \in Device : \A i, j \in 1..Len(ready) :
    i < j /\ AcquireAt(i, u) /\ AcquireAt(j, w) /\ InLine(w, d) => u = w

AheadInAllLines ==
  \A v, w \in Worker : \A d \in Device : Ahead(v, w, d) =>
    \A i \in 1..Len(ready) : ~ AcquireAt(i, v)

OneOrder ==
  \A v, w \in Worker : \A c, d \in Device : ~ (Ahead(v, w, c) /\ Ahead(w, v, d))

OrderInv ==
  IInv /\ OwnerInv /\ GatherTogether /\ InLineFirst /\ AheadInAllLines /\ OneOrder

\* Every worker that calls acquire() gets into its with-block.
AcquireReturns ==
  \A w \in Worker : (pc[w] = "acquiring") ~> (pc[w] = "holding")
=============================================================================
