---------------------------- MODULE PointToPoint ----------------------------
(***************************************************************************)
(* The CollectiveGroup of two workers: its lazy rendezvous through the       *)
(* CollectiveManager, the work queues behind send and recv with their        *)
(* threads, and the frames that an object becomes on the wire                *)
(* (src/rlinf/scheduler/collective/collective_group.py and                   *)
(* multi_channel_pg.py).                                                     *)
(*                                                                         *)
(* A frame is one two-rank broadcast of the direction's process group on its *)
(* device: it moves when a thread of the sender and a thread of the receiver *)
(* are both in it.  Of two threads in the same process group either may have *)
(* entered first.  Tensor contents, compression and net emulation are left   *)
(* out; an object is its kind, its number of CPU tensors and the devices of  *)
(* its accelerator tensors.                                                  *)
(***************************************************************************)
EXTENDS Integers, Sequences, SequencesExt

CONSTANTS Setups    \* devices and programs explored

Workers == {0, 1}                    \* by rank in the group
Threads == {"main", "send", "recv"}  \* the caller's and those of the two queues
Queues  == {"send", "recv"}
Peer(w) == 1 - w

Kinds == {"tensor", "list", "dict", "dataclass", "object"}

ASSUME P2PAssumption == \A s \in Setups :
    /\ s.relation \in {"apart", "same", "overlap"}   \* _check_same_device_with_peer
    /\ s.ccl \in BOOLEAN                            \* not _no_accel_ccl
    /\ \A w \in Workers : \A i \in DOMAIN s.program[w] :
         /\ s.program[w][i].op \in {"send", "recv", "send_tensor", "recv_tensor"}
         /\ s.program[w][i].async \in BOOLEAN

VARIABLES
    setup,
    next,        \* next[w]: calls w has started
    cur,         \* cur[w][t]: the call thread t executes, 0 if none
    script,      \* script[w][t]: what is left of it, frame by frame
    sources,     \* sources[w][t]: the sends whose frames it has received
    queue,       \* queue[w][q]: _work_queue
    done,        \* done[w][q]: _work_done
    qpc,         \* qpc[w][q]: where _run_queue is
    result,      \* result[w][i]: for a finished call, the sends it received from
    registered,  \* the CollectiveManager knows the group
    portSet,     \* and its master_port is set
    lock,        \* lock[w]: the thread in _init_process_group, "none" if free
    stage        \* stage[w]: how far it has come

callVars  == <<next, queue, done>>
execVars  == <<cur, script, sources, qpc, result>>
groupVars == <<registered, portSet, lock, stage>>
vars == <<setup, callVars, execVars, groupVars>>

Call(w, i) == setup.program[w][i]
QueueOf(op) == IF op \in {"send", "send_tensor"} THEN "send" ELSE "recv"

-----------------------------------------------------------------------------
(* Scripts.  A step is an entry into _init_process_group, or a frame sent or *)
(* received in the CPU or the accelerator group of its direction.            *)

Enter == [act |-> "init", dev |-> "cpu", kind |-> <<"init", "body">>]
Frame(act, kind) == <<[act |-> act, dev |-> "cpu", kind |-> <<kind, "body">>]>>
Sized(act, kind) == <<[act |-> act, dev |-> "cpu", kind |-> <<kind, "size">>]>>
                      \o Frame(act, kind)
\* Without an accelerator CCL the tensor is staged on the host and goes by gloo.
AccelFrame(act) == <<[act |-> act, dev |-> IF setup.ccl THEN "accel" ELSE "cpu",
                      kind |-> <<"tensor", "body">>]>>
Times(n, s) == FlattenSeq([i \in 1..n |-> s])
Back(act) == IF act = "send" THEN "recv" ELSE "send"
Count(s, d) == Len(SelectSeq(s, LAMBDA e : e = d))

\* _send_tensor_list_via_ipc and its counterpart: handles, then a zero as the
\* receiver's leave to free them.
ViaIpc(act) == Sized(act, "handles") \o Frame(act, "zero")

\* _send_tensor_list_to_uncertain_peer and its counterpart: the sender's devices
\* and the receiver's current device d are exchanged, the latter against the
\* direction of the transfer, and every tensor goes its way.
ToUncertainPeer(act, devices, d) ==
    Sized(act, "devices") \o Sized(Back(act), "device")
    \o (IF Count(devices, d) > 0 THEN ViaIpc(act) ELSE <<>>)
    \o Times(Len(devices) - Count(devices, d), AccelFrame(act))

\* The accelerator tensors of _send_tensor_list and _recv_tensor_list.
AccelTensors(act, accel, d) ==
    CASE accel = <<>> -> <<>>
      [] accel # <<>> /\ setup.relation = "overlap" -> ToUncertainPeer(act, accel, d)
      [] accel # <<>> /\ setup.relation = "same" -> ViaIpc(act)
      [] OTHER -> Times(Len(accel), AccelFrame(act))

\* Mutant: the receiver takes the accelerator tensors first.
TensorsAccelFirst(act, obj, d) ==
    IF act = "send"
    THEN Times(obj.cpu, Frame(act, "tensor")) \o AccelTensors(act, obj.accel, d)
    ELSE AccelTensors(act, obj.accel, d) \o Times(obj.cpu, Frame(act, "tensor"))

\* Behind the metadata the CPU tensors come first.
Tensors(act, obj, d) ==
    Times(obj.cpu, Frame(act, "tensor")) \o AccelTensors(act, obj.accel, d)

\* The frames behind the object type; a receiver reads on from the metadata.
Body(act, obj, d) ==
    LET list == Sized(act, "meta") \o (IF act = "send" THEN Tensors(act, obj, d) ELSE <<>>)
    IN CASE obj.kind = "object" -> Sized(act, "object")
         [] obj.kind = "dict" -> Sized(act, "keys") \o list
         [] obj.kind = "dataclass" -> list \o Sized(act, "object")
         [] OTHER -> list

\* The tensor of send_tensor and recv_tensor from device s, once s is known to
\* differ from the receiver's d or not.  The receiver of a handle takes the pair
\* (handle, piggyback) that _recv_object returns for the handle, and raises.
ToUncertainTensor(act, s, d) ==
    CASE s # d -> AccelFrame(act)
      [] act = "send" -> Sized(act, "object") \o Frame(act, "zero")
      [] OTHER -> Sized(act, "object") \o Frame("raise", "zero")

\* send_tensor and recv_tensor: no type and no metadata; a receiver reads on
\* from the sender's device.
InPlace(act, obj, d) ==
    CASE obj.accel = <<>> -> Frame(act, "tensor")
      [] obj.accel # <<>> /\ setup.relation = "same" -> ViaIpc(act)
      [] obj.accel # <<>> /\ setup.relation = "apart" -> AccelFrame(act)
      [] OTHER -> Sized(act, "device") \o Sized(Back(act), "device")
                  \o (IF act = "send" THEN ToUncertainTensor(act, obj.accel[1], d) ELSE <<>>)

Script(w, i) ==
    LET c == Call(w, i)
        d == setup.device[Peer(w)]
    IN <<Enter>> \o CASE c.op = "send" -> Frame("send", "type") \o Body("send", c.obj, d)
                      [] c.op = "recv" -> Frame("recv", "type")
                      [] c.op = "send_tensor" -> InPlace("send", c.obj, d)
                      [] OTHER -> InPlace("recv", c.obj, d)

\* What a receiver still has to do after frame f of the object obj.
ReadOn(w, f, obj, rest) ==
    CASE f.kind = <<"type", "body">> -> Body("recv", obj, setup.device[w]) \o rest
      [] f.kind = <<"meta", "body">> -> Tensors("recv", obj, setup.device[w]) \o rest
      [] f.kind = <<"device", "body">> ->
           rest \o ToUncertainTensor("recv", obj.accel[1], setup.device[w])
      [] OTHER -> rest

-----------------------------------------------------------------------------
Init ==
    /\ setup \in Setups
    /\ next = [w \in Workers |-> 0]
    /\ cur = [w \in Workers |-> [t \in Threads |-> 0]]
    /\ script = [w \in Workers |-> [t \in Threads |-> <<>>]]
    /\ sources = [w \in Workers |-> [t \in Threads |-> {}]]
    /\ queue = [w \in Workers |-> [q \in Queues |-> <<>>]]
    /\ done = [w \in Workers |-> [q \in Queues |-> TRUE]]
    /\ qpc = [w \in Workers |-> [q \in Queues |-> "check"]]
    /\ result = [w \in Workers |-> [i \in DOMAIN setup.program[w] |-> {}]]
    /\ registered = FALSE /\ portSet = FALSE
    /\ lock = [w \in Workers |-> "none"]
    /\ stage = [w \in Workers |-> "none"]

\* send, recv, send_tensor or recv_tensor with async_op: CollectiveWorkQueue.enqueue.
CallAsync(w) ==
    LET i == next[w] + 1
        q == QueueOf(Call(w, i).op)
    IN /\ next[w] < Len(setup.program[w]) /\ cur[w]["main"] = 0
       /\ Call(w, i).async
       /\ next' = [next EXCEPT ![w] = i]
       /\ done' = [done EXCEPT ![w][q] = FALSE]
       /\ queue' = [queue EXCEPT ![w][q] = Append(@, i)]
       /\ UNCHANGED <<setup, execVars, groupVars>>

\* Mutant: a synchronous call does not wait for the queue.
CallSyncAtOnce(w) ==
    LET i == next[w] + 1 IN
    /\ next[w] < Len(setup.program[w]) /\ cur[w]["main"] = 0
    /\ ~Call(w, i).async
    /\ next' = [next EXCEPT ![w] = i]
    /\ cur' = [cur EXCEPT ![w]["main"] = i]
    /\ script' = [script EXCEPT ![w]["main"] = Script(w, i)]
    /\ UNCHANGED <<setup, queue, done, sources, qpc, result, groupVars>>

\* The same without async_op: on the caller's thread, once the queue is done, ...
CallSync(w) ==
    LET i == next[w] + 1 IN
    /\ next[w] < Len(setup.program[w]) /\ cur[w]["main"] = 0
    /\ ~Call(w, i).async
    /\ done[w][QueueOf(Call(w, i).op)]
    /\ next' = [next EXCEPT ![w] = i]
    /\ cur' = [cur EXCEPT ![w]["main"] = i]
    /\ script' = [script EXCEPT ![w]["main"] = Script(w, i)]
    /\ UNCHANGED <<setup, queue, done, sources, qpc, result, groupVars>>

\* ... for which the caller spins.
Spin(w) ==
    LET i == next[w] + 1 IN
    /\ next[w] < Len(setup.program[w]) /\ cur[w]["main"] = 0
    /\ ~Call(w, i).async /\ ~done[w][QueueOf(Call(w, i).op)]
    /\ UNCHANGED vars

\* _run_queue finds its queue empty: it is done, and waits in a blocking get.
QueueEmpty(w, q) ==
    /\ qpc[w][q] = "check" /\ queue[w][q] = <<>>
    /\ done' = [done EXCEPT ![w][q] = TRUE]
    /\ qpc' = [qpc EXCEPT ![w][q] = "block"]
    /\ UNCHANGED <<setup, next, queue, cur, script, sources, result, groupVars>>

\* _run_queue takes a work, from either get, and starts it.
QueueTake(w, q) ==
    /\ qpc[w][q] \in {"check", "block"} /\ queue[w][q] # <<>>
    /\ LET i == Head(queue[w][q]) IN
       /\ cur' = [cur EXCEPT ![w][q] = i]
       /\ script' = [script EXCEPT ![w][q] = Script(w, i)]
    /\ queue' = [queue EXCEPT ![w][q] = Tail(@)]
    /\ qpc' = [qpc EXCEPT ![w][q] = "run"]
    /\ UNCHANGED <<setup, next, done, sources, result, groupVars>>

\* A work is finished, and its thread goes on.
Finish(w, t) ==
    /\ cur[w][t] # 0 /\ script[w][t] = <<>>
    /\ result' = [result EXCEPT ![w][cur[w][t]] = sources[w][t]]
    /\ cur' = [cur EXCEPT ![w][t] = 0]
    /\ sources' = [sources EXCEPT ![w][t] = {}]
    /\ qpc' = IF t = "main" THEN qpc ELSE [qpc EXCEPT ![w][t] = "check"]
    /\ UNCHANGED <<setup, callVars, script, groupVars>>

\* Thread t of w is about to do a step of kind act.
At(w, t, act) == script[w][t] # <<>> /\ Head(script[w][t]).act = act

-----------------------------------------------------------------------------
(* _init_process_group, under the lock of the group.                        *)

\* The process groups exist already, or this thread sets out to create them.
InitEnter(w, t) ==
    /\ At(w, t, "init") /\ lock[w] = "none"
    /\ IF stage[w] = "done"
       THEN /\ script' = [script EXCEPT ![w][t] = Tail(@)]
            /\ UNCHANGED <<lock, stage>>
       ELSE /\ lock' = [lock EXCEPT ![w] = t]
            /\ stage' = [stage EXCEPT ![w] = "info"]
            /\ UNCHANGED script
    /\ UNCHANGED <<setup, callVars, cur, sources, qpc, result, registered, portSet>>

\* _init_group: rank 0 registers the group, the other waits until it is known.
InitGroup(w) ==
    /\ stage[w] = "info"
    /\ w = 0 \/ registered
    /\ registered' = TRUE
    /\ stage' = [stage EXCEPT ![w] = "port"]
    /\ UNCHANGED <<setup, callVars, execVars, portSet, lock>>

\* Mutant: the port is withdrawn before the peer has joined.
InitPortWithdrawn(w) ==
    /\ stage[w] = "port"
    /\ w = 0 \/ portSet
    /\ portSet' = FALSE
    /\ stage' = [stage EXCEPT ![w] = "join"]
    /\ UNCHANGED <<setup, callVars, execVars, registered, lock>>

\* Rank 0 publishes the port, the other polls until it is published.
InitPort(w) ==
    /\ stage[w] = "port"
    /\ w = 0 \/ portSet
    /\ portSet' = TRUE
    /\ stage' = [stage EXCEPT ![w] = "join"]
    /\ UNCHANGED <<setup, callVars, execVars, registered, lock>>

\* The other rank's polls before that.
InitPoll(w) ==
    /\ w # 0
    /\ (stage[w] = "info" /\ ~registered) \/ (stage[w] = "port" /\ ~portSet)
    /\ UNCHANGED vars

\* MultiChannelProcessGroup.init returns at a rank when both ranks are in it.
InitJoin(w) ==
    /\ stage[w] = "join" /\ stage[Peer(w)] \in {"join", "joined", "done"}
    /\ stage' = [stage EXCEPT ![w] = "joined"]
    /\ UNCHANGED <<setup, callVars, execVars, registered, portSet, lock>>

\* Rank 0 withdraws the port; the lock is released and the work goes on.
InitDone(w) ==
    /\ stage[w] = "joined"
    /\ portSet' = (portSet /\ w # 0)
    /\ stage' = [stage EXCEPT ![w] = "done"]
    /\ script' = [script EXCEPT ![w][lock[w]] = Tail(@)]
    /\ lock' = [lock EXCEPT ![w] = "none"]
    /\ UNCHANGED <<setup, callVars, cur, sources, qpc, result, registered>>

Rendezvous(w) == \/ \E t \in Threads : InitEnter(w, t)
                 \/ InitGroup(w) \/ InitPort(w) \/ InitPoll(w) \/ InitJoin(w) \/ InitDone(w)

-----------------------------------------------------------------------------
\* A frame from thread t of w to thread u of its peer, in one process group.
InFrame(w, t, u) ==
    /\ At(w, t, "send") /\ At(Peer(w), u, "recv")
    /\ Head(script[w][t]).dev = Head(script[Peer(w)][u]).dev

Transfer(w, t, u) ==
    LET i == cur[w][t]
        f == Head(script[w][t])
    IN /\ InFrame(w, t, u)
       /\ Head(script[Peer(w)][u]).kind = f.kind
       /\ script' = [script EXCEPT
              ![w][t] = Tail(@),
              ![Peer(w)][u] = IF QueueOf(Call(Peer(w), cur[Peer(w)][u]).op) = "recv"
                              THEN ReadOn(Peer(w), f, Call(w, i).obj, Tail(@))
                              ELSE Tail(@)]
       /\ sources' = [sources EXCEPT ![Peer(w)][u] = @ \cup {i}]
       /\ UNCHANGED <<setup, callVars, cur, qpc, result, groupVars>>

AllReturned(w) == /\ next[w] = Len(setup.program[w])
                  /\ \A t \in Threads : cur[w][t] = 0
                  /\ \A q \in Queues : queue[w][q] = <<>>

\* Both programs are finished.
Finished == /\ \A w \in Workers : AllReturned(w) /\ \A q \in Queues : qpc[w][q] = "block"
            /\ UNCHANGED vars

Next ==
    \/ \E w \in Workers :
         \/ CallAsync(w) \/ CallSync(w) \/ Spin(w) \/ Rendezvous(w)
         \/ \E q \in Queues : QueueEmpty(w, q) \/ QueueTake(w, q)
         \/ \E t \in Threads : Finish(w, t) \/ \E u \in Threads : Transfer(w, t, u)
    \/ Finished

\* Programs are finite and every step uses something up, so weak fairness of
\* Next is that of every thread.
Spec == Init /\ [][Next]_vars
FairSpec == Spec /\ WF_vars(Next)

-----------------------------------------------------------------------------

\* The variables keep their types; a group's lock is held exactly during the
\* rendezvous, and a queue that says it is done has no work queued or running.
TypeOK ==
    /\ \A w \in Workers :
         /\ next[w] \in 0..Len(setup.program[w])
         /\ lock[w] \in Threads \cup {"none"}
         /\ stage[w] \in {"none", "info", "port", "join", "joined", "done"}
         /\ stage[w] \in {"none", "done"} <=> lock[w] = "none"
         /\ \A q \in Queues : done[w][q] => queue[w][q] = <<>> /\ qpc[w][q] # "run"
         /\ \A q \in Queues : qpc[w][q] = "run" <=> cur[w][q] # 0
    /\ registered \in BOOLEAN /\ portSet \in BOOLEAN

\* Whenever two threads are in the same process group, the receiver expects the
\* frame the sender sends: "communications of two calls of _atomic_send are
\* guaranteed to be in the same ordered as the send API is called".
FramesMatch ==
    \A w \in Workers : \A t, u \in Threads :
        InFrame(w, t, u) => Head(script[w][t]).kind = Head(script[Peer(w)][u]).kind

\* The calls of a worker that go to one queue, in program order.
CallsOf(w, q) == SelectSeq([i \in DOMAIN setup.program[w] |-> i],
                           LAMBDA i : QueueOf(Call(w, i).op) = q)

\* The n-th receiving call of a worker returns the frames of the n-th send of
\* its peer and of no other, however synchronous and asynchronous calls mix.
RecvMatchesSend ==
    \A w \in Workers : \A n \in DOMAIN CallsOf(w, "recv") :
        LET i == CallsOf(w, "recv")[n] IN
        result[w][i] \in {{}, {CallsOf(Peer(w), "send")[n]}}

\* Matching programs run to their ends: the rendezvous happens, whoever calls
\* first, and no call waits for a frame that nobody sends.
CallsReturn == <>(\A w \in Workers : AllReturned(w))
=============================================================================
