------------------------------- MODULE Channel -------------------------------
(***************************************************************************)
(* A Channel (src/rlinf/scheduler/channel/channel.py), the ChannelWorker   *)
(* actor that holds its queues (channel_worker.py) and the client-side     *)
(* futures (AsyncChannelWork and AsyncChannelCommWork of                   *)
(* src/rlinf/scheduler/collective/async_work.py).                          *)
(*                                                                         *)
(* The actor is an asyncio actor: its methods are tasks of one event loop, *)
(* run to their next suspension from the FIFO `ready'.  A put does not     *)
(* carry its item: the item, its key and its weight travel on the          *)
(* point-to-point link from the client, and whichever put task of that     *)
(* client runs next receives them.  A get's reply travels on the link back *)
(* and is claimed by the client's oldest outstanding recv; the query id    *)
(* tells whose data it is.  Code outside a worker (the driver) uses Ray    *)
(* arguments and results instead of the links.                             *)
(***************************************************************************)
EXTENDS Naturals, Sequences, SequencesExt, FiniteSets

CONSTANTS Client,    \* processes that use the channel
          Driver,    \* those of them that are not workers
          Key,       \* keys of the channel
          Setups     \* the channels and programs explored: [maxSize, program]

Ops == {"put", "put_nowait", "get", "get_nowait", "get_batch"}

\* A call: its key, the weight of the item put (or the target weight of a
\* batch), and whether the caller goes on without waiting.
Calls == [op : Ops, key : Key, weight : Nat, async : BOOLEAN]

ASSUME ChannelAssumption ==
  /\ Driver \subseteq Client
  /\ \A s \in Setups :
       /\ s.maxSize \in Nat
       /\ s.program \in [Client -> Seq(Calls)]
       /\ \A c \in Client : \A i \in 1..Len(s.program[c]) :
            s.program[c][i].op \in {"put_nowait", "get_nowait"} => ~s.program[c][i].async

VARIABLES
  setup,      \* the channel and the programs of its clients
  issued,     \* issued[c]: how many of its calls c has made
  status,     \* status[id]: "pending" until the call returns or raises
  result,     \* result[id]: the items a get has returned
  chain,      \* chain[c][k]: put futures of c on key k not yet set
  recvs,      \* recvs[c]: gets of c whose recv is outstanding, oldest first
  submitted,  \* actor calls Ray has not started yet
  returned,   \* finished actor calls whose result has not reached the client
  sent,       \* sent[c]: items on the link from c to the channel worker
  inbox,      \* inbox[c]: replies on the link back to c
  ready,      \* the channel worker's event loop
  queue,      \* _queue_map[k]._queue
  getters,    \* _queue_map[k]._getters
  putters,    \* _queue_map[k]._putters
  held,       \* local variables of a suspended task: its item, or its batch
  taken       \* history: items that have left the queue of k, in order

client == <<issued, status, result, chain, recvs>>
wire   == <<submitted, returned, sent, inbox>>
worker == <<ready, queue, getters, putters, held, taken>>
vars   == <<setup, client, wire, worker>>

MaxSize == setup.maxSize   \* maxsize of the default queue, 0 for unbounded
Program == setup.program   \* Program[c]: the calls client c makes, in order

-----------------------------------------------------------------------------
Ids == UNION {{<<c, i>> : i \in 1..Len(Program[c])} : c \in Client}

Call(id) == Program[id[1]][id[2]]
InWorker(id) == id[1] \notin Driver

\* WeightedItem, with the key that is sent along.
Item(id) == [id |-> id, key |-> Call(id).key, weight |-> Call(id).weight]
Items == {Item(id) : id \in Ids}

Puts == {id \in Ids : Call(id).op \in {"put", "put_nowait"}}
Gets == Ids \ Puts

TypeOK ==
  /\ issued \in [Client -> Nat]
  /\ status \in [Ids -> {"new", "pending", "done", "raised"}]
  /\ result \in [Ids -> Seq(Items)]
  /\ chain \in [Client -> [Key -> Seq(Ids)]]
  /\ recvs \in [Client -> Seq(Ids)]
  /\ submitted \in SUBSET Ids
  /\ \A r \in returned : /\ r.id \in Ids /\ r.out \in {"ok", "raise"}
                         /\ r.data \in Seq(Items)
  /\ sent \in [Client -> Seq(Items)]
  /\ \A c \in Client : \A n \in 1..Len(inbox[c]) :
       /\ inbox[c][n].query \in Ids \cup {<<>>}
       /\ inbox[c][n].data \in Seq(Items)
  /\ ready \in Seq(Ids)
  /\ queue \in [Key -> Seq(Items)]
  /\ getters \in [Key -> Seq(Gets)]
  /\ putters \in [Key -> Seq(Puts)]
  /\ held \in [Ids -> Seq(Items)]
  /\ taken \in [Key -> Seq(Items)]

Init ==
  /\ setup \in Setups
  /\ issued = [c \in Client |-> 0]
  /\ status = [id \in Ids |-> "new"]
  /\ result = [id \in Ids |-> <<>>]
  /\ chain = [c \in Client |-> [k \in Key |-> <<>>]]
  /\ recvs = [c \in Client |-> <<>>]
  /\ submitted = {}
  /\ returned = {}
  /\ sent = [c \in Client |-> <<>>]
  /\ inbox = [c \in Client |-> <<>>]
  /\ ready = <<>>
  /\ queue = [k \in Key |-> <<>>]
  /\ getters = [k \in Key |-> <<>>]
  /\ putters = [k \in Key |-> <<>>]
  /\ held = [id \in Ids |-> <<>>]
  /\ taken = [k \in Key |-> <<>>]

-----------------------------------------------------------------------------
(* The client.                                                             *)

\* c is past its earlier calls: it has waited for the synchronous ones.
AtCall(id) ==
  LET c == id[1] IN
  /\ id[2] = issued[c] + 1
  /\ \A i \in 1..issued[c] :
       Call(<<c, i>>).async \/ status[<<c, i>>] \in {"done", "raised"}
  /\ issued' = [issued EXCEPT ![c] = id[2]]
  /\ status' = [status EXCEPT ![id] = "pending"]

\* Mutant: puts of one key are not chained.
ExecutesAtOnce(futures, id) == {id}

\* AsyncChannelWork.__init__: the actor method runs now if there is no
\* unfinished future before it.
Executes(futures, id) == IF futures = <<>> THEN {id} ELSE {}

\* put / put_nowait in a worker: AsyncChannelWork runs the actor method at
\* once if no earlier put of this process on this key is unfinished and
\* chains it to that put otherwise; then the item is sent.
WorkerPut(id) ==
  LET c == id[1]
      k == Call(id).key
  IN /\ id \in Puts /\ InWorker(id)
     /\ AtCall(id)
     /\ submitted' = submitted \cup Executes(chain[c][k], id)
     /\ chain' = [chain EXCEPT ![c][k] = Append(@, id)]
     /\ sent' = [sent EXCEPT ![c] = Append(@, Item(id))]
     /\ UNCHANGED <<setup, result, recvs, returned, inbox, worker>>

\* get / get_nowait / get_batch in a worker: call the actor, post a recv.
WorkerGet(id) ==
  LET c == id[1] IN
  /\ id \in Gets /\ InWorker(id)
  /\ AtCall(id)
  /\ submitted' = submitted \cup {id}
  /\ recvs' = [recvs EXCEPT ![c] = Append(@, id)]
  /\ UNCHANGED <<setup, result, chain, returned, sent, inbox, worker>>

\* Outside a worker every call is one Ray call.
DriverCall(id) ==
  /\ ~InWorker(id)
  /\ AtCall(id)
  /\ submitted' = submitted \cup {id}
  /\ UNCHANGED <<setup, result, chain, recvs, returned, sent, inbox, worker>>

\* Mutant: the future is set but nothing is chained to it.
ChainedToNothing(futures) == {}

\* The put that last_fut.then(...) has chained to the head of the futures.
Chained(futures) == IF Len(futures) > 1 THEN {futures[2]} ELSE {}

\* The done-callback of AsyncChannelWork._execute: set the future, which
\* starts the next put of the chain.  If the actor method raised, f.result()
\* raises inside the callback and the future is never set.
PutCallback(r) ==
  LET c == r.id[1]
      k == Call(r.id).key
  IN /\ r \in returned /\ InWorker(r.id)
     /\ returned' = returned \ {r}
     /\ IF r.out = "raise"
          THEN UNCHANGED <<status, chain, submitted>>
          ELSE /\ status' = [status EXCEPT ![r.id] = "done"]
               /\ chain' = [chain EXCEPT ![c][k] = RemoveFirst(@, r.id)]
               /\ submitted' = submitted \cup Chained(chain[c][k])
     /\ UNCHANGED <<setup, issued, result, recvs, sent, inbox, worker>>

\* ray.get of a driver's call returns or raises.
DriverReturn(r) ==
  /\ r \in returned /\ ~InWorker(r.id)
  /\ returned' = returned \ {r}
  /\ status' = [status EXCEPT ![r.id] = IF r.out = "raise" THEN "raised" ELSE "done"]
  /\ result' = [result EXCEPT ![r.id] = r.data]
  /\ UNCHANGED <<setup, issued, chain, recvs, submitted, sent, inbox, worker>>

\* Mutant: every get keeps what its own recv received.
RecipientOfRecv(id, m) == id

\* Whose data the reply m is, when it completes the recv of id.
Recipient(id, m) == IF Call(id).async THEN m.query ELSE id

\* The oldest reply completes the oldest recv of c.  An asynchronous get
\* files the data under the query id it came with (channel_data_store); a
\* synchronous one returns it whatever the query id, and get_nowait raises
\* QueueEmpty (query id <<>>).
Deliver(c) ==
  LET id == Head(recvs[c])
      m  == Head(inbox[c])
      to == Recipient(id, m)
  IN /\ recvs[c] # <<>> /\ inbox[c] # <<>>
     /\ recvs' = [recvs EXCEPT ![c] = Tail(@)]
     /\ inbox' = [inbox EXCEPT ![c] = Tail(@)]
     /\ IF to \in Ids /\ (to = id \/ Call(to).async)
          THEN /\ status' = [status EXCEPT ![to] =
                    IF m.query = <<>> /\ Call(to).op = "get_nowait"
                    THEN "raised" ELSE "done"]
               /\ result' = [result EXCEPT ![to] = m.data]
          ELSE UNCHANGED <<status, result>>   \* filed where nobody waits
     /\ UNCHANGED <<setup, issued, chain, submitted, returned, sent, worker>>

-----------------------------------------------------------------------------
(* The channel worker.                                                     *)

\* Ray starts a call on the actor's loop, in any order.
Start(id) ==
  /\ id \in submitted
  /\ submitted' = submitted \ {id}
  /\ ready' = Append(ready, id)
  /\ UNCHANGED <<setup, client, returned, sent, inbox, queue, getters, putters, held, taken>>

Running(id) == ready # <<>> /\ Head(ready) = id

Full(k) == MaxSize > 0 /\ Len(queue[k]) >= MaxSize

\* asyncio.Queue._wakeup_next, n times: the first n futures of w complete.
Woken(w, n) == SubSeq(w, 1, IF n < Len(w) THEN n ELSE Len(w))
Asleep(w, n) == SubSeq(w, n + 1, Len(w))

\* put and put_via_ray.  The key is the received item's.  A full queue
\* suspends the task, which looks again when it is woken, or raises.
RunPut(id) ==
  LET c     == id[1]
      fresh == held[id] = <<>>
      item  == IF ~fresh THEN held[id][1]
               ELSE IF InWorker(id) THEN Head(sent[c]) ELSE Item(id)
      k     == item.key
  IN /\ id \in Puts /\ Running(id)
     /\ fresh /\ InWorker(id) => sent[c] # <<>>      \* recv blocks the loop
     /\ sent' = IF fresh /\ InWorker(id) THEN [sent EXCEPT ![c] = Tail(@)] ELSE sent
     /\ \/ /\ ~Full(k)
           /\ queue' = [queue EXCEPT ![k] = Append(@, item)]
           /\ ready' = Tail(ready) \o Woken(getters[k], 1)
           /\ getters' = [getters EXCEPT ![k] = Asleep(@, 1)]
           /\ held' = [held EXCEPT ![id] = <<>>]
           /\ returned' = returned \cup {[id |-> id, out |-> "ok", data |-> <<>>]}
           /\ UNCHANGED putters
        \/ /\ Full(k) /\ Call(id).op = "put"
           /\ putters' = [putters EXCEPT ![k] = Append(@, id)]
           /\ held' = [held EXCEPT ![id] = <<item>>]
           /\ ready' = Tail(ready)
           /\ UNCHANGED <<queue, getters, returned>>
        \/ /\ Full(k) /\ Call(id).op = "put_nowait"
           /\ returned' = returned \cup {[id |-> id, out |-> "raise", data |-> <<>>]}
           /\ ready' = Tail(ready)
           /\ UNCHANGED <<queue, getters, putters, held>>
     /\ UNCHANGED <<setup, client, submitted, inbox, taken>>

\* The end of a get: send the data with the query id, or return it.
Answer(id, query, data) ==
  IF InWorker(id)
  THEN /\ inbox' = [inbox EXCEPT ![id[1]] =
                      Append(@, [query |-> query, data |-> data])]
       /\ UNCHANGED returned
  ELSE /\ returned' = returned \cup
            {[id |-> id, out |-> IF query = <<>> THEN "raise" ELSE "ok", data |-> data]}
       /\ UNCHANGED inbox

\* Mutant: the items are only peeked at.
PeekItems(k, n) ==
  /\ UNCHANGED queue
  /\ taken' = [taken EXCEPT ![k] = @ \o SubSeq(queue[k], 1, n)]
  /\ ready' = Tail(ready) \o Woken(putters[k], n)
  /\ putters' = [putters EXCEPT ![k] = Asleep(@, n)]

\* n items leave the queue of k, each waking one putter.
TakeItems(k, n) ==
  /\ queue' = [queue EXCEPT ![k] = SubSeq(@, n + 1, Len(@))]
  /\ taken' = [taken EXCEPT ![k] = @ \o SubSeq(queue[k], 1, n)]
  /\ ready' = Tail(ready) \o Woken(putters[k], n)
  /\ putters' = [putters EXCEPT ![k] = Asleep(@, n)]

\* get and get_via_ray.
RunGet(id) ==
  LET k == Call(id).key IN
  /\ Call(id).op \in {"get", "get_nowait"} /\ Running(id)
  /\ \/ /\ queue[k] # <<>>
        /\ Answer(id, id, <<Head(queue[k])>>)
        /\ TakeItems(k, 1)
        /\ UNCHANGED getters
     \/ /\ queue[k] = <<>> /\ Call(id).op = "get"
        /\ getters' = [getters EXCEPT ![k] = Append(@, id)]
        /\ ready' = Tail(ready)
        /\ UNCHANGED <<queue, taken, putters, inbox, returned>>
     \/ /\ queue[k] = <<>> /\ Call(id).op = "get_nowait"
        /\ Answer(id, <<>>, <<>>)
        /\ ready' = Tail(ready)
        /\ UNCHANGED <<queue, taken, putters, getters>>
  /\ UNCHANGED <<setup, client, submitted, sent, held>>

Weight(s) == FoldLeft(LAMBDA w, item : w + item.weight, 0, s)

\* Mutant: as the documentation has it, the loop stops once the weight has
\* reached or exceeded the target and looks at no item before taking it.
BatchLengthReaching(batch, q, target) ==
  LET upto(n) == Weight(batch \o SubSeq(q, 1, n)) IN
  Max({n \in 0..Len(q) : \A j \in 1..n : ~(j > 1 /\ upto(j - 1) >= target)})

\* How many items of q the loop of get_batch takes when it already has
\* `batch': it stops before an item that would exceed the target and after
\* one that reaches it.
BatchLength(batch, q, target) ==
  LET upto(n) == Weight(batch \o SubSeq(q, 1, n)) IN
  Max({n \in 0..Len(q) : \A j \in 1..n :
         upto(j) <= target /\ ~(j > 1 /\ upto(j - 1) >= target)})

\* get_batch and get_batch_via_ray, up to the next suspension.  Neither peek
\* nor get suspends while the queue has items, so the items taken are the
\* items peeked at; peek waits in the getters like get does.
RunGetBatch(id) ==
  LET k     == Call(id).key
      n     == BatchLength(held[id], queue[k], Call(id).weight)
      batch == held[id] \o SubSeq(queue[k], 1, n)
      over  == n < Len(queue[k]) \/ (n > 0 /\ Weight(batch) >= Call(id).weight)
  IN /\ Call(id).op = "get_batch" /\ Running(id)
     /\ TakeItems(k, n)
     /\ \/ /\ over
           /\ Answer(id, id, batch)
           /\ held' = [held EXCEPT ![id] = <<>>]
           /\ UNCHANGED getters
        \/ /\ ~over
           /\ getters' = [getters EXCEPT ![k] = Append(@, id)]
           /\ held' = [held EXCEPT ![id] = batch]
           /\ UNCHANGED <<inbox, returned>>
     /\ UNCHANGED <<setup, client, submitted, sent>>

EventLoop == \E id \in Ids : RunPut(id) \/ RunGet(id) \/ RunGetBatch(id)

Next ==
  \/ \E id \in Ids : WorkerPut(id) \/ WorkerGet(id) \/ DriverCall(id) \/ Start(id)
  \/ \E r \in returned : PutCallback(r) \/ DriverReturn(r)
  \/ \E c \in Client : Deliver(c)
  \/ EventLoop

(***************************************************************************)
(* Ray starts calls and returns their results, the links deliver, the loop *)
(* runs its callbacks, and a client goes on with its program.  Programs    *)
(* are finite and every step uses something up, so weak fairness of Next   *)
(* is weak fairness of each of these.                                      *)
(***************************************************************************)
Fairness == WF_vars(Next)

Spec == Init /\ [][Next]_vars
FairSpec == Spec /\ Fairness

-----------------------------------------------------------------------------
(* What the properties below ask of the programs.  Section 5 of the README *)
(* says what happens to programs that do not keep to it.                   *)

IsGet(call) == call.op \notin {"put", "put_nowait"}

(***************************************************************************)
(* No worker makes a synchronous get after an asynchronous one: a          *)
(* synchronous get returns what its recv receives, whoever it is for       *)
(* (channel.py:513).  RightItems, BatchesFilled and ExactlyOnce need it.   *)
(***************************************************************************)
SyncGetsFirst ==
  \A s \in Setups, c \in Client \ Driver : \A i, j \in 1..Len(s.program[c]) :
    i < j /\ IsGet(s.program[c][i]) /\ IsGet(s.program[c][j]) /\ s.program[c][i].async
      => s.program[c][j].async

(***************************************************************************)
(* The driver waits for each of its puts, and on a bounded channel a       *)
(* worker puts on one key: a put task may receive an item of another key,  *)
(* suspend on that key's full queue and be overtaken.  PerClientFifo needs *)
(* it.                                                                     *)
(***************************************************************************)
FifoPrograms ==
  \A s \in Setups :
    /\ \A c \in Driver : \A i \in 1..Len(s.program[c]) :
         IsGet(s.program[c][i]) \/ ~s.program[c][i].async
    /\ s.maxSize = 0 \/ \A c \in Client \ Driver : \A i, j \in 1..Len(s.program[c]) :
         IsGet(s.program[c][i]) \/ IsGet(s.program[c][j])
           \/ s.program[c][i].key = s.program[c][j].key

(***************************************************************************)
(* On a bounded channel no worker puts without waiting: a put_nowait that  *)
(* finds the queue full has already received an item, which may be         *)
(* another put's (channel_worker.py).  ExactlyOnce needs it.               *)
(***************************************************************************)
BlockingPuts ==
  \A s \in Setups : s.maxSize = 0 \/
    \A c \in Client \ Driver : \A i \in 1..Len(s.program[c]) :
      s.program[c][i].op # "put_nowait"

-----------------------------------------------------------------------------
(***************************************************************************)
(* Where an item is: on the link, in the hands of a put task, in a queue,  *)
(* in a batch being formed, on the way back or returned.                   *)
(***************************************************************************)
PlacesIn(s, item, label) == {<<label, n>> : n \in {n \in 1..Len(s) : s[n] = item}}

Places(item) ==
  UNION ({PlacesIn(sent[c], item, <<"sent", c>>) : c \in Client}
    \cup {PlacesIn(queue[k], item, <<"queue", k>>) : k \in Key}
    \cup {PlacesIn(held[id], item, <<"held", id>>) : id \in Ids}
    \cup {PlacesIn(result[id], item, <<"result", id>>) : id \in Ids}
    \cup {PlacesIn(r.data, item, <<"returned", r.id>>) : r \in returned}
    \cup {UNION {PlacesIn(inbox[c][n].data, item, <<"inbox", c, n>>) :
                   n \in 1..Len(inbox[c])} : c \in Client})

(***************************************************************************)
(* The item of a worker's put is at every moment in exactly one place: it  *)
(* is never lost or handed out twice, although put tasks receive whatever  *)
(* item comes next and replies are claimed by whichever recv is oldest.    *)
(***************************************************************************)
ExactlyOnce ==
  \A id \in Puts :
    InWorker(id) /\ Call(id).op = "put" /\ status[id] # "new"
      => Cardinality(Places(Item(id))) = 1

(***************************************************************************)
(* "A FIFO queue-like channel" (channel.py:39): the items one client puts  *)
(* on one key enter and leave its queue in the order of the calls.         *)
(***************************************************************************)
PerClientFifo ==
  \A k \in Key : LET s == taken[k] \o queue[k] IN
    \A m, n \in 1..Len(s) :
      m < n /\ s[m].id[1] = s[n].id[1] => s[m].id[2] < s[n].id[2]

(***************************************************************************)
(* A get returns items that were put on its key (channel.py, Key-based     *)
(* routing), although all replies to a client share one link.              *)
(***************************************************************************)
RightItems ==
  \A id \in Gets : \A n \in 1..Len(result[id]) : result[id][n].key = Call(id).key

\* Why get_batch ended a batch: it has reached its target, or an item that
\* came to the queue of its key after all of the batch's would exceed it.
Stopped(id, batch) ==
  LET line == taken[Call(id).key] \o queue[Call(id).key] IN
  \/ Weight(batch) >= Call(id).weight
  \/ \E n \in 1..Len(line) :
       /\ Range(batch) \subseteq Range(SubSeq(line, 1, n - 1))
       /\ ~(Weight(Append(batch, line[n])) <= Call(id).weight)

(***************************************************************************)
(* A batch is as full as it can be: get_batch collects items "until the    *)
(* total weight of the items is about to (i.e., the next item will) exceed *)
(* the set batch weight" (channel.py:571).  A returned batch never weighs  *)
(* more than its target, and weighs less only if the next item, still to   *)
(* be taken by someone, would exceed it, whatever other gets took from the *)
(* queue while the batch was formed.                                       *)
(***************************************************************************)
BatchesFilled ==
  \A id \in Gets : Call(id).op = "get_batch" /\ status[id] = "done" =>
    Weight(result[id]) <= Call(id).weight /\ Stopped(id, result[id])

(***************************************************************************)
(* Every call returns or raises, when every get finds an item to take and  *)
(* every put eventually finds room.                                        *)
(***************************************************************************)
CallsReturn == <>(\A id \in Ids : status[id] \in {"done", "raised"})
=============================================================================
