# RLinf: a TLA+ verification project

RLinf is a reinforcement-learning infrastructure for large models: training
(actor), generation (rollout), inference and environments run as groups of Ray
workers that exchange data through channels, share accelerators, and, in the
`auto` placement mode, hand GPUs to one another while a training step is under
way. This directory holds TLA+ models of the parts of that infrastructure in
which several coroutines and processes have to agree, TLC configurations that
check them on small instances, and TLAPS proofs for every instance.

The numerical code, the model and simulator adapters and the configuration of
experiments, which are most of the repository, are outside the scope.

## 1. Inventory

| Component | State it keeps | Operations | Talks to |
|---|---|---|---|
| Device lock (`scheduler/manager/lock_manager.py`, `scheduler/worker/lock.py`) | per accelerator: locked, owner address, deque of futures | `acquire_devices`, `release_devices` | every worker's `with self.device_lock` |
| Port lock (same files, `Worker.acquire_free_port`, `Cluster.find_free_port`) | `_port_locks`, the daemon's view of dead workers | `acquire`, `_release_daemon` | every worker that opens a socket |
| Channel (`scheduler/channel/*`, `collective/async_work.py`) | per key a `PeekQueue` with getters and putters; per client a chain of put futures and outstanding recvs | `put`, `put_nowait`, `get`, `get_nowait`, `get_batch` | clients by point-to-point links, the driver by Ray |
| Dynamic scheduler (`scheduler/dynamic_scheduler/*`) | instance counters of three managers, `available_gpu_num`, reports; per rollout instance a request and a response queue | `pre_process`, `main_loop`: release, migrate, finish, allocate | rollout, inference and actor workers |
| Rollout instance (`workers/rollout/*`, `data/schema/reasoning_requests.py`) | `RunningStatusManager` (running, aborted, done groups, an event); per group the completed and aborted indices and the results | `rollout`, `_async_generate_group`, `abort_generation` | engine, scheduler, output channel |
| Megatron actor and inference (`workers/megatron_worker.py`) | world size, train step | `run_training_pipeline`, scale, offload signal | scheduler, channels |
| Placement (`utils/placement.py`) | GPU ranges of the components | `_generate_placements` | read by all |
| Reasoning runner (`runners/reasoning_runner.py`) | global step | `run` | starts all of the above |
| Collectives (`scheduler/collective/*`, `manager/coll_manager.py`) | per group a send and a receive work queue with their threads, process groups per direction and device, the manager's registry | `send`, `recv`, `send_tensor`, `recv_tensor`, `_init_process_group` | channel, weight syncer, env and rollout workers |
| Weight syncer (`hybrid_engines/weight_syncer/*`) | the patch builder's snapshot; the receiver's model and version | `sync`, `apply` | actor to rollout |
| Asynchronous embodied training (`runners/async_ppo_embodied_runner.py`, `runners/async_weight_sync_mixin.py`, the `async_*` workers of actor, rollout and env) | pending sync handles; `_weight_sync_*` of each rollout worker; receive queue and `PriorityStore` of the actor | training step, `update_rollout_weights`, `request_actor_sync_model`, `_generate`, `_interact`, stop | channels, weight syncer |
| Replay storage (`data/storage/replay/*`) | index, window, slot cache, save executor, files, checkpoints, preload queue | `add_trajectories`, `sample`, `save_checkpoint`, `load_checkpoint`, `close` | SAC actor, data collector |
| Worker groups, cluster and node managers, agents, models, environments, data sets | see `PROJECT.json` | | mostly not modelled (section 8) |

What is hard here, and what the properties are about:

* one asyncio loop runs many suspended calls: a lock or a queue slot is free
  between the moment it is released and the moment the woken call runs;
* data and control travel separately: a channel put's actor call does not carry
  the item, a reply is claimed by the oldest recv whoever it is for;
* the rollout's coroutine and the scheduler's coroutine on the same worker share
  a status manager and an event, and each awaits in the middle of its work;
* the scheduler decides from reports that are out of date when it acts;
* scheduler, actor, inference and rollout wait for each other within a step;
* an abort meets sequences in any state, and their parts are merged later,
  perhaps on another machine, perhaps several times;
* a rollout worker samples while new weights arrive on the same event loop, and
  the sender computes patches against a snapshot that no receiver confirms;
* background synchronisations are dropped, or merged, while one is in flight;
* a trajectory grows stale in a channel, a queue and a store before it is used;
* a synchronous send overtakes, or waits for, asynchronous ones on other threads,
  and both ends must walk through the same frames of an object;
* the replay buffer is added to, sampled, saved and checkpointed by different
  threads, and its process may die between any two of their steps;
* the port daemon frees the ports of workers it saw dead some time ago;
* GPU accounting rounds in both directions over sizes that need not divide each
  other, and its counters outlive a global step.

`PROJECT.json` lists each of these as a hazard at its source line, with the
properties that would catch it.

## 2. Modules

```
SchedulerResources      constants of a cluster, sizes and policies as functions
   |          |
GpuLedger <-- DynamicScheduler       (refinement: KeepsLedger)
   |          |
GpuLedgerProofs <-- DynamicSchedulerProofs

PolicyRegister <-- AsyncTraining     (refinement: ImplementsRegister)
                      |
              AsyncTrainingProofs

Sharding <-- ReplayBuffer            DeviceLock -- DeviceLockProofs
                 |                   PortLock -- PortLockProofs
        ReplayBufferProofs           SeqGroup -- SeqGroupProofs
                                     Channel -- ChannelProofs
                                     PointToPoint
```

Each `MC*` module extends the module after which it is named and gives the
values that a `.cfg` cannot express. Each component states the types of its
variables in `TypeOK`: it is proved for DeviceLock, GpuLedger, PortLock, Channel,
DynamicScheduler, SeqGroup and ReplayBuffer, and, as far as a weight sync goes (`SyncTypeOK`), for
AsyncTraining. The runs leave it out and spend their time on what is hard to get
right; it holds in every passing run below when added to its configuration, and so
do the inductive invariants that the proofs use.

### DeviceLock

`DeviceLockManager` is an asyncio actor; `ready` is its event loop, a FIFO of
callbacks. `acquire_devices` and `release_devices` append one task per
accelerator (`asyncio.gather`), in the order of the worker's list, and
`EventLoop` runs the oldest. `locked`, `owner`, `waiters` are the fields of each
`WorkerDeviceLock`. A release empties `owner`, unlocks and puts the first waiter
back on the loop, so the lock is up for grabs until that callback runs; what
keeps others off it is that `acquire` also looks at the waiters (`CanTake`).
`pc` and `pend` are the worker's side. Both `RuntimeError`s and the assertion
after the await lead to `pc = "error"`. Cancelling an acquire is left out: no
caller does it.

### PortLock

`AcquireFreePort` is the probe of `find_free_port` (bind any unused port, close
it) and the call to the manager; `Acquire` the manager's method, which runs even
if its caller has died since; `AcquireReturns` the loop of `acquire_free_port`.
The daemon's turn is `DaemonSnapshot`, then per holder `CheckWorkerAlive` or
`CheckFails` (the branch that takes a failed query for "alive"), then `DaemonPop`,
each under its own hold of `_lock`. A process is a name and a `life`: a worker may
be started again under a dead one's name. Nothing else releases a port.

### Channel

One channel worker and its clients. A client is a process; `Program[c]` is the
list of calls it makes, synchronous or not, and a call is named by its client
and position. The path of a put is `WorkerPut` (send the item, create the
future, which waits for the previous one of its key), `Start` (Ray starts the
actor call; calls of different puts start in any order), `RunPut` on the event
loop (receive the *next* item of the link, suspend while its queue is full),
`PutCallback`. The path of a get is `WorkerGet`, `Start`, `RunGet` or
`RunGetBatch`, `Deliver` (the client's oldest recv takes the reply; an
asynchronous one files it under its query id). Clients outside a worker pass
items and results through Ray (`DriverCall`, `DriverReturn`). The wakeups of
`asyncio.Queue` (`Woken`, `Asleep`) and Ray's call scheduling are external and
modelled from their use. `taken` is a history variable for `PerClientFifo` and
`BatchesFilled`. `BatchLength` is how far the loop of `get_batch` goes: it ends when
the target is reached or the item it peeks at would exceed it. `Stopped` says the
same of a finished batch by what came to the queue, whoever took it since.
The set-ups of `MCChannel` give the queue's size and the programs; they satisfy
`SyncGetsFirst`, `FifoPrograms` and `BlockingPuts`, which say what the four safety
properties ask of a program (section 5) and are the hypotheses of their proofs.

### PointToPoint

The `CollectiveGroup` of two workers, under the links Channel assumes. A worker
has three threads: the caller's and those of its send and receive
`CollectiveWorkQueue`. `CallAsync` enqueues, `CallSync` runs on the caller's thread
once `_work_done` is set (`Spin` until then), `QueueEmpty` and `QueueTake` are the
two gets of `_run_queue`. A call is a `Script`: the list of frames that its kind of
object (tensor, list, dict, dataclass, other) becomes for the device relation of
the two workers (`apart`, `same`, `overlap`), with or without an accelerator CCL;
a receiver learns the rest of its script from the type and the metadata
(`ReadOn`). `Transfer` moves one frame when a sending and a receiving thread are in
the same process group. `_init_process_group`, under the group's lock, is the
sequence `InitEnter` ... `InitDone`, against the `CollectiveManager`'s registry and
master port.

### SchedulerResources and GpuLedger

`SchedulerResources` has the constants of a cluster and, as plain functions, the
GPU layout of the AUTO placement, `get_valid_dp_sizes`, and the arithmetic of
`try_allocate`, `find_release_instance_num_needed` and `migrate_policy`.

`GpuLedger` is the abstract specification of the scheduler: one global step as a
sequence of turns of the three managers over `cur` (their
`current_instance_num`) and `available` (`available_gpu_num`). It leaves open
how many instances the rollout releases, as long as it is a number that
`release_resource` can arrive at.

### DynamicScheduler

The same managers with the messages it takes: the scheduler's coroutine (`spc`
says where it awaits), the request and response queues of every rollout
instance, the two coroutines on it (`RolloutCoroutine`: `rollout()`; `MainLoop`:
`RolloutScalingScheduler.main_loop`) with their `RunningStatusManager` (`inst`),
the actor's training loop, the inference's offload signal, and the runner's next
global step. An action is what runs between two awaits; in particular `rollout()`
suspends in `asyncio.wait`, in the put of a result (between taking a group and
marking it done), in `wait_notification` and in `offload_engine`. A sequence
group is one unit here: generated, completed, or aborted (`gen`).

`Ledger` instantiates `GpuLedger` with `turn` read off `spc`; the property
`KeepsLedger` is the whole specification of `GpuLedger`.

### AsyncTraining and PolicyRegister

Asynchronous PPO as a whole. The runner's `run` (`pc`) boots with a blocking sync,
then repeats: wait for the actor's store until it is full and has enough on-policy
samples (`ConstructRolloutBatch`; `mode.onPolicy` is `on_policy_min_ratio` in
hundredths), train, set the step, synchronise
(blocking, or `no_wait` with coalescing), and finally drains and stops. The
actor's thread receives trajectories (`RecvRolloutTrajectory`), `Received` drains them into
its priority store (`StoreAdd`, `RemoveBelow`). `SyncModelToRollout` puts the messages of the weight
syncer on every worker's link: one patch against `snap`, or one bucket per
parameter; `SyncModelFromActor` loads one message. The first patch brings what
`init_sync` has the sender transfer (`mode.init`); the rest the receivers have
loaded themselves (`Loaded`, section 6). `RequestActorSyncModel`,
`RequestResumes` and the poll in `Predict` are the background sync of
`AsyncMultiStepRolloutWorker` with its counters (`sync`, `target`). `Predict`,
`EnvResumes`, `EnvStep` and `EnvFinish` are the two loops that exchange
observations and actions; a trajectory is what the actor reads off its versions.
A weight is the number of the training step that last changed it.

`PolicyRegister` is what this amounts to for the samplers: the trainer publishes
numbered policies, a sampler holds one of them as a whole and only moves forward.
`ImplementsRegister` is its specification under the mapping at the end of
`AsyncTraining`.

### ReplayBuffer and Sharding

`TrajectoryReplayBuffer` with the threads around it. On the actor's thread:
`AddTrajectories`, per trajectory `AddIndex`, `PutMap`, `PutData` (the two halves of
`TrajectoryCache.put`, which a sampling thread can get between), `AddDone`;
`Sample`; `SaveCheckpoint`; `Close`. In the save executor: `ExecStart` (which
truncates the file), `SaveDone`, `FlushMeta`, `FlushIndex`. In the thread of
`PreloadReplayBufferDataset`: `PreloadWindow`, `PreloadMask`, `PreloadSlot`,
`PreloadGather`, `PreloadLoad`, between which no lock is held. A save may raise
(`SaveRaises`), and then so does the flush that waits for it (`FlushRaises`). A file
is looked for where its id was put: under `auto_save_path` (`files`) or in the
directory the buffer was loaded from (`loaded`). `Crash` leaves only the
disk, `Restart` is `load_checkpoint` of the last checkpoint, `LoadDataset` the
distributed load of a collected data set by a rank. A trajectory is the number of
its arrival, so that "the wrong data" is a wrong number.

`Sharding` has the index arithmetic of the distributed load.

### SeqGroup

What DynamicScheduler takes for one unit: the sequences of one `SeqGroupInfo`.
`GenerateFresh` and `GenerateContinue` are `_async_generate_group` up to the
creation of its tasks, `Submit` a task reaching the engine, `AbortGeneration` the
abort, which only hits submitted requests, `EngineReturn` the (external) engine,
`Record` the merge of a result, `Deliver` and `MarkAborted` what `rollout()` does
with the group. `backend` is `rollout_backend`; the two backends differ in
`ContinueSglang`/`ContinueVllm`, in the merge, and in what a cancelled request
returns (`NoOutput`). A token is its position in the response as seen from the
context it was generated from, so "nothing lost, repeated or reordered" is that a
response reads 1, 2, 3, ...

The engine may report an abort with any number of tokens up to the limit, because
both backends' code tests for an aborted sequence that is at its limit. It never
reports a finish reason other than stop, length and abort (`ValueError` in
`record_sglang_result`).

## 3. Runs

| Run | Instance | What it shows |
|---|---|---|
| `device_lock` | 3 workers, 3 accelerators, lists `<0,1>`, `<1,0>`, `<1,2>`; 551 states | exclusive with-blocks, no lock error, the same queueing order on every shared accelerator, every acquire returns |
| `channel` | two programs: unbounded with 2 keys of one producer, asynchronous gets awaited out of order, a batch that the next item would exceed, a client outside a worker; 1 slot with 3 asynchronous puts, a batch that reaches its target, polling, `put_nowait` from outside; 37k states | each item in exactly one place, each get served from its key, batches as full as their target allows, per-client FIFO, every call returns |
| `gpu_ledger` | 12 GPUs, 5 rollout instances of 2, actor of 2, inference of 2; 180 states | GPUs conserved, `try_allocate`'s assertion |
| `scheduler_wait` | 3 rollout instances, 4 groups, 4 train steps, 2 global steps, both policies; 789k states, about 2 minutes | actor GPUs free, no early exit, groups in one place, `KeepsLedger`, every step ends |
| `scheduler_no_pre` | 3 instances, 3 groups, 3 train steps, 2 global steps, no policies, no inference; 64k states | the actor is scaled down after each step |
| `seq_group` | 2 sequences, 3 tokens, 2 aborts, both backends; 8k states | responses intact and within budget, delivered ones ended, completed ones final, log-probabilities one per token (vLLM, and SGLang without an abort), delivery |
| `port_lock` | 2 names, 2 ports, 1 restart; 75k states | no port belongs to two first-life workers, and a dead worker's ports come back |
| `point_to_point` | 80 pairs of programs of 2 or 3 calls in every mix of synchronous and asynchronous, over every kind of object and device relation; 124k states | both ends agree on every frame, the n-th receive gets the n-th send, all calls return, the rendezvous included |
| `async_training` | 2 rollout and 2 env workers, 2 parameters, 3 training steps, patches with blocking sync (with and without `init_sync` and a minimal on-policy ratio) and background sync (`init_sync` of one parameter); 681k states, about 3 minutes | weights always those of the stamped version, the snapshot what the receivers will hold, batches fresh and on-policy enough, handles truthful, `ImplementsRegister`, the run ends |
| `replay_buffer` | 4 set-ups, window 2, 3 trajectories, 2 crashes, one save that raises, 2 pool threads, 2 ranks; 659k states, about 1 minute | ids are unique across restarts, what was saved loads, samples are what was drawn, a closed data set is complete, close and the preload iterator make progress |
| `p2p_both_ways` | violation | two workers with overlapping devices that send to each other at once mistake a frame of one transfer for one of the other |
| `async_torn` | violation | with the bucket syncer a sample is drawn between two buckets of a blocking sync and stamped with the old version |

Each violation run checks one property that a comment or a document states; the
finding in `PROJECT.json` has the quotation and the line.

### Bounds

Each bound is the least at which the case in question occurs.

* Three workers: two that list the same devices in opposite order (the deadlock
  one fears) and one that queues behind both.
* Channel: two keys of one producer share one link; one slot makes a second and
  a third put wait; a batch of two items is the least that can stop half-way.
  Items of weight 1 and 2 against a target of 2 make a batch end before an item that
  would exceed it, two of weight 1 at the target.
* Scheduler: with three instances one can stay, one release and one migrate; four
  groups give an instance two, so that a migration carries several groups and
  meets running ones. The actor needs three train steps to grow, train and shrink
  (with two, a wrong release count goes unnoticed). A second global step shows
  what the first leaves behind. `MaxRounds` is the bound.
* PortLock: two names and two ports let a port change hands and a worker have one
  to lose; `MaxRestarts` = 1 is the least with which a name comes back between the
  daemon's look and its pop. At the bound names are no longer reused.
* PointToPoint: a second send behind a first is what can overtake it; one
  object the other way puts both queues of a worker to use.
* AsyncTraining: with three training steps a sync can be in flight while two more
  are asked for, so that one patch covers several steps. `QueueBound` = 1 limits the
  trajectories between an environment and the store: an episode only begins if
  there is room. It is a bound of the model, not a throttle of the code.
  `Staleness` = 1 and `StoreSize` = 1 let a stored trajectory expire and be evicted.
  A ratio of 10 hundredths lets a full store of fresh trajectories be refused
  because none of its samples is of the current version. With two parameters
  `init_sync` transfers all, one or none of them.
* ReplayBuffer: three trajectories over a window of two evict one; a batch of two
  and one of one have overlapping flushes on two pool threads (`Pool`; the code has
  20); the second crash is the one after which auto-saved samples may be stale.
  One save that raises (`MaxFails`, per process) makes one flush raise while another
  one does not. `MaxAdds`, `MaxCrashes` and `MaxFails` are the bounds.
* SeqGroup: two aborts are needed for a part to be merged onto a merged response;
  three tokens let each of three parts have one. `MaxAborts` is the bound.

`CHECK_DEADLOCK FALSE` is used where the system ends: clients finish their
programs, the last global step is over, the group is delivered, every worker of
the node may die for good.

### Fairness

Weak fairness of these: an event loop runs its callbacks; Ray starts submitted
calls and returns results; links deliver; a with-block ends; each coroutine
resumes when what it awaits has happened; the engine ends a request; each thread
of an executor, of a work queue and of the replay buffer goes on while it has
something to do; the port daemon keeps turning. In PointToPoint programs are
finite and every step uses one of them up, so weak fairness of `Next` is that of
every thread.

Strong fairness twice: `StopEnv`, for a stop that waits at an event loop is
handled at one of the yields the env worker keeps making; and `CheckWorkerAlive`,
for a liveness query repeated every minute does not fail every time.

No fairness is assumed of an abort, a crash, a restart, a checkpoint, the order in
which Ray starts calls, or of clients making further calls beyond their programs.
A worker that dies inside its with-block is excluded by it: nothing in
`DeviceLockManager` would release its accelerators (listed as a hazard).

`RunFinishes` claims the end of training only for the blocking sync, and of the
teardown for both: see section 5 for why.

### Mutants

Every property of a passing run has a variant of one definition of its module
(`CanTakeBarging`, `ExecutesAtOnce`, `PreProcessWithoutReset`, `EngineIdle`,
`ContinueAll`, ...) under which TLC finds it violated. They stand in the
modules next to the definition they vary and nothing else uses them.

## 4. Proofs

`DeviceLockProofs` proves, for any set of workers and accelerators and any lists
without repetition (`AccelIdsAssumption`, and `None` is no worker),
`TypeCorrect`, `LockExcludes` (`[]MutualExclusion`) and `LockNeverRaises`
(`[]NoLockError`). Mutual exclusion is not inductive: that a woken task finds the
lock free depends on who else is on the loop and in the deque. The invariant
`IInv` is `TypeOK` with

* `OwnedIffLocked`: a lock is locked iff it has an owner;
* `PcInv`: a worker owns what its finished acquire tasks took, and still owns
  what its unfinished release tasks are to give back; nobody is in error;
* `ReadyInv`: a callback occurs once and is about an accelerator that its
  worker's gather still waits for; a wakeup is for the first waiter of an unlocked
  accelerator, and a worker about to acquire is not already waiting;
* `WaitersInv`: waiters are distinct, and each is acquiring that accelerator.

`InductiveInvariant` is `Spec => []IInv`, proved action by action, with lemmas on
removing and appending callbacks.

`LinesAgree` (`[]SameOrderEverywhere`) is what keeps workers with opposite lists from
waiting for each other. It needs `OrderInv` on top of `IInv`, whose parts say why
the order is the same in every line: a worker's acquire callbacks stand together on
the loop (`GatherTogether`), so whoever has begun to queue finishes queueing before
another begins (`InLineFirst`), whoever is ahead in one line has queued in all of
his (`AheadInAllLines`), and so nobody is ahead of another here and behind there
(`OneOrder`). It fails to be inductive without the first two.

`GpuLedgerProofs` proves, for every configuration that satisfies
`ConfigAssumption` and `PlacementAssumption` (both in `SchedulerResources`; what
`placement.py` and `megatron_worker.py` assert before a run: the first and the full
actor size are valid, the actor's GPUs are a whole number of rollout instances, and
scheduler and workers read the same `use_pre_process_policy`),
`BooksBalance` (`[]GpusConserved`) and `AllocateSafe` (`[]AllocateNeverAsserts`)
from `LedgerInductive`, the invariance of `TypeOK /\ ActorSizeValid /\
GpusConserved`. The lemmas carry the arithmetic: what `Increment` returns is
never more than what is free and leads to a valid size, and `ReleaseNeeded` never
asks for more instances than there are. `LedgerTypeCorrect` and `ActorSizes` are the
other two conjuncts; that the actor only has sizes of `get_valid_dp_sizes` is not run
for itself, since the proof covers every instance.

`DynamicSchedulerProofs` proves the protocol correct for every such cluster, every
finite set of groups split in any way over the instances (`RequestsAssumption`; every
instance has at least one, as the runner's split of a batch over `rollout_dp_size`
gives it unless the batch is smaller than that) and any number of
train and global steps. `IInv` is `TypeOK` with

* `BooksInv`: in each state of the scheduler, which instances it is waiting for and
  what that says of the counters; a release is the lowest alive instances, of a number
  that `find_release_instance_num_needed` returns;
* `ActorInv`, `WorldInv`: scheduler and actor take turns, one report and one answer at
  a time, and the world size the actor has or is about to be told is what the
  scheduler has booked;
* `TalkInv`: for every instance, where its conversation with the scheduler is: nothing
  asked, asked (perhaps behind one Migrate_In), answered, being worked on, told to
  finish, or gone; and that a pending notification is either "finish" or one of groups
  that really are there, so that it cannot be mistaken for "finish".

From it follow `StayForMigrations`, `ActorEndsScaledDown` and, step by step, the
refinement `ImplementsLedger` (`Spec => KeepsLedger`): `Finished` is the ledger's rollout
turn, `InferenceTurn` and `ActorTurn` are the turns of the same name, the rest are
stutters. The refinement carries `GpuLedgerProofs`' `BooksBalance` over to the
scheduler (`SchedulerBooksBalance`), and with it `GpusInvariant`: the actor's GPUs,
and those it has been promised, end below the first GPU of the instances that are
still alive and below the inference's. That is `ActorOnFreeGpus`
(`[]ActorGpusFree`). Both have the hypothesis `UseWaitBeforeLast \/ InferenceInstances
= 0`: without the wait policy a dedicated inference gives its GPUs back while rollout
instances below them still run, and the statement is false (section 5). The lemmas
under it are about the operators: the sum of the reports, the flattened batches and
the shares cut from them stay within their types.

Two more theorems are about the groups, with the hypothesis `UsePreProcess`:

* `StartEmpty` (`[]StartsEmpty`) from `StartInv`. As long as the scheduler collects the
  first reports (`Launching`), an instance has its own groups and no other, an instance
  that has not entered `rollout()` has started none of them, and a report counts at
  most what has been started. The totals of the reports therefore add up to all groups only
  when every instance has started (`NotAllTasks`, `AllLaunched`), and no migration
  begins before. Without the policy the first migration waits for nothing, and the
  statement is false (section 5); hence the hypothesis.
* `EachInOnePlace` (`[]OnePlace`) from `PlaceInv`. Of the ways to have a group (new, running or
  aborted at an instance, in a Migrate_Out response or a Migrate_In request) exactly one instance
  and one way applies to every group that is not delivered; a delivered one at most
  still counts as running (`Whereabouts`); aborted groups exist only between an abort and its answer, each once
  (`AbortsInv`). The hard step is the scheduler's: the batches it has collected are
  disjoint (`FlattenDisjoint`) and the shares it cuts from them are disjoint and
  exhaust them (`AssignedGrows`, `SharesSplit`), so that collecting, splitting and sending
  neither lose nor repeat a group.

`SeqGroupProofs` proves, for any group, token budget and number of aborts,
`ResponsesStayIntact`, `OnlyEndedDelivered`, `LogprobsMatch` and the action property
`CompletedStays` (`CompletedIsFinal`). `IInv` adds to `TypeOK` and `ResponsesIntact`
that each sequence is completed, aborted or has a task (`EachSequenceOnce`), that a task
continues exactly what has been recorded on what is left of the budget
(`TasksContinue`), that what is completed has ended (`CompletedEnded`), and where
log-probabilities and tokens may part (`MergedTogether`). `NoneAssumption` only says
that `None` is no result, request or finish reason.

`AsyncTrainingProofs` has the weight synchronisation and the data path. Every theorem
about the former has the hypothesis `mode.syncer = "patch"`, since with the bucket
syncer they are false (`async_torn`). For
any workers, parameters (at least one) and number of steps, with blocking and
background syncs, `SyncInvariant` shows `SyncInv`: at most one sync is on its way and
each worker expects exactly its message (`OneSync`), the runner issues the next only
after the last has landed and after a new step (`RunnerInv`), and sender and receivers
hold the policies of the versions they claim (`HeldInv`); before its first patch a
worker lacks exactly what `init_sync` will transfer (`LoadedStays`, `LoadedOrLacking`).
From it come
`WorkersMatchVersion`, `HandlesTellTruth`, `SnapshotTracksReceivers`,
`PatchSamplesMatchVersion`, and the refinement `PatchSyncImplementsRegister`, in which
only publishing and the last message of a transfer are not stutters.

`TrainsOnFresh` (`[]TrainedWithinStaleness`) holds for both syncers. `DataTypeOK` follows a
version from the actor over link, rollout worker, policy output and episode to the
minimum of a trajectory; `StoreInv` says that the store never exceeds its size, that it
is sorted by its oldest versions, and that a batch is fresh and has its
on-policy share (`OnPolicyOfReverse`: the order of `topn` does not change it) from its cut to the
training on it. The order is what makes the rest true: `StoreAddKeeps` is the insertion
(behind equals, the first one evicted), `ReceivedKeeps` the recursion over whatever
has been received, and `RemoveBelowKeeps` shows that of a sorted store exactly the stale
ones are removed.

`PortLockProofs` proves `PortsTypeCorrect` and `PortsAreExclusive`
(`[]PortsExclusive`) for any names, ports and number of restarts. That no two
workers own a port is not inductive: the manager decides before the worker knows,
and the daemon acts on an old look. `IInv` (`PortsInductive`) adds to `TypeOK`

* `OwnedIsLocked`: what a first-life worker has been given is locked in its name;
* `GrantedIsLocked`: so is what is on its way to it, and results only travel to
  living workers;
* `DeadIsDead`: a first-life name the daemon takes for dead is dead, so popping its
  ports takes none from a living owner.

`ChannelProofs` proves the three safety properties of the channel for any clients,
drivers, keys, queue size and finite programs. `BaseInv` (`ChannelBase`) is the
inductive invariant for all programs:

* `TypeInv` (`ChannelType` follows), and `TaskInv`: a call is submitted, ready,
  waiting or has returned, in one place only;
* `IssuedInv`, `PendingInv`, `ChainInv`: only calls that were made have a task; of
  the puts of one client and key only the head of the futures has one, because the
  next is started by its callback;
* `WaitInv`, `HeldInv`: a task waits for its own call's key if it is a get, and only
  tasks that have run and not ended hold items, a put exactly one;
* `CommInv`, `DataInv`: a reply is that of one get of the client it travels to, which
  has ended; what lies in the queue of a key, in a batch or in a reply to a get of
  that key has that key, and a batch does not exceed its target.

The four theorems add what they need, each with its hypotheses (section 5 has what
happens without them):

* `ChannelRightItems` (`[]RightItems`) assumes `SyncGetsFirst`. `SyncInv`: a client
  has no get under way, or one synchronous get whose reply is the only one, or gets
  of which every outstanding recv is asynchronous and goes by its query id.
* `ChannelBatchesFilled` (`[]BatchesFilled`) assumes `SyncGetsFirst` too. `FilledInv`: a
  batch being formed holds items that have left the queue, and one that was sent has
  been ended by its weight or by an item behind all of its own in `Line(k)`, the items
  that ever came to key k; that sequence only grows (`LineGrows`), so what once ended a
  batch still explains it when the client has it.
* `ChannelFifo` (`[]PerClientFifo`) assumes `FifoPrograms`. `FifoInv`: for every client
  the items that have left a queue, those in it, the one a suspended put holds and
  those still on the link are in the order of the calls, and a put that runs
  receives or holds the next.
* `ChannelExactlyOnce` (`[]ExactlyOnce`) assumes `SyncGetsFirst` and `BlockingPuts`.
  The places of items are shelves (`Stock`): links, queues, hands of tasks, replies and
  results. Every step moves a prefix of one shelf to the end of another, moves twice,
  or brings a driver's item; a move keeps every item as often as it was (`MoveKeeps`),
  hence `OnceInv`. `WaitsInv` is why a reply is stored where nothing was: who
  still expects one has not returned.

`ReplayBufferProofs` proves `PartsPartition`: for every number of trajectories and of
ranks, the parts of a distributed load are consecutive, sizes differ by at most
one, and together they are the whole list. It also proves, for every window, pool, queue and cache size, any number of
ranks and of trajectories and any bounds on the crashes and on the saves that raise
(`ReplayAssumption`: sizes are positive), `NoIdTwice` (`[]IdsUnique`), `Restorable` (`[]RestoreSucceeds`),
`SamplesAreRight` (`[]RightSamples`), `CloseFlushes` (`[]ClosedIsDurable`) and
`TypeCorrect`. None of the four is inductive; `IInv` says

* `IdsInv`: ids increase in the buffer, in the index on disk and in the checkpoint,
  each below its counter. A rank's part is a stretch of an increasing list (from
  `PartsPartition`), so its counter, the largest id plus one, is above all of it;
* `CacheInv`: the cache is a ring. The `MaxSize` ids put last have the slots that end
  before `_last_slot`, no two the same (`RingFacts`), and `_slot_to_id` is the inverse;
  so `put` evicts exactly the oldest one. `BufInv`: a slot holds its id's data,
  except between the two halves of `put`, and unless what was loaded may be of
  another life (`Reliable`);
* `FilesInv`, `CkptInv`: in the first life of an auto-saving process a file, and what
  a checkpoint has copied of it, is the trajectory of its id or unfinished; without
  auto_save a checkpoint holds the data of its last `Window` ids, which are those a
  restart asks for;
* `SaveInv`, `FlushInv`: an id under `auto_save_path` is in its file, or its save is
  still to come or has raised (`failed`); while none has, the index and the counter on
  disk are, between two batches, those in memory or a flush is still to come. When the
  executor has been joined nothing is to come, which is `ClosedIsDurable`.
  `SaveRaisesStep` and `FlushRaisesStep` are the steps that lose something;
* `WindowInv`, `PhaseInv`: a window cache that counts as current is the last `Window`
  ids; what the phases of the threads exclude.

`LoadFacts` is what `load_checkpoint` restores from any increasing list; a restart and
the distributed load are its two uses. The proof corrected `RightSamples`: it had
held on the run for one crash, but an auto-save checkpoint taken in the second life
may copy a file that was written in the first (section 5).

### Only model-checked

Liveness (`AcquireReturns`, `CallsReturn`, `StepsEnd`, `GroupDelivered`,
`DeadPortsFreed`, `RunFinishes`, `CloseReturns`, `PreloadServed`), and everything that
needs `ENABLED`, is beyond the prover. What folds compute for every input is out of reach as
well: that a trajectory's `sum` orders ties by their mean version is not proved, and
`StoreInv` does without it. That a batch stays within its target and is ended by an
item that would exceed it is proved all the same: it is what `BatchLength` is the
maximum of, whatever the sum. `FramesMatch` and
`RecvMatchesSend` of PointToPoint are about the pairs of programs that the run
enumerates; for arbitrary programs they are false (`p2p_both_ways`).

## 5. Observations that are not runs

* The documentation of batches disagrees with the code. `concepts/channel.rst:58-60`
  (and the Chinese page, line 62): "Once the accumulated weight reaches or exceeds
  `batch_weight`, it stops"; `channel_worker.py:462`: "The batch will contain items until
  the total weight reaches this value". The loop (`channel_worker.py:472`) looks at the
  next item first and stops *before* one that would exceed the target, so a batch is
  never too heavy but may stay short of its target, and is empty if its first item is
  heavier than the target. The docstring of `Channel.get_batch` (`channel.py:571`) says what
  the code does, and `BatchesFilled` states that. The other reading is its mutant
  (`BatchLengthReaching`), and the run refutes it: items of weight 1 and 2, target 2.
* A worker that mixes a synchronous get with an outstanding asynchronous one may
  get an item of another key: the synchronous form drops the query id
  (`channel.py:513`). `SyncGetsFirst` excludes it.
* Two keys on a bounded channel: a put task of key b may receive the next item of
  key a, suspend on a's full queue, and be overtaken by a's next put. Per-client
  FIFO is therefore stated for workers that put on one key there, and for a driver that
  waits for each of its puts, which Ray may start in any order (`FifoPrograms`).
* `use_pre_process_policy` has different defaults in `scheduler_worker.py:56` and
  in `placement.py:346` and `megatron_worker.py:201`. With the option left out the
  actor takes the scheduler's start signal for the answer to its first train step
  and is one answer behind from then on. The constants `UsePreProcess` and
  `WorkersPreProcess` keep the two readings apart; the runs set both alike.
* Without the pre-process policy nothing waits for the last `rollout()` to start
  before groups are migrated, and its assertion on residual groups can fail.
  `StartsEmpty` is checked with the policy.
* `PeekQueue.peek` in `get_batch` (`channel_worker.py:471`) may consume the wakeup
  of an item that it then leaves in the queue; the next getter sleeps although the
  queue is not empty, until the next put. The programs of `channel` put once more, or
  have no other get of that key.
* `put_nowait` of a worker into a full queue never returns: `f.result()` in the
  callback (`async_work.py:302`) raises there, and the task has already received an
  item (`channel_worker.py:368`), which is lost and may be another put's. The programs
  of `channel` call it from outside a worker (`BlockingPuts`).
* Without `use_wait_before_last_iter_policy` the actor may be given GPUs of rollout
  instances that have not offloaded (`UseWaitBeforeLast = FALSE` with the pre-process
  policy on violates `ActorGpusFree`); `manager.py:762`.
* A vLLM request aborted before its first output raises in `rollout()`
  (`vllm_worker.py:195`), and one that is exactly at its limit raises a `KeyError`
  (`:428`, after the `clear` at `:417`), should the engine ever report it:
  `GroupDelivered` admits that a vLLM group raises.
* SGLang's merge keeps the `meta_info` of the newest part only
  (`reasoning_requests.py:213`), so a response that was aborted has fewer
  log-probabilities than tokens; `LogprobsMatchResponse` excludes that case.
* Background sync can stall training: when syncs are coalesced and the actor's
  version moves past `staleness_threshold`, nothing the rollout produces is fresh,
  the store never fills, and no further step asks for a sync. The same happens at any
  staleness if `on_policy_min_ratio` is positive: after a coalesced sync nothing the
  rollout produces is of the actor's version, so the ratio stays 0
  (`async_ppo_fsdp_worker.py:146`). Hence the form of `RunFinishes`, which for the
  blocking sync is checked with and without a ratio.
* `TrainedWithinStaleness` includes what `async_ppo.rst:149` says of
  `on_policy_min_ratio` ("ensuring the fraction of on-policy samples in the current
  training round is no lower than this value"). It holds because the ratio is taken of
  the store that the batch is then cut from, with no turn of the loop in between.
* `async_ppo.rst` lists a throttle in the generate loop; `wait_if_stale` is not
  called by `_generate`.
* Env and rollout of a worker agree on the sequence of calls only if Ray starts the
  runner's calls to one worker in the order submitted, which AsyncTraining assumes.
* A sampling thread of the preload data set that finds its trajectory evicted
  between the mask and the slot dies of a `KeyError` (`buffer.py:670`), against the
  docstring's "Sleeps when buffers are not ready or when errors occur"; the trainer
  then polls for ever. `PreloadServed` says "while the thread lives".
* An auto-save checkpoint copies the files of the window last sampled from but the
  whole index, so it need not be loadable (`RestoreSucceeds` excludes it), and a
  cache smaller than the window may read a file not yet written, or the one of the
  same id from before a crash (`RightSamples` excludes it). After a second crash that
  happens with any cache size: the process restarts with the counter of its
  checkpoint, a new save of an id is queued behind others while the file still
  holds the trajectory of the same id (and the same weight versions, from which
  `model_weights_id` is computed) from the first life, and the next checkpoint copies
  that file beside the new index. `Sound` is the condition that is left.
* A save that raises makes the flush of its batch raise at `fut.result()`
  (`buffer.py:512`), before `metadata.json` and `trajectory_index.json` are written.
  Nobody asks for the future of the flush, so nothing is reported: `close` returns
  as usual, the other trajectories of the batch are in their files but, unless a
  later batch is flushed, not in the index, and a rank may load the index of an
  earlier life, or none. If a later batch is flushed, the index names the trajectory
  whose file is unfinished and loading it raises. Hence `failed` in
  `ClosedIsDurable`, `RestoreSucceeds` and `Sound`.
* The index may be on disk before the saves of a later batch are; it is complete
  once `close` has returned (`ClosedIsDurable`), not after a crash.
* `_recv_single_tensor_to_uncertain_peer` unpacks the pair that `_recv_object`
  returns as if it were the handle and raises; modelled as a `raise` step that the
  programs do not reach (the tensor is on a device the receiver does not use).
* A worker restarted under a dead one's name between the daemon's look and its pop
  loses ports it has just locked: `PortsExclusive` is about first lives.
* With `weight_reload` unset `rollout()` returns without reporting that it has
  offloaded (`sglang_worker.py:468`), and the scheduler's finish waits for it; the
  model assumes `weight_reload`.

## 6. Abstractions

* Links between two processes are reliable and FIFO, as the collectives promise.
* A frame is a rendezvous of both ends; gloo may buffer a small one, which only
  lets a sender run ahead.
* In AsyncTraining one actor rank trains, env worker and rollout worker are paired,
  and there is one pipeline stage. The transfer to a worker is a FIFO of messages,
  applied message by message.
* `init_sync.enabled` is off by default (`weight_syncer/base.py:122`, `patch_syncer.py:820`), and the
  sender's first snapshot is then a copy of its own weights (`patch_syncer.py:997`). The
  model assumes what the code does: for the parameters that `init_sync` does not
  transfer, the rollout workers have loaded the weights the actor starts from
  (`Loaded`). If they had not, no patch would ever bring those entries.
* In ReplayBuffer all trajectories have one length and one `model_weights_id`; a
  batch is one sample; a checkpoint is saved in one step (no crash in its middle).
* `acquire_free_port` retries without its limit of 10000.
* A scatter to several instances is one step: each message is read at any later
  time anyway.
* `abort_generation` is one step; which requests it reaches is what varies.
* Ray's failures (a dead actor, a lost object) are modelled where the code handles
  them: dead workers in PortLock, a restarted actor in ReplayBuffer.
* Prompts, tokens, tensors, weights and logs are left out, except where a
  property is about them (item weights in Channel, token positions in SeqGroup, the step
  a parameter was changed by in AsyncTraining).

## 7. Plan

1. Proofs: `FramesMatch` and `RecvMatchesSend` for the class of matching programs.
2. Modules that remain: `LocalChannel` and the distributed ranks of a channel; the
   decoupled mode of the env worker; the SAC runner, which composes AsyncTraining's
   sync with ReplayBuffer; an abstract lock and an abstract FIFO link to which
   DeviceLock and PointToPoint are refined.
3. SeqGroup as a refinement of DynamicScheduler's group life cycle.

## 8. Not modelled

The models cover a few thousand of about 236,000 lines of implementation. The rest
is, for the most part, code that has no protocol to check: model definitions and
their training and inference code, algorithms and losses, adapters to simulators,
robots and data sets, and the configuration of experiments. There state is tensors,
and correctness is numerical or that of an external library; a model would either
restate one call or leave out everything that matters.

* Worker launch, cluster and node managers: Ray processes, registries and I/O; the
  concurrency in them is Ray's. `CollectiveManager`, `find_free_port`,
  `acquire_free_port` and `check_worker_alive` are modelled.
* Collectives: broadcast over more than two workers, tensor compression, network
  emulation, the buffer pool.
* Weight syncer: the encoding of deltas, the gather among sender ranks.
* Embodied training: synchronous runners, the SAC runner, evaluation, reward
  workers, the decoupled environment mode.
* Replay storage: `clear` and `clear_cache`, which nothing calls, and the mixing of a
  demo buffer into batches.
* Agents: application loops over channel and rollout.
* In the other components: cancellation of an acquire, the channel's read-only
  queries and device-memory cleaning, serving and validation in the rollout
  workers, checkpoints and evaluation in the reasoning runner, the placement modes
  other than AUTO.
