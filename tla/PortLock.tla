------------------------------ MODULE PortLock ------------------------------
(***************************************************************************)
(* The ports of one node: Worker.acquire_free_port, the PortLockManager      *)
(* actor behind it, and the manager's daemon thread, which takes back the    *)
(* ports of dead workers.  Workers die at any moment, calls in flight        *)
(* included, and a worker may be started again under the name of a dead one. *)
(* Nothing but the daemon ever releases a port.                              *)
(***************************************************************************)
EXTENDS Naturals, FiniteSets

CONSTANTS Names,        \* worker names
          Ports,
          Nobody,       \* no worker
          MaxRestarts   \* bound: how often a name is used again; at the bound none is

ASSUME PortAssumption == Nobody \notin Names /\ MaxRestarts \in Nat

VARIABLES
    alive,    \* alive[n]: a worker of name n runs
    life,     \* life[n]: how often the name has been used again
    tried,    \* tried[n]: what acquire_free_port of n is at: nothing, or a port
    owns,     \* owns[n]: the ports acquire_free_port has returned to worker n
    bound,    \* bound[p]: the worker with a socket on p
    calls,    \* calls of acquire on their way to the manager
    replies,  \* and their results on the way back
    locks,    \* _port_locks
    todo,     \* locked_workers not checked yet
    dead      \* dead_workers

workerVars == <<alive, life, tried, owns, bound>>
rpcVars    == <<calls, replies>>
daemonVars == <<todo, dead>>
vars == <<workerVars, rpcVars, locks, daemonVars>>

NoPort == <<>>   \* acquire_free_port is not running
Holders == {locks[p] : p \in Ports} \ {Nobody}

\* A call is that of one worker process: a name and its life.
Calls == [name : Names, life : 0..MaxRestarts, port : Ports]
Replies == [name : Names, port : Ports, ok : BOOLEAN]

\* The result of call c goes back to its caller, if that still runs.
Reply(c, granted) ==
    IF alive[c.name] /\ life[c.name] = c.life
    THEN {[name |-> c.name, port |-> c.port, ok |-> granted]}
    ELSE {}

Init ==
    /\ alive = [n \in Names |-> TRUE] /\ life = [n \in Names |-> 0]
    /\ tried = [n \in Names |-> NoPort] /\ owns = [n \in Names |-> {}]
    /\ bound = [p \in Ports |-> Nobody] /\ locks = [p \in Ports |-> Nobody]
    /\ calls = {} /\ replies = {}
    /\ todo = {} /\ dead = {}

-----------------------------------------------------------------------------
(* Workers.                                                                 *)

\* acquire_free_port: find_free_port binds some unused port, lets it go again,
\* and PortLock.acquire calls the manager.
AcquireFreePort(n, p) ==
    /\ alive[n] /\ tried[n] = NoPort
    /\ bound[p] = Nobody
    /\ tried' = [tried EXCEPT ![n] = <<p>>]
    /\ calls' = calls \cup {[name |-> n, life |-> life[n], port |-> p]}
    /\ UNCHANGED <<alive, life, owns, bound, replies, locks, daemonVars>>

\* The result arrives: the port is returned, or another one is tried.
AcquireReturns(r) ==
    /\ replies' = replies \ {r}
    /\ tried' = [tried EXCEPT ![r.name] = NoPort]
    /\ owns' = IF r.ok THEN [owns EXCEPT ![r.name] = @ \cup {r.port}] ELSE owns
    /\ UNCHANGED <<alive, life, bound, calls, locks, daemonVars>>

\* The worker opens its server or rendezvous on a port it has acquired.
Bind(n, p) ==
    /\ alive[n] /\ p \in owns[n] /\ bound[p] = Nobody
    /\ bound' = [bound EXCEPT ![p] = n]
    /\ UNCHANGED <<alive, life, tried, owns, rpcVars, locks, daemonVars>>

\* The process of worker n ends, in whatever it was doing: a result on its way
\* is lost, a call on its way is not.  The node closes its sockets.
Die(n) ==
    /\ alive[n]
    /\ alive' = [alive EXCEPT ![n] = FALSE]
    /\ tried' = [tried EXCEPT ![n] = NoPort]
    /\ owns' = [owns EXCEPT ![n] = {}]
    /\ bound' = [p \in Ports |-> IF bound[p] = n THEN Nobody ELSE bound[p]]
    /\ replies' = {r \in replies : r.name # n}
    /\ UNCHANGED <<life, calls, locks, daemonVars>>

\* A worker is started under the name of a dead one.
Restart(n) ==
    /\ ~alive[n] /\ \A m \in Names : life[m] < MaxRestarts
    /\ alive' = [alive EXCEPT ![n] = TRUE]
    /\ life' = [life EXCEPT ![n] = @ + 1]
    /\ UNCHANGED <<tried, owns, bound, rpcVars, locks, daemonVars>>

-----------------------------------------------------------------------------
(* PortLockManager.                                                         *)

\* Mutant: a locked port is granted again.
AcquireUnchecked(c) ==
    /\ calls' = calls \ {c}
    /\ locks' = [locks EXCEPT ![c.port] = c.name]
    /\ replies' = replies \cup Reply(c, TRUE)
    /\ UNCHANGED <<workerVars, daemonVars>>

\* acquire, under _lock.  It runs although its caller may have died since.
Acquire(c) ==
    LET free == locks[c.port] = Nobody IN
    /\ calls' = calls \ {c}
    /\ locks' = IF free THEN [locks EXCEPT ![c.port] = c.name] ELSE locks
    /\ replies' = replies \cup Reply(c, free)
    /\ UNCHANGED <<workerVars, daemonVars>>

\* _release_daemon wakes up and takes the names that hold ports, under _lock.
DaemonSnapshot ==
    /\ todo = {} /\ dead = {} /\ Holders # {}
    /\ todo' = Holders
    /\ UNCHANGED <<workerVars, rpcVars, locks, dead>>

\* check_worker_alive of one of them, without the lock ...
CheckWorkerAlive(n) ==
    /\ n \in todo
    /\ todo' = todo \ {n}
    /\ dead' = IF alive[n] THEN dead ELSE dead \cup {n}
    /\ UNCHANGED <<workerVars, rpcVars, locks>>

\* ... which takes the worker for alive when the query fails.
CheckFails(n) ==
    /\ n \in todo
    /\ todo' = todo \ {n}
    /\ UNCHANGED <<workerVars, rpcVars, locks, dead>>

\* Mutant: the daemon finds the dead workers and leaves their ports locked.
DaemonPopsNothing ==
    /\ todo = {} /\ dead # {}
    /\ dead' = {}
    /\ UNCHANGED <<workerVars, rpcVars, locks, todo>>

\* All are checked: under _lock again, the ports of the dead names are popped.
DaemonPop ==
    /\ todo = {} /\ dead # {}
    /\ locks' = [p \in Ports |-> IF locks[p] \in dead THEN Nobody ELSE locks[p]]
    /\ dead' = {}
    /\ UNCHANGED <<workerVars, rpcVars, todo>>

Next ==
    \/ \E n \in Names : \/ \E p \in Ports : AcquireFreePort(n, p) \/ Bind(n, p)
                       \/ Die(n) \/ Restart(n) \/ CheckWorkerAlive(n) \/ CheckFails(n)
    \/ \E c \in calls : Acquire(c)
    \/ \E r \in replies : AcquireReturns(r)
    \/ DaemonSnapshot \/ DaemonPop

Spec == Init /\ [][Next]_vars

\* The manager serves its calls and the daemon keeps turning; a liveness query
\* asked again and again succeeds in the end.
Fairness ==
    /\ \A c \in Calls : WF_vars(c \in calls /\ Acquire(c))
    /\ WF_vars(DaemonSnapshot) /\ WF_vars(DaemonPop)
    /\ \A n \in Names : /\ WF_vars(CheckWorkerAlive(n) \/ CheckFails(n))
                        /\ SF_vars(CheckWorkerAlive(n))
FairSpec == Spec /\ Fairness

-----------------------------------------------------------------------------

\* Types; and a dead worker has neither ports nor a call it waits for.
TypeOK ==
    /\ alive \in [Names -> BOOLEAN] /\ life \in [Names -> 0..MaxRestarts]
    /\ owns \in [Names -> SUBSET Ports]
    /\ tried \in [Names -> {NoPort} \cup {<<p>> : p \in Ports}]
    /\ bound \in [Ports -> Names \cup {Nobody}] /\ locks \in [Ports -> Names \cup {Nobody}]
    /\ calls \subseteq Calls /\ replies \subseteq Replies
    /\ todo \subseteq Names /\ dead \subseteq Names
    /\ \A n \in Names : ~alive[n] => owns[n] = {} /\ tried[n] = NoPort

\* Two workers that both run under their names for the first time never have
\* the same port from acquire_free_port ("without causing conflicts within the
\* node"), although the daemon frees ports on the strength of an earlier look.
PortsExclusive ==
    \A n, m \in Names :
        n # m /\ life[n] = 0 /\ life[m] = 0 => owns[n] \cap owns[m] = {}

\* The ports of a dead worker become free again, the one it was granted while
\* dying included, unless its name is used again first.
DeadPortsFreed ==
    \A n \in Names : \A p \in Ports :
        (locks[p] = n /\ ~alive[n]) ~> (locks[p] # n \/ alive[n])
=============================================================================
