--------------------------- MODULE PortLockProofs ---------------------------
(***************************************************************************)
(* That the daemon of the PortLockManager, which acts on what it saw some  *)
(* time ago, never gives away a port of a worker that has run under its    *)
(* name all along: for any workers, ports and number of restarts.          *)
(***************************************************************************)
EXTENDS PortLock, TLAPS

\* What a first worker of its name has been given is locked in its name.
OwnedIsLocked ==
    \A n \in Names : \A p \in owns[n] : life[n] = 0 => locks[p] = n

\* So is what it is about to be given; and results only travel to the living.
GrantedIsLocked ==
    \A r \in replies :
        /\ alive[r.name]
        /\ r.ok /\ life[r.name] = 0 => locks[r.port] = r.name

\* The daemon's opinion goes stale only through a restart.
DeadIsDead == \A n \in dead : life[n] = 0 => ~alive[n]

IInv == TypeOK /\ OwnedIsLocked /\ GrantedIsLocked /\ DeadIsDead

\* In the beginning nobody owns, waits for or has locked a port.
LEMMA InitIInv == Init => IInv
BY PortAssumption DEF Init, IInv, TypeOK, OwnedIsLocked, GrantedIsLocked, DeadIsDead, NoPort

\* acquire_free_port's call changes nothing that the manager has decided.
LEMMA AcquireFreePortIInv ==
    ASSUME IInv, NEW n \in Names, NEW p \in Ports, AcquireFreePort(n, p)
    PROVE  IInv'
<1>1. [name |-> n, life |-> life[n], port |-> p] \in Calls
  BY DEF IInv, TypeOK, Calls
<1>2. tried' \in [Names -> {NoPort} \cup {<<q>> : q \in Ports}]
  BY DEF IInv, TypeOK, AcquireFreePort
<1>3. \A m \in Names : ~alive'[m] => owns'[m] = {} /\ tried'[m] = NoPort
  BY DEF IInv, TypeOK, AcquireFreePort
<1>4. TypeOK'
  BY <1>1, <1>2, <1>3 DEF IInv, TypeOK, AcquireFreePort, daemonVars
<1>5. OwnedIsLocked' /\ GrantedIsLocked' /\ DeadIsDead'
  BY DEF IInv, OwnedIsLocked, GrantedIsLocked, DeadIsDead, AcquireFreePort, daemonVars
<1> QED BY <1>4, <1>5 DEF IInv

\* The port that acquire_free_port returns has been locked in the meantime.
LEMMA AcquireReturnsIInv ==
    ASSUME IInv, NEW r \in replies, AcquireReturns(r)
    PROVE  IInv'
<1>1. r \in Replies /\ r.name \in Names /\ r.port \in Ports /\ alive[r.name]
  BY DEF IInv, TypeOK, Replies, GrantedIsLocked
<1>2. owns' \in [Names -> SUBSET Ports]
  BY <1>1 DEF IInv, TypeOK, AcquireReturns
<1>3. tried' \in [Names -> {NoPort} \cup {<<q>> : q \in Ports}]
  BY <1>1 DEF IInv, TypeOK, AcquireReturns
<1>4. \A m \in Names : ~alive'[m] => owns'[m] = {} /\ tried'[m] = NoPort
  BY <1>1 DEF IInv, TypeOK, AcquireReturns
<1>5. TypeOK'
  BY <1>2, <1>3, <1>4 DEF IInv, TypeOK, AcquireReturns, daemonVars
<1>6. OwnedIsLocked'
  BY <1>1 DEF IInv, TypeOK, OwnedIsLocked, GrantedIsLocked, AcquireReturns
<1>7. GrantedIsLocked' /\ DeadIsDead'
  BY DEF IInv, GrantedIsLocked, DeadIsDead, AcquireReturns, daemonVars
<1> QED BY <1>5, <1>6, <1>7 DEF IInv

\* A worker that dies takes its results with it, not its locks.
LEMMA DieIInv ==
    ASSUME IInv, NEW n \in Names, Die(n)
    PROVE  IInv'
<1>1. TypeOK'
  <2>1. /\ alive' \in [Names -> BOOLEAN] /\ owns' \in [Names -> SUBSET Ports]
        /\ tried' \in [Names -> {NoPort} \cup {<<q>> : q \in Ports}]
    BY DEF IInv, TypeOK, Die
  <2>2. bound' \in [Ports -> Names \cup {Nobody}]
    BY DEF IInv, TypeOK, Die
  <2>3. replies' \subseteq Replies
    BY DEF IInv, TypeOK, Die
  <2>4. \A m \in Names : ~alive'[m] => owns'[m] = {} /\ tried'[m] = NoPort
    BY DEF IInv, TypeOK, Die
  <2> QED BY <2>1, <2>2, <2>3, <2>4 DEF IInv, TypeOK, Die, daemonVars
<1>2. OwnedIsLocked'
  BY DEF IInv, TypeOK, OwnedIsLocked, Die
<1>3. GrantedIsLocked'
  BY DEF IInv, TypeOK, GrantedIsLocked, Replies, Die
<1>4. DeadIsDead'
  BY DEF IInv, TypeOK, DeadIsDead, Die, daemonVars
<1> QED BY <1>1, <1>2, <1>3, <1>4 DEF IInv

\* A worker under the name of a dead one is not a first worker of its name.
LEMMA RestartIInv ==
    ASSUME IInv, NEW n \in Names, Restart(n)
    PROVE  IInv'
<1>1. life' \in [Names -> 0..MaxRestarts] /\ life'[n] # 0
      /\ \A m \in Names \ {n} : life'[m] = life[m] /\ alive'[m] = alive[m]
  BY PortAssumption DEF IInv, TypeOK, Restart
<1>2. TypeOK'
  BY <1>1 DEF IInv, TypeOK, Restart, rpcVars, daemonVars
<1>3. OwnedIsLocked' /\ DeadIsDead'
  BY <1>1 DEF IInv, TypeOK, OwnedIsLocked, DeadIsDead, Restart, rpcVars, daemonVars
<1>4. GrantedIsLocked'
  BY <1>1 DEF IInv, TypeOK, GrantedIsLocked, Replies, Restart, rpcVars
<1> QED BY <1>2, <1>3, <1>4 DEF IInv

\* The manager grants a port only if no worker has it.
LEMMA AcquireIInv ==
    ASSUME IInv, NEW c \in calls, Acquire(c)
    PROVE  IInv'
<1> DEFINE free == locks[c.port] = Nobody
<1>1. c.name \in Names /\ c.port \in Ports
  BY DEF IInv, TypeOK, Calls
<1>2. locks' \in [Ports -> Names \cup {Nobody}]
  BY <1>1 DEF IInv, TypeOK, Acquire
<1>3. Reply(c, free) \subseteq Replies
  <2>1. ASSUME NEW g \in BOOLEAN PROVE Reply(c, g) \subseteq Replies
    BY <1>1 DEF Reply, Replies
  <2> QED BY <2>1
<1>4. TypeOK'
  BY <1>2, <1>3 DEF IInv, TypeOK, Acquire, workerVars, daemonVars
<1>5. \A p \in Ports : locks[p] # Nobody => locks'[p] = locks[p]
  BY <1>1 DEF IInv, TypeOK, Acquire
<1>6. OwnedIsLocked'
  BY <1>5, PortAssumption DEF IInv, TypeOK, OwnedIsLocked, Acquire, workerVars
<1>7. GrantedIsLocked'
  <2> SUFFICES ASSUME NEW r \in replies'
               PROVE  alive[r.name] /\ (r.ok /\ life[r.name] = 0 => locks'[r.port] = r.name)
    BY DEF GrantedIsLocked, Acquire, workerVars
  <2>1. CASE r \in replies
    BY <2>1, <1>5, PortAssumption DEF IInv, TypeOK, GrantedIsLocked, Replies
  <2>2. CASE r \in Reply(c, free)
    <3>1. /\ r.name = c.name /\ r.port = c.port /\ (r.ok <=> free)
          /\ alive[c.name]
      <4>1. ASSUME NEW g \in BOOLEAN, r \in Reply(c, g)
            PROVE  r.name = c.name /\ r.port = c.port /\ r.ok = g /\ alive[c.name]
        BY <4>1 DEF Reply
      <4> HIDE DEF free
      <4>2. free \in BOOLEAN
        BY DEF free
      <4> QED BY <4>1, <4>2, <2>2
    <3>2. free => locks'[c.port] = c.name
      BY <1>1 DEF Acquire, IInv, TypeOK
    <3> QED BY <3>1, <3>2
  <2> QED BY <2>1, <2>2 DEF Acquire
<1>8. DeadIsDead'
  BY DEF IInv, DeadIsDead, Acquire, workerVars, daemonVars
<1> QED BY <1>4, <1>6, <1>7, <1>8 DEF IInv

\* The daemon frees the ports of names it has seen dead: none of them has a
\* first worker with ports, or with a grant on its way.
LEMMA DaemonPopIInv ==
    ASSUME IInv, DaemonPop
    PROVE  IInv'
<1>1. locks' \in [Ports -> Names \cup {Nobody}]
  BY DEF IInv, TypeOK, DaemonPop
<1>2. TypeOK'
  BY <1>1 DEF IInv, TypeOK, DaemonPop, workerVars, rpcVars
<1>3. \A p \in Ports : locks[p] \notin dead => locks'[p] = locks[p]
  BY DEF IInv, TypeOK, DaemonPop
<1>4. OwnedIsLocked'
  BY <1>3 DEF IInv, TypeOK, OwnedIsLocked, DeadIsDead, DaemonPop, workerVars
<1>5. GrantedIsLocked'
  BY <1>3 DEF IInv, TypeOK, GrantedIsLocked, DeadIsDead, Replies, DaemonPop, workerVars, rpcVars
<1>6. DeadIsDead'
  BY DEF DeadIsDead, DaemonPop
<1> QED BY <1>2, <1>4, <1>5, <1>6 DEF IInv

\* The daemon's looks and a bind change no lock.
LEMMA OtherIInv ==
    ASSUME IInv, \/ DaemonSnapshot
                 \/ \E n \in Names : \/ CheckWorkerAlive(n) \/ CheckFails(n)
                                     \/ \E p \in Ports : Bind(n, p)
                 \/ UNCHANGED vars
    PROVE  IInv'
<1>1. CASE DaemonSnapshot
  <2>1. Holders \subseteq Names
    BY DEF Holders, IInv, TypeOK
  <2> QED BY <1>1, <2>1 DEF IInv, TypeOK, OwnedIsLocked, GrantedIsLocked, DeadIsDead,
                           DaemonSnapshot, workerVars, rpcVars
<1>2. ASSUME NEW n \in Names, CheckWorkerAlive(n) PROVE IInv'
  BY <1>2 DEF IInv, TypeOK, OwnedIsLocked, GrantedIsLocked, DeadIsDead,
             CheckWorkerAlive, workerVars, rpcVars
<1>3. ASSUME NEW n \in Names, CheckFails(n) PROVE IInv'
  BY <1>3 DEF IInv, TypeOK, OwnedIsLocked, GrantedIsLocked, DeadIsDead,
             CheckFails, workerVars, rpcVars
<1>4. ASSUME NEW n \in Names, NEW p \in Ports, Bind(n, p) PROVE IInv'
  BY <1>4 DEF IInv, TypeOK, OwnedIsLocked, GrantedIsLocked, DeadIsDead,
             Bind, rpcVars, daemonVars
<1>5. CASE UNCHANGED vars
  BY <1>5 DEF IInv, TypeOK, OwnedIsLocked, GrantedIsLocked, DeadIsDead,
             vars, workerVars, rpcVars, daemonVars
<1> QED BY <1>1, <1>2, <1>3, <1>4, <1>5

\* The invariant of the manager, its daemon and the workers of a node: what a
\* worker has or is being given is locked in its name, and whom the daemon
\* takes for dead is dead or has been restarted.
THEOREM PortsInductive == Spec => []IInv
<1>1. IInv /\ [Next]_vars => IInv'
  BY AcquireFreePortIInv, AcquireReturnsIInv, DieIInv, RestartIInv, AcquireIInv,
     DaemonPopIInv, OtherIInv DEF Next
<1> QED BY InitIInv, <1>1, PTL DEF Spec

\* The state of the ports is well typed, and the dead hold nothing.
THEOREM PortsTypeCorrect == Spec => []TypeOK
<1>1. IInv => TypeOK
  BY DEF IInv
<1> QED BY PortsInductive, <1>1, PTL

\* acquire_free_port gives no port to two workers that run under their names
\* for the first time, however late the daemon acts on what it saw.
THEOREM PortsAreExclusive == Spec => []PortsExclusive
<1>1. IInv => PortsExclusive
  BY DEF IInv, OwnedIsLocked, PortsExclusive
<1> QED BY PortsInductive, <1>1, PTL
=============================================================================
