----------------------- MODULE DynamicSchedulerProofs -----------------------
(***************************************************************************)
(* The dynamic scheduler's protocol keeps the books of GpuLedger, for any  *)
(* cluster, any split of the groups and any number of train steps, and the *)
(* actor never holds a GPU that the rollout or the inference still uses.   *)
(* With the pre-process phase, rollout() always starts empty and migration *)
(* neither loses nor duplicates a sequence group.                          *)
(***************************************************************************)
EXTENDS DynamicScheduler, FiniteSetTheorems, FunctionTheorems, SequenceTheorems,
        WellFoundedInduction, TLAPS

(* What is proved of the ledger, read as statements about this scheduler.  *)
Books ==
    INSTANCE GpuLedgerProofs WITH
        iter <- IF iter = -1 THEN 0 ELSE iter,
        turn <- IF iter = -1 THEN "pre_process"
                ELSE IF spc \in {"inference", "actor"} THEN spc
                ELSE "rollout"

(* The ledger's arithmetic is the scheduler's.                             *)
LEMMA SameArithmetic ==
    /\ Books!ValidDpSizes = ValidDpSizes /\ Books!PreRelease = PreRelease
    /\ Books!ActorGpus = ActorGpus /\ Books!RolloutBase = RolloutBase
    /\ Books!InferenceBase = InferenceBase /\ Books!TotalGpus = TotalGpus
    /\ \A a, b : Books!CeilDiv(a, b) = CeilDiv(a, b)
    /\ \A a, b : Books!Increment(a, b) = Increment(a, b)
    /\ \A a, b : Books!ReleaseNeeded(a, b) = ReleaseNeeded(a, b)
  BY DEF Books!ReleaseNeeded, ReleaseNeeded, Books!Increment, Increment,
         Books!CeilDiv, CeilDiv, Books!Affordable, Affordable, Books!Largest, Largest,
         Books!ValidDpSizes, ValidDpSizes, Books!TotalGpus, TotalGpus,
         Books!InferenceBase, InferenceBase, Books!RolloutBase, RolloutBase,
         Books!ActorGpus, ActorGpus, Books!PreRelease, PreRelease

(* The sizes of the cluster are naturals.                                  *)
LEMMA Sizes ==
    /\ ActorGpus \in Nat /\ RolloutBase \in Nat /\ InferenceBase \in Nat
    /\ TotalGpus \in Nat /\ PreRelease \in Nat
<1>1. /\ Books!ActorGpus \in Nat /\ Books!RolloutBase \in Nat
      /\ RolloutInstances * RolloutMP \in Nat
      /\ Books!TotalGpus \in Nat /\ Books!PreRelease \in Nat
  BY Books!ClusterTypes, ConfigAssumption, PlacementAssumption, SameArithmetic
<1>2. InferenceBase = RolloutBase + RolloutInstances * RolloutMP
  BY DEF InferenceBase
<1>. QED
  BY <1>1, <1>2, SameArithmetic

(* find_release_instance_num_needed never asks for more than it may.       *)
LEMMA ReleaseBounded ==
    ASSUME NEW most \in Nat, NEW actor \in Nat
    PROVE  ReleaseNeeded(most, actor) \in 0..most
  BY Books!ReleaseFits, ConfigAssumption, PlacementAssumption, SameArithmetic

(* try_allocate grows the actor by whole instances, within what is free.   *)
LEMMA GrowsByInstances ==
    ASSUME NEW actor \in Nat, NEW gpus \in Nat
    PROVE  \E n \in Nat : /\ Increment(actor, gpus) = n * ActorMP
                          /\ n * ActorMP \in Nat /\ n * ActorMP <= gpus
  BY Books!IncrementFits, ConfigAssumption, PlacementAssumption, SameArithmetic

(* Multiplying and dividing by a model-parallel size.                      *)
LEMMA Arithmetic ==
    ASSUME NEW a \in Nat, NEW c \in Nat, NEW b \in Nat \ {0}
    PROVE  /\ a * b \in Nat
           /\ (a + c) * b = a * b + c * b
           /\ c <= a => (a - c) * b = a * b - c * b
           /\ c <= a => c * b <= a * b
           /\ (a * b) \div b = a
<1>1. /\ a * b \in Nat
      /\ (a + c) * b = a * b + c * b
      /\ c <= a => (a - c) * b = a * b - c * b
      /\ c <= a => c * b <= a * b
  BY Books!Multiply, ConfigAssumption, PlacementAssumption, SameArithmetic
<1>2. (a * b) \div b = a
  BY Books!Divide, ConfigAssumption, PlacementAssumption, SameArithmetic
<1>. QED
  BY <1>1, <1>2

(* migrate_policy releases nothing, or what an actor's next size needs of  *)
(* fewer instances than there are, when there is a task left to run.       *)
LEMMA PolicyReleases ==
    ASSUME NEW rollout \in Nat, NEW actor \in Nat, NEW running \in Nat \ {0}
    PROVE  \/ MigratePolicy(rollout, actor, running) = 0
           \/ \E most \in 1..(rollout - 1) :
                 MigratePolicy(rollout, actor, running) = ReleaseNeeded(most, actor)
<1> DEFINE needed == CeilDiv(running, MaxRunningRequests)
<1>1. MaxRunningRequests \in Nat \ {0}
  BY ConfigAssumption
<1>2. needed \in Nat
  BY <1>1, Books!Divide, ConfigAssumption, PlacementAssumption, SameArithmetic
<1>3. needed # 0
  <2>1. running + MaxRunningRequests - 1 \in Nat
        /\ running + MaxRunningRequests - 1 >= MaxRunningRequests
    BY <1>1
  <2>2. \A x \in Nat : x >= MaxRunningRequests => x \div MaxRunningRequests # 0
    BY <1>1, Z3
  <2>. QED
    BY <2>1, <2>2 DEF CeilDiv
<1> HIDE DEF needed
<1>4. CASE rollout <= 1 \/ needed >= rollout
  BY <1>4 DEF MigratePolicy, needed
<1>5. CASE ~(rollout <= 1 \/ needed >= rollout)
  <2>1. rollout - needed \in 1..(rollout - 1)
    BY <1>2, <1>3, <1>5
  <2>2. MigratePolicy(rollout, actor, running) = ReleaseNeeded(rollout - needed, actor)
    BY <1>5 DEF MigratePolicy, needed
  <2>. QED
    BY <2>1, <2>2
<1>. QED
  BY <1>4, <1>5

-----------------------------------------------------------------------------
(* The sum of natural counts over finitely many instances is a natural,    *)
(* and no smaller than over fewer of them.                                 *)
LEMMA SumFinite ==
    ASSUME NEW ids, IsFiniteSet(ids), NEW f, \A i \in ids : f[i] \in Nat
    PROVE  IsFiniteSet(UNION {{i} \X (1..f[i]) : i \in ids})
<1> DEFINE part == [i \in ids |-> {i} \X (1..f[i])]
           parts == {part[i] : i \in ids}
<1>1. IsFiniteSet(parts)
  <2>1. part \in Surjection(ids, parts)
    BY Fun_IsSurj
  <2> HIDE DEF part, parts
  <2>. QED
    BY <2>1, FS_Surjection
<1>2. ASSUME NEW P \in parts PROVE IsFiniteSet(P)
  <2>1. PICK i \in ids : P = {i} \X (1..f[i])
    BY <1>2
  <2>2. IsFiniteSet({i})
    BY FS_Singleton
  <2>3. IsFiniteSet(1..f[i])
    <3>1. 1 \in Int /\ f[i] \in Int
      OBVIOUS
    <3>. QED
      BY <3>1, FS_Interval
  <2>. QED
    BY <2>1, <2>2, <2>3, FS_Product
<1>3. IsFiniteSet(UNION parts)
  <2> HIDE DEF parts
  <2>. QED
    BY <1>1, <1>2, FS_UNION
<1>4. parts = {{i} \X (1..f[i]) : i \in ids}
  OBVIOUS
<1>. QED
  BY <1>3, <1>4

LEMMA SumType ==
    ASSUME NEW ids, IsFiniteSet(ids), NEW f, \A i \in ids : f[i] \in Nat
    PROVE  Sum(ids, f) \in Nat
  BY SumFinite, FS_CardinalityType DEF Sum

LEMMA SumMonotone ==
    ASSUME NEW ids, IsFiniteSet(ids), NEW f, \A i \in ids : f[i] \in Nat,
           NEW some \in SUBSET ids
    PROVE  Sum(some, f) <= Sum(ids, f)
<1> DEFINE U == UNION {{i} \X (1..f[i]) : i \in ids}
           V == UNION {{i} \X (1..f[i]) : i \in some}
<1>1. IsFiniteSet(U)
  BY SumFinite
<1>2. V \subseteq U
  OBVIOUS
<1>3. Sum(some, f) = Cardinality(V) /\ Sum(ids, f) = Cardinality(U)
  BY DEF Sum
<1> HIDE DEF U, V
<1>. QED
  BY <1>1, <1>2, <1>3, FS_Subset

LEMMA SumNone ==
    ASSUME NEW f
    PROVE  Sum({}, f) = 0
<1>1. UNION {{i} \X (1..f[i]) : i \in {}} = {}
  OBVIOUS
<1>. QED
  BY <1>1, FS_EmptySet DEF Sum

(* A set of naturals that holds 0 and every successor holds them all.      *)
LEMMA Induction ==
    ASSUME NEW S, 0 \in S, \A n \in Nat : n \in S => n + 1 \in S
    PROVE  Nat \subseteq S
<1> SUFFICES ASSUME ~(Nat \subseteq S) PROVE FALSE
  OBVIOUS
<1> DEFINE T == Nat \ S
           R == OpToRel(<, Nat)
<1>1. IsWellFoundedOn(R, Nat)
  BY NatLessThanWellFounded
<1>2. \A i, j \in Nat : i < j => <<i, j>> \in R
  BY DEF OpToRel
<1> HIDE DEF R
<1>3. T \subseteq Nat /\ T # {}
  OBVIOUS
<1>4. PICK n \in T : \A m \in T : ~ (<<m, n>> \in R)
  <2> HIDE DEF T
  <2>. QED
    BY <1>1, <1>3, WFMin
<1>5. n # 0 /\ n - 1 \in Nat /\ n - 1 < n
  BY <1>4
<1>6. n - 1 \notin T
  BY <1>2, <1>4, <1>5
<1>. QED
  BY <1>4, <1>5, <1>6

(* The batches of several instances, one after the other: what the         *)
(* recursion computes, and that they are groups.                           *)
LEMMA FlattenIs ==
    ASSUME NEW S, NEW ss \in Seq(Seq(S))
    PROVE  \E f \in [1..Len(ss) -> Seq(S)] :
              /\ \A i \in 1..Len(ss) : f[i] = IF i = 1 THEN ss[i] ELSE f[i - 1] \o ss[i]
              /\ FlattenSeq(ss) = IF Len(ss) = 0 THEN <<>> ELSE f[Len(ss)]
<1> DEFINE n == Len(ss)
           F(f, i) == IF i = 1 THEN ss[i] ELSE f[i - 1] \o ss[i]
           Upto(m, f) == \A i \in 1..m : f[i] = F(f, i)
           Defined(m) == \E f \in [1..m -> Seq(S)] : Upto(m, f)
           M == {m \in Nat : m <= n => Defined(m)}
<1>1. n \in Nat /\ \A i \in 1..n : ss[i] \in Seq(S)
  BY ElementOfSeq
<1>2. 0 \in M
  <2>1. [i \in 1..0 |-> <<>>] \in [1..0 -> Seq(S)]
    OBVIOUS
  <2>2. Upto(0, [i \in 1..0 |-> <<>>])
    OBVIOUS
  <2>3. Defined(0)
    <3> HIDE DEF Upto
    <3>. QED
      BY <2>1, <2>2
  <2> HIDE DEF Defined
  <2>. QED
    BY <2>3
<1>3. ASSUME NEW m \in Nat, m \in M PROVE m + 1 \in M
  <2> SUFFICES ASSUME m + 1 <= n PROVE Defined(m + 1)
    <3> HIDE DEF Defined
    <3>. QED
      OBVIOUS
  <2>0. Defined(m)
    <3> HIDE DEF Defined
    <3>. QED
      BY <1>1, <1>3
  <2>1. PICK f \in [1..m -> Seq(S)] : Upto(m, f)
    <3> HIDE DEF Upto
    <3>. QED
      BY <2>0
  <2> DEFINE g == [i \in 1..(m + 1) |-> IF i <= m THEN f[i] ELSE F(f, i)]
  <2>2. F(f, m + 1) \in Seq(S)
    <3>1. ss[m + 1] \in Seq(S)
      BY <1>1
    <3>2. CASE m = 0
      BY <3>1, <3>2
    <3>3. CASE m # 0
      <4>1. f[m] \in Seq(S) /\ (m + 1) - 1 = m /\ m + 1 # 1
        BY <3>3
      <4>2. f[m] \o ss[m + 1] \in Seq(S)
        BY <3>1, <4>1, ConcatProperties
      <4>. QED
        BY <4>1, <4>2
    <3>. QED
      BY <3>2, <3>3
  <2>3. g \in [1..(m + 1) -> Seq(S)]
    <3>1. \A i \in 1..(m + 1) : i <= m => i \in 1..m
      OBVIOUS
    <3>2. \A i \in 1..(m + 1) : ~(i <= m) => i = m + 1
      OBVIOUS
    <3> HIDE DEF F
    <3>. QED
      BY <2>2, <3>1, <3>2
  <2>4. ASSUME NEW i \in 1..(m + 1) PROVE g[i] = F(g, i)
    <3>1. i # 1 => g[i - 1] = f[i - 1]
      OBVIOUS
    <3>2. F(g, i) = F(f, i)
      BY <3>1
    <3>3. i <= m => f[i] = F(f, i)
      <4> HIDE DEF F
      <4>. QED
        BY <2>1
    <3>4. g[i] = IF i <= m THEN f[i] ELSE F(f, i)
      OBVIOUS
    <3> HIDE DEF F, g
    <3>. QED
      BY <3>2, <3>3, <3>4
  <2>5. Upto(m + 1, g)
    <3> HIDE DEF F, g
    <3>. QED
      BY <2>4
  <2> HIDE DEF Upto, g
  <2>. QED
    BY <2>3, <2>5
<1>4. n \in M
  <2> HIDE DEF M
  <2>. QED
    BY <1>1, <1>2, <1>3, Induction
<1>5. PICK f \in [1..n -> Seq(S)] : Upto(n, f)
  <2>1. Defined(n)
    <3> HIDE DEF Defined
    <3>. QED
      BY <1>1, <1>4
  <2> HIDE DEF Upto
  <2>. QED
    BY <2>1
<1> DEFINE G(h) == [i \in 1..n |-> IF i = 1 THEN ss[i] ELSE h[i - 1] \o ss[i]]
           flatten == CHOOSE h : h = G(h)
<1>6. f = G(f)
  BY <1>5
<1>7. flatten = G(flatten)
  <2> HIDE DEF G
  <2>. QED
    BY <1>6
<1> DEFINE K == {m \in Nat : m \in 1..n => flatten[m] = f[m]}
<1>8. \A m \in 1..n : flatten[m] = F(flatten, m)
  <2> HIDE DEF flatten
  <2>. QED
    BY <1>7
<1> HIDE DEF flatten
<1>9. \A m \in Nat : m \in K => m + 1 \in K
  <2> SUFFICES ASSUME NEW m \in Nat, m \in K, m + 1 \in 1..n
               PROVE  flatten[m + 1] = f[m + 1]
    BY <1>1
  <2>1. flatten[m + 1] = F(flatten, m + 1) /\ f[m + 1] = F(f, m + 1)
    BY <1>5, <1>8
  <2>2. CASE m = 0
    BY <2>1, <2>2
  <2>3. CASE m # 0
    <3>1. m \in 1..n /\ (m + 1) - 1 = m /\ m + 1 # 1
      BY <1>1, <2>3
    <3>2. flatten[m] = f[m]
      BY <3>1
    <3>. QED
      BY <2>1, <3>1, <3>2
  <2>. QED
    BY <2>2, <2>3
<1>10. n \in K
  <2>1. 0 \in K
    OBVIOUS
  <2> HIDE DEF K
  <2>. QED
    BY <1>1, <1>9, <2>1, Induction
<1>11. FlattenSeq(ss) = IF n = 0 THEN <<>> ELSE f[n]
  <2>1. CASE n = 0
    BY <2>1, EmptySeq DEF FlattenSeq
  <2>2. CASE n # 0
    <3>1. FlattenSeq(ss) = flatten[n]
      BY <2>2 DEF FlattenSeq, flatten
    <3>2. flatten[n] = f[n]
      BY <1>1, <1>10, <2>2
    <3>. QED
      BY <2>2, <3>1, <3>2
  <2>. QED
    BY <2>1, <2>2
<1>. QED
  BY <1>5, <1>11

LEMMA FlattenType ==
    ASSUME NEW S, NEW ss \in Seq(Seq(S))
    PROVE  FlattenSeq(ss) \in Seq(S)
<1>1. PICK f \in [1..Len(ss) -> Seq(S)] :
          FlattenSeq(ss) = IF Len(ss) = 0 THEN <<>> ELSE f[Len(ss)]
  BY FlattenIs
<1>2. Len(ss) \in Nat /\ <<>> \in Seq(S)
  BY EmptySeq
<1>3. Len(ss) # 0 => f[Len(ss)] \in Seq(S)
  <2>1. Len(ss) # 0 => Len(ss) \in 1..Len(ss)
    BY <1>2
  <2>. QED
    BY <2>1, Zenon
<1>. QED
  BY <1>1, <1>2, <1>3, Zenon

(* What _assign_sequences_sequential gives an instance is groups.          *)
LEMMA ShareType ==
    ASSUME NEW batches \in Seq(Groups), NEW first \in Nat, first < RolloutInstances,
           NEW i \in Instances, reports \in [Instances -> Nat]
    PROVE  Share(first, i, batches) \in Seq(Groups)
<1>1. RolloutInstances \in Nat \ {0}
  BY ConfigAssumption
<1> DEFINE expected == Sum(Instances, reports) \div (RolloutInstances - first)
           room == [j \in Instances |->
                       IF reports[j] < expected THEN expected - reports[j] ELSE 0]
<1>2. expected \in Nat
  <2>1. IsFiniteSet(Instances)
    <3>1. 0 \in Int /\ RolloutInstances - 1 \in Int
      BY <1>1
    <3>. QED
      BY <3>1, FS_Interval DEF Instances
  <2>2. Sum(Instances, reports) \in Nat
    BY <2>1, SumType
  <2>3. RolloutInstances - first \in Nat \ {0}
    BY <1>1
  <2>4. \A x \in Nat : \A y \in Nat \ {0} : x \div y \in Nat
    BY Z3
  <2>. QED
    BY <2>2, <2>3, <2>4
<1> HIDE DEF expected
<1>3. \A j \in Instances : room[j] \in Nat
  BY <1>2
<1>4. ASSUME NEW k \in Int, k < RolloutInstances
      PROVE  Assigned(first, k, batches) \in 0..Len(batches)
  <2>1. IsFiniteSet(first..k)
    BY FS_Interval
  <2>2. first..k \subseteq Instances
    BY <1>1, <1>4 DEF Instances
  <2>3. Sum(first..k, room) \in Nat
    <3> HIDE DEF room
    <3>. QED
      BY <1>3, <2>1, <2>2, SumType
  <2>4. Assigned(first, k, batches) =
            IF k = RolloutInstances - 1 \/ Sum(first..k, room) > Len(batches)
            THEN Len(batches) ELSE Sum(first..k, room)
    BY DEF Assigned, expected
  <2>5. Len(batches) \in Nat
    BY LenProperties
  <2> HIDE DEF room
  <2>. QED
    BY <2>3, <2>4, <2>5
<1>5. i \in Int /\ i < RolloutInstances /\ i - 1 \in Int /\ i - 1 < RolloutInstances
  BY <1>1 DEF Instances
<1>6. /\ Assigned(first, i - 1, batches) + 1 \in 1..(Len(batches) + 1)
      /\ Assigned(first, i, batches) \in 0..Len(batches)
  <2>1. Assigned(first, i - 1, batches) \in 0..Len(batches)
    BY <1>4, <1>5
  <2>2. Assigned(first, i, batches) \in 0..Len(batches)
    BY <1>4, <1>5
  <2>3. Len(batches) \in Nat
    BY LenProperties
  <2>. QED
    BY <2>1, <2>2, <2>3
<1>. QED
  BY <1>6, SubSeqProperties DEF Share

-----------------------------------------------------------------------------
(* A step of one rollout instance leaves the scheduler's and the actor's   *)
(* parts of the invariant alone, and those of the other instances.         *)

LEMMA BooksFrame == BooksInv /\ UNCHANGED schedVars => BooksInv'
  BY DEF BooksInv, schedVars, Releasing, LowestAlive, Alive, Offset, LastIter

LEMMA ActorFrame ==
    ActorInv /\ WorldInv /\ UNCHANGED <<schedVars, actorVars>> => ActorInv' /\ WorldInv'
<1> SUFFICES ASSUME ActorInv, WorldInv, UNCHANGED <<schedVars, actorVars>>
             PROVE  ActorInv' /\ WorldInv'
  OBVIOUS
<1>1. UNCHANGED <<spc, iter, cur, act, actorReq, actorResp>>
  BY DEF schedVars, actorVars
<1>2. ActorInv'
  BY <1>1 DEF ActorInv, PreProcessing, ActorTrains, ActorWaits
<1>3. WorldInv'
  BY <1>1 DEF WorldInv, Promised
<1>. QED
  BY <1>2, <1>3

LEMMA DueFrame ==
    ASSUME NEW i \in Instances, UNCHANGED <<spc, cur, awaited>>
    PROVE  (Takes(i)' <=> Takes(i)) /\ Due(i)' = Due(i)
  BY DEF Takes, Due, Alive, Offset

LEMMA TalkFrame ==
    ASSUME NEW i \in Instances, InstanceInv(i), UNCHANGED <<spc, cur, awaited>>,
           req'[i] = req[i], resp'[i] = resp[i], inst'[i] = inst[i]
    PROVE  InstanceInv(i)'
<1>1. (Takes(i)' <=> Takes(i)) /\ Due(i)' = Due(i)
  BY DueFrame
<1>2. Stays(i)' <=> Stays(i)
  BY DEF Stays
<1>3. Left(i)' <=> Left(i)
  BY DEF Left
<1>4. Told(i)' <=> Told(i)
  BY DEF Told
<1>5. (Asked(i)' <=> Asked(i)) /\ (Unasked(i)' <=> Unasked(i))
  BY <1>1 DEF Asked, Unasked
<1>. QED
  BY <1>1, <1>2, <1>3, <1>4, <1>5 DEF InstanceInv, Talk

LEMMA OtherInstances ==
    ASSUME IInv, NEW i \in Instances, UNCHANGED <<schedVars, actorVars>>,
           \A j \in Instances : j # i => /\ req'[j] = req[j] /\ resp'[j] = resp[j]
                                         /\ inst'[j] = inst[j],
           TypeOK', InstanceInv(i)'
    PROVE  IInv'
<1>1. BooksInv' /\ ActorInv' /\ WorldInv'
  BY BooksFrame, ActorFrame DEF IInv
<1>2. ASSUME NEW j \in Instances, j # i PROVE InstanceInv(j)'
  <2>1. InstanceInv(j)
    BY DEF IInv, TalkInv
  <2>2. UNCHANGED <<spc, cur, awaited>>
    BY DEF schedVars
  <2>. QED
    BY <1>2, <2>1, <2>2, TalkFrame
<1>3. TalkInv'
  BY <1>2 DEF TalkInv
<1>. QED
  BY <1>1, <1>3 DEF IInv

(* The same for a step of the rollout() coroutine that stays in its loop   *)
(* or leaves it because it has been told to.                               *)
LEMMA CoroutineStep ==
    ASSUME IInv, NEW i \in Instances, OthersUnchanged, resp' = resp, output' = output,
           gen' \in [Groups -> {"new", "gen", "completed", "aborted"}],
           NEW s \in InstanceStates, inst' = [inst EXCEPT ![i] = s],
           inst[i].roll \notin {"offload", "end"},
           s.loop = inst[i].loop, s.todo \subseteq s.running,
           s.roll \in {"wait", "process"} => s.running # {},
           Stays(i) => /\ s.roll \notin {"offload", "end"}
                       /\ s.event => /\ s.running # {}
                                     /\ s.roll \in {"idle", "notify", "failed"},
           Told(i) => \/ /\ s.roll \notin {"offload", "end"} /\ s.event
                         /\ s.roll = "notify" => s.running = {}
                      \/ s.roll = "offload" /\ ~s.event
    PROVE  IInv'
<1>1. inst \in [Instances -> InstanceStates] /\ InstanceInv(i) /\ TypeOK
  BY DEF IInv, TypeOK, TalkInv
<1>2. /\ inst' \in [Instances -> InstanceStates] /\ inst'[i] = s
      /\ \A j \in Instances : j # i => inst'[j] = inst[j]
  BY <1>1
<1>3. UNCHANGED <<spc, iter, cur, available, reports, awaited, req, resp, output, act,
                  actorReq, actorResp, inf, round>>
  BY DEF OthersUnchanged, schedVars, actorVars
<1>4. TypeOK'
  BY <1>1, <1>2, <1>3 DEF TypeOK
<1>5. (Takes(i)' <=> Takes(i)) /\ Due(i)' = Due(i)
  BY <1>3, DueFrame
<1>6. (Asked(i)' <=> Asked(i)) /\ (Unasked(i)' <=> Unasked(i))
  BY <1>3, <1>5 DEF Asked, Unasked
<1>7. Stays(i) => Stays(i)'
  BY <1>2 DEF Stays
<1>8. Told(i) => Told(i)'
  BY <1>2, <1>3 DEF Told
<1>9. ~Left(i) /\ Talk(i)
  BY <1>1 DEF Left, InstanceInv
<1>10. Talk(i)'
  BY <1>2, <1>3, <1>5, <1>6, <1>7, <1>8, <1>9 DEF Talk
<1>11. InstanceInv(i)'
  BY <1>2, <1>10 DEF InstanceInv
<1>12. UNCHANGED <<schedVars, actorVars>>
  BY <1>3 DEF schedVars, actorVars
<1>. QED
  BY <1>2, <1>3, <1>4, <1>11, <1>12, OtherInstances

LEMMA StartRolloutIInv ==
    ASSUME IInv, NEW i \in Instances, StartRollout(i)
    PROVE  IInv'
<1>1. inst \in [Instances -> InstanceStates] /\ InstanceInv(i) /\ TypeOK
  BY DEF IInv, TypeOK, TalkInv
<1>2. /\ inst[i] \in InstanceStates /\ inst[i].roll = "idle" /\ OthersUnchanged
      /\ resp' = resp /\ output' = output
  BY <1>1 DEF StartRollout
<1>3. Requests[i] \subseteq Groups /\ Requests[i] # {}
  BY RequestsAssumption
<1>4. gen \in [Groups -> {"new", "gen", "completed", "aborted"}]
  BY <1>1 DEF TypeOK
<1>5. CASE inst[i].running = {} /\ inst[i].done = {} /\ inst[i].aborted = <<>>
  <2> DEFINE s == [inst[i] EXCEPT !.roll = "wait", !.todo = Requests[i],
                                  !.running = Requests[i]]
  <2>1. s \in InstanceStates
    BY <1>2, <1>3, Zenon DEF InstanceStates
  <2>2. inst' = [inst EXCEPT ![i].roll = "wait", ![i].todo = Requests[i],
                             ![i].running = Requests[i]]
    BY <1>5 DEF StartRollout
  <2>3. inst' = [inst EXCEPT ![i] = s]
    BY <1>1, <2>2, Zenon
  <2>4. gen' \in [Groups -> {"new", "gen", "completed", "aborted"}]
    BY <1>4, <1>5 DEF StartRollout
  <2>5. /\ s.roll = "wait" /\ s.todo = s.running /\ s.running # {}
        /\ s.loop = inst[i].loop
    BY <1>2, <1>3 DEF InstanceStates
  <2>6. s.event <=> inst[i].event
    BY <1>2 DEF InstanceStates
  <2>7. Stays(i) => ~s.event
    BY <1>5, <2>6 DEF Stays
  <2>8. Told(i) => s.event
    BY <1>2, <2>6 DEF Told
  <2> HIDE DEF s
  <2>. QED
    BY <1>2, <2>1, <2>3, <2>4, <2>5, <2>7, <2>8, CoroutineStep
<1>6. CASE ~(inst[i].running = {} /\ inst[i].done = {} /\ inst[i].aborted = <<>>)
  <2> DEFINE s == [inst[i] EXCEPT !.roll = "failed"]
  <2>1. s \in InstanceStates
    BY <1>2 DEF InstanceStates
  <2>2. inst' = [inst EXCEPT ![i] = s] /\ gen' = gen
    BY <1>6 DEF StartRollout
  <2>3. /\ s.roll = "failed" /\ s.todo = inst[i].todo /\ s.running = inst[i].running
        /\ s.loop = inst[i].loop
    BY <1>2 DEF InstanceStates
  <2>4. s.event <=> inst[i].event
    BY <1>2 DEF InstanceStates
  <2>5. Stays(i) /\ s.event => s.running # {}
    BY <2>3, <2>4 DEF Stays
  <2>6. Told(i) => s.event
    BY <1>2, <2>4 DEF Told
  <2>7. s.todo \subseteq s.running
    BY <1>1, <2>3 DEF InstanceInv
  <2> HIDE DEF s
  <2>. QED
    BY <1>2, <1>4, <2>1, <2>2, <2>3, <2>5, <2>6, <2>7, CoroutineStep
<1>. QED
  BY <1>5, <1>6

LEMMA WaitReturnsIInv ==
    ASSUME IInv, NEW i \in Instances, WaitReturns(i)
    PROVE  IInv'
<1>1. inst \in [Instances -> InstanceStates] /\ InstanceInv(i) /\ TypeOK
  BY DEF IInv, TypeOK, TalkInv
<1>2. /\ inst[i] \in InstanceStates /\ inst[i].roll = "wait" /\ OthersUnchanged
      /\ resp' = resp /\ output' = output /\ gen' = gen
  BY <1>1 DEF WaitReturns
<1>3. gen' \in [Groups -> {"new", "gen", "completed", "aborted"}]
  BY <1>1, <1>2 DEF TypeOK
<1>4. Returned(i) \subseteq inst[i].todo /\ Returned(i) # {}
  BY DEF Returned, WaitReturns
<1> DEFINE s == [inst[i] EXCEPT !.roll = "process", !.todo = Returned(i)]
<1>5. s \in InstanceStates
  BY <1>2, <1>4 DEF InstanceStates
<1>6. inst' = [inst EXCEPT ![i] = s]
  BY <1>1, Zenon DEF WaitReturns
<1>7. /\ s.roll = "process" /\ s.todo = Returned(i) /\ s.running = inst[i].running
      /\ s.loop = inst[i].loop
  BY <1>2 DEF InstanceStates
<1>8. s.event <=> inst[i].event
  BY <1>2 DEF InstanceStates
<1>9. s.todo \subseteq s.running /\ s.running # {}
  BY <1>1, <1>2, <1>4, <1>7 DEF InstanceInv
<1>10. Stays(i) => ~s.event
  BY <1>2, <1>8 DEF Stays
<1>11. Told(i) => s.event
  BY <1>2, <1>8 DEF Told
<1> HIDE DEF s
<1>. QED
  BY <1>2, <1>3, <1>5, <1>6, <1>7, <1>9, <1>10, <1>11, CoroutineStep

LEMMA PutResultIInv ==
    ASSUME IInv, NEW i \in Instances, PutResult(i)
    PROVE  IInv'
<1>1. TypeOK /\ InstanceInv(i)
  BY DEF IInv, TalkInv
<1>2. UNCHANGED <<spc, iter, cur, available, reports, awaited, req, resp, inst, gen, act,
                  actorReq, actorResp, inf, round>>
  BY DEF PutResult, OthersUnchanged, schedVars, actorVars
<1>3. output' \in [Groups -> Nat]
  <2>1. PICK g \in inst[i].todo : output' = [output EXCEPT ![g] = @ + 1]
    BY DEF PutResult
  <2>2. g \in Groups /\ output \in [Groups -> Nat]
    BY <1>1 DEF TypeOK, InstanceStates
  <2>. QED
    BY <2>1, <2>2
<1>4. TypeOK'
  BY <1>1, <1>2, <1>3 DEF TypeOK
<1>5. InstanceInv(i)'
  BY <1>1, <1>2, TalkFrame
<1>6. UNCHANGED <<schedVars, actorVars>>
  BY <1>2 DEF schedVars, actorVars
<1>. QED
  BY <1>2, <1>4, <1>5, <1>6, OtherInstances

(* What taking a group off leaves: work to wait for, or an idle instance.  *)
LEMMA TakesOff ==
    ASSUME NEW r \in InstanceStates, NEW g \in Groups, r.todo \subseteq r.running,
           r.roll = "process"
    PROVE  LET t == TakeOff(r, g)
           IN  /\ t \in InstanceStates
               /\ t.loop = r.loop /\ t.done = r.done /\ t.aborted = r.aborted
               /\ t.event <=> r.event
               /\ t.todo \subseteq t.running
               /\ \/ t.roll \in {"wait", "process"} /\ t.running # {}
                  \/ t.roll = "notify" /\ t.running = {}
<1> DEFINE t == TakeOff(r, g)
           left == r.todo \ {g}
           running == r.running \ {g}
<1>1. left \subseteq Groups /\ running \subseteq Groups /\ left \subseteq running
  BY DEF InstanceStates
<1>2. CASE left # {}
  <2>1. t = [r EXCEPT !.todo = left, !.running = running]
    BY <1>2 DEF TakeOff
  <2>2. t \in InstanceStates
    BY <1>1, <2>1, Zenon DEF InstanceStates
  <2>3. /\ t.loop = r.loop /\ t.done = r.done /\ t.aborted = r.aborted
        /\ t.todo = left /\ t.running = running /\ t.roll = r.roll
    BY <2>1 DEF InstanceStates
  <2>4. t.event <=> r.event
    BY <2>1 DEF InstanceStates
  <2> HIDE DEF t
  <2>. QED
    BY <1>1, <1>2, <2>2, <2>3, <2>4 DEF t
<1>3. CASE left = {} /\ running # {}
  <2>1. t = [r EXCEPT !.todo = running, !.running = running, !.roll = "wait"]
    BY <1>3 DEF TakeOff
  <2>2. t \in InstanceStates
    BY <1>1, <2>1, Zenon DEF InstanceStates
  <2>3. /\ t.loop = r.loop /\ t.done = r.done /\ t.aborted = r.aborted
        /\ t.todo = running /\ t.running = running /\ t.roll = "wait"
    BY <2>1 DEF InstanceStates
  <2>4. t.event <=> r.event
    BY <2>1 DEF InstanceStates
  <2> HIDE DEF t
  <2>. QED
    BY <1>1, <1>3, <2>2, <2>3, <2>4 DEF t
<1>4. CASE left = {} /\ running = {}
  <2>1. t = [r EXCEPT !.todo = {}, !.running = {}, !.roll = "notify"]
    BY <1>4 DEF TakeOff
  <2>2. t \in InstanceStates
    BY <2>1, Zenon DEF InstanceStates
  <2>3. /\ t.loop = r.loop /\ t.done = r.done /\ t.aborted = r.aborted
        /\ t.todo = {} /\ t.running = {} /\ t.roll = "notify"
    BY <2>1 DEF InstanceStates
  <2>4. t.event <=> r.event
    BY <2>1 DEF InstanceStates
  <2> HIDE DEF t
  <2>. QED
    BY <2>2, <2>3, <2>4 DEF t
<1>. QED
  BY <1>2, <1>3, <1>4

(* MarkDone and MarkAborted put a group taken off into another set.        *)
LEMMA MarkIInv ==
    ASSUME IInv, NEW i \in Instances, OthersUnchanged, resp' = resp, output' = output,
           gen' = gen, inst[i].roll = "process", NEW g \in Groups,
           NEW s \in InstanceStates, inst' = [inst EXCEPT ![i] = s],
           s.roll = TakeOff(inst[i], g).roll, s.todo = TakeOff(inst[i], g).todo,
           s.running = TakeOff(inst[i], g).running, s.loop = TakeOff(inst[i], g).loop,
           s.event <=> TakeOff(inst[i], g).event
    PROVE  IInv'
<1>1. inst[i] \in InstanceStates /\ InstanceInv(i)
  BY DEF IInv, TypeOK, TalkInv
<1>2. /\ s.loop = inst[i].loop /\ s.todo \subseteq s.running
      /\ s.event <=> inst[i].event
      /\ \/ s.roll \in {"wait", "process"} /\ s.running # {}
         \/ s.roll = "notify" /\ s.running = {}
  <2>1. inst[i].todo \subseteq inst[i].running
    BY <1>1 DEF InstanceInv
  <2>. QED
    BY <1>1, <2>1, TakesOff
<1>3. Stays(i) => ~s.event
  BY <1>2 DEF Stays
<1>4. Told(i) => s.event
  BY <1>2 DEF Told
<1>5. gen' \in [Groups -> {"new", "gen", "completed", "aborted"}]
  BY DEF IInv, TypeOK
<1>. QED
  BY <1>2, <1>3, <1>4, <1>5, CoroutineStep

LEMMA MarkDoneIInv ==
    ASSUME IInv, NEW i \in Instances, MarkDone(i)
    PROVE  IInv'
<1>1. /\ inst \in [Instances -> InstanceStates] /\ inst[i] \in InstanceStates
      /\ InstanceInv(i) /\ inst[i].todo \subseteq inst[i].running
  BY DEF IInv, TypeOK, TalkInv, InstanceInv
<1>2. PICK g \in Putting(i) :
        inst' = [inst EXCEPT ![i] =
                    [TakeOff(inst[i], g) EXCEPT !.done = @ \cup {g}]]
  BY DEF MarkDone
<1>3. g \in Groups
  BY <1>1 DEF Putting, InstanceStates
<1> DEFINE t == TakeOff(inst[i], g)
           s == [t EXCEPT !.done = @ \cup {g}]
<1>4. inst' = [inst EXCEPT ![i] = s]
  BY <1>2
<1>5. /\ inst[i].roll = "process" /\ OthersUnchanged /\ resp' = resp
      /\ output' = output /\ gen' = gen
  BY DEF MarkDone
<1>6. t \in InstanceStates
  BY <1>1, <1>3, <1>5, TakesOff
<1> HIDE DEF t
<1>7. s \in InstanceStates
  BY <1>3, <1>6 DEF InstanceStates
<1>8. /\ s.roll = t.roll /\ s.todo = t.todo /\ s.running = t.running /\ s.loop = t.loop
  BY <1>6 DEF InstanceStates
<1>9. s.event <=> t.event
  BY <1>6 DEF InstanceStates
<1> HIDE DEF s
<1>. QED
  BY <1>3, <1>4, <1>5, <1>7, <1>8, <1>9, MarkIInv DEF t

LEMMA MarkAbortedIInv ==
    ASSUME IInv, NEW i \in Instances, MarkAborted(i)
    PROVE  IInv'
<1>1. /\ inst \in [Instances -> InstanceStates] /\ inst[i] \in InstanceStates
      /\ InstanceInv(i) /\ inst[i].todo \subseteq inst[i].running
  BY DEF IInv, TypeOK, TalkInv, InstanceInv
<1>2. PICK g \in inst[i].todo :
        inst' = [inst EXCEPT ![i] =
                    [TakeOff(inst[i], g) EXCEPT !.aborted = Append(@, g)]]
  BY DEF MarkAborted
<1>3. g \in Groups
  BY <1>1 DEF InstanceStates
<1> DEFINE t == TakeOff(inst[i], g)
           s == [t EXCEPT !.aborted = Append(@, g)]
<1>4. inst' = [inst EXCEPT ![i] = s]
  BY <1>2
<1>5. /\ inst[i].roll = "process" /\ OthersUnchanged /\ resp' = resp
      /\ output' = output /\ gen' = gen
  BY DEF MarkAborted
<1>6. t \in InstanceStates
  BY <1>1, <1>3, <1>5, TakesOff
<1> HIDE DEF t
<1>7. s \in InstanceStates
  <2>1. Append(t.aborted, g) \in Seq(Groups)
    BY <1>3, <1>6 DEF InstanceStates
  <2>. QED
    BY <1>6, <2>1 DEF InstanceStates
<1>8. /\ s.roll = t.roll /\ s.todo = t.todo /\ s.running = t.running /\ s.loop = t.loop
  BY <1>6 DEF InstanceStates
<1>9. s.event <=> t.event
  BY <1>6 DEF InstanceStates
<1> HIDE DEF s
<1>. QED
  BY <1>3, <1>4, <1>5, <1>7, <1>8, <1>9, MarkIInv DEF t

LEMMA NotifiedIInv ==
    ASSUME IInv, NEW i \in Instances, Notified(i)
    PROVE  IInv'
<1>1. inst \in [Instances -> InstanceStates] /\ InstanceInv(i) /\ TypeOK
  BY DEF IInv, TypeOK, TalkInv
<1>2. /\ inst[i] \in InstanceStates /\ inst[i].roll = "notify" /\ OthersUnchanged
      /\ resp' = resp /\ output' = output /\ gen' = gen
  BY <1>1 DEF Notified
<1>3. inst[i].event
  BY DEF Notified
<1>4. gen' \in [Groups -> {"new", "gen", "completed", "aborted"}]
  BY <1>1, <1>2 DEF TypeOK
<1> DEFINE r == WaitNotification(inst[i])
<1>5. r \in InstanceStates
  BY <1>2, Zenon DEF InstanceStates, WaitNotification
<1>6. /\ r.loop = inst[i].loop /\ r.todo = inst[i].todo /\ r.running = inst[i].running
  BY <1>2 DEF InstanceStates, WaitNotification
<1>7. r.event = FALSE
  BY <1>2, Zenon DEF InstanceStates, WaitNotification
<1>8. inst' = [inst EXCEPT ![i] =
                 IF r.running # {}
                 THEN [r EXCEPT !.roll = "wait", !.todo = r.running]
                 ELSE [r EXCEPT !.roll = "offload", !.done = {}, !.aborted = <<>>,
                                !.event = FALSE]]
  BY DEF Notified
<1> HIDE DEF r
<1>9. CASE r.running # {}
  <2> DEFINE s == [r EXCEPT !.roll = "wait", !.todo = r.running]
  <2>1. s \in InstanceStates
    BY <1>5 DEF InstanceStates
  <2>2. /\ s.roll = "wait" /\ s.todo = r.running /\ s.running = r.running
        /\ s.loop = r.loop
    BY <1>5 DEF InstanceStates
  <2>3. ~s.event
    BY <1>5, <1>7 DEF InstanceStates
  <2>4. ~Told(i)
    BY <1>2, <1>6, <1>9 DEF Told
  <2>5. inst' = [inst EXCEPT ![i] = s]
    BY <1>8, <1>9
  <2> HIDE DEF s
  <2>. QED
    BY <1>2, <1>4, <1>6, <1>9, <2>1, <2>2, <2>3, <2>4, <2>5, CoroutineStep
<1>10. CASE r.running = {}
  <2> DEFINE s == [r EXCEPT !.roll = "offload", !.done = {}, !.aborted = <<>>,
                            !.event = FALSE]
  <2>1. s \in InstanceStates
    <3>1. <<>> \in Seq(Groups)
      OBVIOUS
    <3>. QED
      BY <1>5, <3>1, Zenon DEF InstanceStates
  <2>2. /\ s.roll = "offload" /\ s.todo = r.todo /\ s.running = r.running
        /\ s.loop = r.loop
    BY <1>5 DEF InstanceStates
  <2>3. ~s.event
    BY <1>5, Zenon DEF InstanceStates
  <2>4. ~Stays(i)
    BY <1>3, <1>6, <1>10 DEF Stays
  <2>5. s.todo \subseteq s.running
    BY <1>1, <1>6, <2>2 DEF InstanceInv
  <2>6. inst' = [inst EXCEPT ![i] = s]
    BY <1>8, <1>10
  <2> HIDE DEF s
  <2>. QED
    BY <1>2, <1>4, <1>6, <2>1, <2>2, <2>3, <2>4, <2>5, <2>6, CoroutineStep
<1>. QED
  BY <1>9, <1>10

LEMMA OffloadIInv ==
    ASSUME IInv, NEW i \in Instances, Offload(i)
    PROVE  IInv'
<1>1. inst \in [Instances -> InstanceStates] /\ InstanceInv(i) /\ TypeOK
  BY DEF IInv, TypeOK, TalkInv
<1>2. /\ inst[i] \in InstanceStates /\ inst[i].roll = "offload"
      /\ resp[i] \in Seq(Responses) /\ resp \in [Instances -> Seq(Responses)]
  BY <1>1 DEF Offload, TypeOK
<1>3. UNCHANGED <<spc, iter, cur, available, reports, awaited, req, gen, output, act,
                  actorReq, actorResp, inf, round>>
  BY DEF Offload, OthersUnchanged, schedVars, actorVars
<1> DEFINE m == [action |-> "Offloaded"]
           s == [inst[i] EXCEPT !.roll = "end"]
<1>4. m \in Responses /\ m.action = "Offloaded"
  BY DEF Responses
<1>5. s \in InstanceStates
  BY <1>2 DEF InstanceStates
<1>6. /\ s.roll = "end" /\ s.todo = inst[i].todo /\ s.running = inst[i].running
      /\ s.loop = inst[i].loop
  BY <1>2 DEF InstanceStates
<1>7. s.event <=> inst[i].event
  BY <1>2 DEF InstanceStates
<1>8. inst' = [inst EXCEPT ![i] = s] /\ resp' = [resp EXCEPT ![i] = Append(@, m)]
  BY DEF Offload
<1> HIDE DEF s, m
<1>9. /\ inst' \in [Instances -> InstanceStates] /\ inst'[i] = s
      /\ \A j \in Instances : j # i => inst'[j] = inst[j]
  BY <1>1, <1>5, <1>8
<1>10. /\ resp' \in [Instances -> Seq(Responses)] /\ resp'[i] = Append(resp[i], m)
       /\ \A j \in Instances : j # i => resp'[j] = resp[j]
  BY <1>2, <1>4, <1>8
<1>11. TypeOK'
  BY <1>1, <1>3, <1>9, <1>10 DEF TypeOK
<1>12. /\ Takes(i) /\ Due(i) = {"Finish", "Wait_For_Finish"} /\ Told(i)
       /\ inst[i].todo \subseteq inst[i].running
  BY <1>1, <1>2 DEF InstanceInv, Talk, Left, Stays
<1>13. ~inst[i].event /\ resp[i] = <<>>
  BY <1>2, <1>12 DEF Told
<1>14. Len(resp'[i]) = 1 /\ resp'[i][1].action = "Offloaded"
  BY <1>4, <1>10, <1>13
<1>15. Told(i)'
  BY <1>3, <1>6, <1>7, <1>9, <1>12, <1>13, <1>14 DEF Told
<1>16. Takes(i)' /\ Due(i)' = {"Finish", "Wait_For_Finish"}
  BY <1>3, <1>12, DueFrame
<1>17. InstanceInv(i)'
  BY <1>6, <1>9, <1>12, <1>15, <1>16 DEF InstanceInv, Talk
<1>18. UNCHANGED <<schedVars, actorVars>>
  BY <1>3 DEF schedVars, actorVars
<1>. QED
  BY <1>3, <1>9, <1>10, <1>11, <1>17, <1>18, OtherInstances

LEMMA GenerateIInv ==
    ASSUME IInv, NEW g \in Groups, Generate(g)
    PROVE  IInv'
<1>1. TypeOK
  BY DEF IInv
<1>2. UNCHANGED <<spc, iter, cur, available, reports, awaited, req, resp, inst, output, act,
                  actorReq, actorResp, inf, round>>
  BY DEF Generate, schedVars, actorVars
<1>3. gen' \in [Groups -> {"new", "gen", "completed", "aborted"}]
  BY <1>1 DEF Generate, TypeOK
<1>4. TypeOK'
  BY <1>1, <1>2, <1>3 DEF TypeOK
<1>5. PICK i \in Instances : TRUE
  BY ConfigAssumption DEF Instances
<1>6. InstanceInv(i)'
  BY <1>2, TalkFrame DEF IInv, TalkInv
<1>7. UNCHANGED <<schedVars, actorVars>>
  BY <1>2 DEF schedVars, actorVars
<1>. QED
  BY <1>2, <1>4, <1>6, <1>7, OtherInstances

-----------------------------------------------------------------------------
(* The steps of a rollout instance's main_loop.                            *)

(* What is left of a request queue when its first message is taken.        *)
LEMMA TakeRequest ==
    ASSUME NEW q \in Seq(Messages), q # <<>>
    PROVE  /\ Head(q) = q[1] /\ q[1] \in Messages /\ Tail(q) \in Seq(Messages)
           /\ Len(q) = 1 => Tail(q) = <<>>
           /\ Len(q) = 2 => Len(Tail(q)) = 1 /\ Tail(q)[1] = q[2]
<1>1. Len(q) \in Nat \ {0} /\ q[1] \in Messages
  OBVIOUS
<1>2. /\ Head(q) = q[1] /\ Tail(q) \in Seq(Messages) /\ Len(Tail(q)) = Len(q) - 1
      /\ \A k \in 1..(Len(q) - 1) : Tail(q)[k] = q[k + 1]
  BY HeadTailProperties
<1>3. \A t \in Seq(Messages) : Len(t) = 0 => t = <<>>
  OBVIOUS
<1>. QED
  BY <1>1, <1>2, <1>3

LEMMA MessageData ==
    ASSUME NEW m \in Messages, m.action = "Migrate_In"
    PROVE  m.data \in Seq(Groups)
  BY DEF Messages

(* A request is only there while the instance stays and has not answered.  *)
LEMMA HasRequest ==
    ASSUME IInv, NEW i \in Instances, req[i] # <<>>
    PROVE  /\ Takes(i) /\ Stays(i) /\ resp[i] = <<>> /\ inst[i].loop = "get"
           /\ Unasked(i) \/ Asked(i)
           /\ inst[i].todo \subseteq inst[i].running
           /\ inst[i].roll \in {"wait", "process"} => inst[i].running # {}
<1>1. InstanceInv(i)
  BY DEF IInv, TalkInv
<1>. QED
  BY <1>1 DEF InstanceInv, Talk, Left, Told

(* One that is not a Migrate_In is the one the scheduler is waiting for.   *)
LEMMA RequestDue ==
    ASSUME IInv, NEW i \in Instances, req[i] # <<>>, req[i][1].action # "Migrate_In"
    PROVE  /\ req[i][1].action \in Due(i) /\ Tail(req[i]) = <<>>
           /\ Due(i) \in {{"Report"}, {"Migrate_Out"}, {"Finish", "Wait_For_Finish"}}
<1>1. Asked(i) /\ Len(req[i]) = 1
  BY HasRequest DEF Asked, Unasked, IsMigrateIn
<1>2. req[i] \in Seq(Messages)
  BY DEF IInv, TypeOK
<1>3. Tail(req[i]) = <<>>
  BY <1>1, <1>2, TakeRequest
<1>4. req[i][1].action \in Due(i)
  BY <1>1 DEF Asked, IsMigrateIn
<1>. QED
  BY <1>3, <1>4 DEF Due

LEMMA ReportType ==
    ASSUME NEW i \in Instances, TypeOK
    PROVE  Report(i) \in Responses /\ Report(i).action = "Report"
<1> DEFINE R == {g \in inst[i].running : gen[g] = "gen"}
           T == inst[i].running \cup inst[i].done
<1>1. R \in SUBSET Groups /\ T \in SUBSET Groups
  BY DEF TypeOK, InstanceStates
<1>2. Cardinality(R) \in Nat /\ Cardinality(T) \in Nat
  <2> HIDE DEF R, T
  <2>. QED
    BY <1>1, RequestsAssumption, FS_Subset, FS_CardinalityType
<1>3. Report(i) = [action |-> "Report", running |-> Cardinality(R),
                   total |-> Cardinality(T)]
  BY DEF Report
<1> HIDE DEF R, T
<1>. QED
  BY <1>2, <1>3 DEF Responses

(* A step of main_loop that changes the instance's queues, its state and   *)
(* the engine only.                                                        *)
LEMMA LoopStep ==
    ASSUME IInv, NEW i \in Instances,
           UNCHANGED <<schedVars, output, actorVars, inf, round>>,
           NEW q \in Seq(Messages), req' = [req EXCEPT ![i] = q],
           NEW p \in Seq(Responses), resp' = [resp EXCEPT ![i] = p],
           NEW s \in InstanceStates, inst' = [inst EXCEPT ![i] = s],
           gen' \in [Groups -> {"new", "gen", "completed", "aborted"}],
           (Takes(i)' <=> Takes(i)) /\ Due(i)' = Due(i) =>
                (req'[i] = q /\ resp'[i] = p /\ inst'[i] = s => InstanceInv(i)')
    PROVE  IInv'
<1>1. TypeOK
  BY DEF IInv
<1>2. UNCHANGED <<spc, iter, cur, available, reports, awaited, output, act, actorReq,
                  actorResp, inf, round>>
  BY DEF schedVars, actorVars
<1>3. /\ inst' \in [Instances -> InstanceStates] /\ inst'[i] = s
      /\ \A j \in Instances : j # i => inst'[j] = inst[j]
  BY <1>1 DEF TypeOK
<1>4. /\ resp' \in [Instances -> Seq(Responses)] /\ resp'[i] = p
      /\ \A j \in Instances : j # i => resp'[j] = resp[j]
  BY <1>1 DEF TypeOK
<1>5. /\ req' \in [Instances -> Seq(Messages)] /\ req'[i] = q
      /\ \A j \in Instances : j # i => req'[j] = req[j]
  BY <1>1 DEF TypeOK
<1>6. TypeOK'
  BY <1>1, <1>2, <1>3, <1>4, <1>5 DEF TypeOK
<1>7. InstanceInv(i)'
  BY <1>2, <1>3, <1>4, <1>5, DueFrame
<1>. QED
  BY <1>3, <1>4, <1>5, <1>6, <1>7, OtherInstances

LEMMA GetReportIInv ==
    ASSUME IInv, NEW i \in Instances, MainLoopGet(i), Head(req[i]).action = "Report",
           resp' = [resp EXCEPT ![i] = Append(@, Report(i))], inst' = inst, gen' = gen
    PROVE  IInv'
<1>1. TypeOK
  BY DEF IInv
<1>2. /\ req[i] # <<>> /\ req[i] \in Seq(Messages)
      /\ req' = [req EXCEPT ![i] = Tail(req[i])]
      /\ UNCHANGED <<schedVars, output, actorVars, inf, round>>
  BY <1>1 DEF MainLoopGet, TypeOK
<1>3. Head(req[i]) = req[i][1] /\ Tail(req[i]) \in Seq(Messages)
  BY <1>2, TakeRequest
<1>4. /\ "Report" \in Due(i) /\ Tail(req[i]) = <<>>
      /\ Due(i) \in {{"Report"}, {"Migrate_Out"}, {"Finish", "Wait_For_Finish"}}
  BY <1>2, <1>3, RequestDue
<1>5. Due(i) = {"Report"}
  BY <1>4
<1>6. /\ Takes(i) /\ Stays(i) /\ resp[i] = <<>> /\ inst[i].loop = "get"
      /\ inst[i].todo \subseteq inst[i].running
      /\ inst[i].roll \in {"wait", "process"} => inst[i].running # {}
  BY <1>2, HasRequest
<1> DEFINE p == Append(resp[i], Report(i))
<1>7. /\ resp[i] \in Seq(Responses) /\ inst[i] \in InstanceStates
      /\ inst' = [inst EXCEPT ![i] = inst[i]] /\ resp' = [resp EXCEPT ![i] = p]
  BY <1>1 DEF TypeOK
<1>8. p \in Seq(Responses) /\ Len(p) = 1 /\ p[1].action = "Report"
  BY <1>1, <1>6, <1>7, ReportType
<1> HIDE DEF p
<1>9. ASSUME (Takes(i)' <=> Takes(i)) /\ Due(i)' = Due(i),
             req'[i] = Tail(req[i]) /\ resp'[i] = p /\ inst'[i] = inst[i]
      PROVE  InstanceInv(i)'
  <2>1. Stays(i)'
    BY <1>6, <1>9 DEF Stays
  <2>2. Talk(i)'
    BY <1>4, <1>5, <1>6, <1>8, <1>9, <2>1 DEF Talk
  <2>. QED
    BY <1>6, <1>9, <2>2 DEF InstanceInv
<1>10. gen' \in [Groups -> {"new", "gen", "completed", "aborted"}]
  BY <1>1 DEF TypeOK
<1>. QED
  BY <1>2, <1>3, <1>7, <1>8, <1>9, <1>10, LoopStep

LEMMA GetMigrateInIInv ==
    ASSUME IInv, NEW i \in Instances, MainLoopGet(i), Head(req[i]).action = "Migrate_In",
           MigrateIn(i, Head(req[i]).data), resp' = resp
    PROVE  IInv'
<1>1. TypeOK
  BY DEF IInv
<1>2. /\ req[i] # <<>> /\ req[i] \in Seq(Messages)
      /\ req' = [req EXCEPT ![i] = Tail(req[i])]
      /\ UNCHANGED <<schedVars, output, actorVars, inf, round>>
  BY <1>1 DEF MainLoopGet, TypeOK
<1>3. /\ Head(req[i]) = req[i][1] /\ req[i][1] \in Messages
      /\ Tail(req[i]) \in Seq(Messages)
      /\ Len(req[i]) = 1 => Tail(req[i]) = <<>>
      /\ Len(req[i]) = 2 => Len(Tail(req[i])) = 1 /\ Tail(req[i])[1] = req[i][2]
  BY <1>2, TakeRequest
<1>4. /\ Takes(i) /\ Stays(i) /\ resp[i] = <<>> /\ inst[i].loop = "get"
      /\ Unasked(i) \/ Asked(i)
      /\ inst[i].todo \subseteq inst[i].running
      /\ inst[i].roll \in {"wait", "process"} => inst[i].running # {}
  BY <1>2, HasRequest
<1> DEFINE batches == Head(req[i]).data
           data == ToSet(batches)
<1>5. batches \in Seq(Groups) /\ batches # <<>>
  <2>1. batches \in Seq(Groups)
    BY <1>3, MessageData
  <2>2. "Migrate_In" \notin Due(i)
    BY DEF Due
  <2>. QED
    BY <1>3, <1>4, <2>1, <2>2 DEF Asked, Unasked, IsMigrateIn
<1>6. data \subseteq Groups /\ data # {}
  <2> HIDE DEF batches
  <2>1. /\ DOMAIN batches = 1..Len(batches) /\ Len(batches) \in Nat \ {0}
        /\ \A k \in 1..Len(batches) : batches[k] \in Groups
    BY <1>5
  <2>2. 1 \in DOMAIN batches
    BY <2>1
  <2>3. data = {batches[k] : k \in DOMAIN batches}
    BY DEF ToSet
  <2> HIDE DEF data
  <2>. QED
    BY <2>1, <2>2, <2>3
<1> DEFINE r == inst[i]
           s == [r EXCEPT !.event = r.event \/ NotifiesOnMigrateIn(r),
                          !.running = r.running \cup data]
<1>7. inst \in [Instances -> InstanceStates] /\ r \in InstanceStates
  BY <1>1 DEF TypeOK
<1>8. inst' = [inst EXCEPT ![i] = s]
  BY <1>7, Zenon DEF MigrateIn
<1>9. gen' \in [Groups -> {"new", "gen", "completed", "aborted"}]
  BY <1>1 DEF MigrateIn, TypeOK
<1> HIDE DEF data, batches
<1>10. s \in InstanceStates
  <2>1. (r.event \/ NotifiesOnMigrateIn(r)) \in BOOLEAN
    OBVIOUS
  <2>2. r.running \cup data \in SUBSET Groups
    BY <1>6, <1>7 DEF InstanceStates
  <2>. QED
    BY <1>7, <2>1, <2>2, Zenon DEF InstanceStates
<1>11. /\ s.roll = r.roll /\ s.todo = r.todo /\ s.running = r.running \cup data
       /\ s.loop = r.loop
  BY <1>7 DEF InstanceStates
<1>12. s.event <=> (r.event \/ NotifiesOnMigrateIn(r))
  BY <1>7, Zenon DEF InstanceStates
<1> HIDE DEF s
<1>13. s.event => r.roll \in {"idle", "notify", "failed"}
  <2>1. r.event => r.roll \in {"idle", "notify", "failed"}
    BY <1>4 DEF Stays
  <2>2. r.roll \in {"idle", "wait", "process", "notify", "offload", "end", "failed"}
    BY <1>7 DEF InstanceStates
  <2>3. r.running = {} => r.roll \in {"idle", "notify", "failed"}
    BY <1>4, <2>2 DEF Stays
  <2>. QED
    BY <1>12, <2>1, <2>3 DEF NotifiesOnMigrateIn
<1>14. ASSUME (Takes(i)' <=> Takes(i)) /\ Due(i)' = Due(i),
             req'[i] = Tail(req[i]) /\ resp'[i] = resp[i] /\ inst'[i] = s
      PROVE  InstanceInv(i)'
  <2>1. Stays(i)'
    BY <1>4, <1>6, <1>11, <1>13, <1>14 DEF Stays
  <2>2. Unasked(i)' \/ Asked(i)'
    <3>1. CASE Unasked(i)
      BY <1>2, <1>3, <1>14, <3>1 DEF Unasked
    <3>2. CASE Asked(i)
      <4>1. "Migrate_In" \notin Due(i)
        BY DEF Due
      <4>2. Len(req[i]) = 2 /\ req[i][2].action \in Due(i)
        BY <1>3, <3>2, <4>1 DEF Asked
      <4>. QED
        BY <1>3, <1>14, <4>2 DEF Asked
    <3>. QED
      BY <1>4, <3>1, <3>2
  <2>3. Talk(i)'
    BY <1>4, <1>11, <1>14, <2>1, <2>2 DEF Talk
  <2>. QED
    BY <1>4, <1>6, <1>11, <1>14, <2>3 DEF InstanceInv
<1>15. resp[i] \in Seq(Responses) /\ resp' = [resp EXCEPT ![i] = resp[i]]
  BY <1>1 DEF TypeOK
<1>. QED
  BY <1>2, <1>3, <1>8, <1>9, <1>10, <1>14, <1>15, LoopStep

LEMMA GetMigrateOutIInv ==
    ASSUME IInv, NEW i \in Instances, MainLoopGet(i), Head(req[i]).action = "Migrate_Out",
           Abort(i), inst' = [inst EXCEPT ![i].loop = "migrate_out"], resp' = resp
    PROVE  IInv'
<1>1. TypeOK
  BY DEF IInv
<1>2. /\ req[i] # <<>> /\ req[i] \in Seq(Messages)
      /\ req' = [req EXCEPT ![i] = Tail(req[i])]
      /\ UNCHANGED <<schedVars, output, actorVars, inf, round>>
  BY <1>1 DEF MainLoopGet, TypeOK
<1>3. Head(req[i]) = req[i][1] /\ Tail(req[i]) \in Seq(Messages)
  BY <1>2, TakeRequest
<1>4. /\ "Migrate_Out" \in Due(i) /\ Tail(req[i]) = <<>>
      /\ Due(i) \in {{"Report"}, {"Migrate_Out"}, {"Finish", "Wait_For_Finish"}}
  BY <1>2, <1>3, RequestDue
<1>5. Due(i) = {"Migrate_Out"}
  BY <1>4
<1>6. /\ Takes(i) /\ Stays(i) /\ resp[i] = <<>>
      /\ inst[i].todo \subseteq inst[i].running
      /\ inst[i].roll \in {"wait", "process"} => inst[i].running # {}
  BY <1>2, HasRequest
<1> DEFINE s == [inst[i] EXCEPT !.loop = "migrate_out"]
<1>7. /\ resp[i] \in Seq(Responses) /\ inst[i] \in InstanceStates
      /\ inst' = [inst EXCEPT ![i] = s] /\ resp' = [resp EXCEPT ![i] = resp[i]]
  BY <1>1 DEF TypeOK
<1>8. s \in InstanceStates
  BY <1>7 DEF InstanceStates
<1>9. /\ s.roll = inst[i].roll /\ s.todo = inst[i].todo /\ s.running = inst[i].running
      /\ s.loop = "migrate_out"
  BY <1>7 DEF InstanceStates
<1>10. s.event <=> inst[i].event
  BY <1>7 DEF InstanceStates
<1> HIDE DEF s
<1>11. ASSUME (Takes(i)' <=> Takes(i)) /\ Due(i)' = Due(i),
              req'[i] = Tail(req[i]) /\ resp'[i] = resp[i] /\ inst'[i] = s
       PROVE  InstanceInv(i)'
  <2>1. Stays(i)'
    BY <1>6, <1>9, <1>10, <1>11 DEF Stays
  <2>2. Talk(i)'
    BY <1>4, <1>5, <1>6, <1>9, <1>11, <2>1 DEF Talk
  <2>. QED
    BY <1>6, <1>9, <1>11, <2>2 DEF InstanceInv
<1>12. gen' \in [Groups -> {"new", "gen", "completed", "aborted"}]
  BY <1>1 DEF TypeOK, Abort
<1>. QED
  BY <1>2, <1>3, <1>7, <1>8, <1>11, <1>12, LoopStep

LEMMA GetFinishIInv ==
    ASSUME IInv, NEW i \in Instances, MainLoopGet(i),
           Head(req[i]).action \in {"Finish", "Wait_For_Finish"},
           inst' = [inst EXCEPT ![i].loop = "finish"], gen' = gen, resp' = resp
    PROVE  IInv'
<1>1. TypeOK
  BY DEF IInv
<1>2. /\ req[i] # <<>> /\ req[i] \in Seq(Messages)
      /\ req' = [req EXCEPT ![i] = Tail(req[i])]
      /\ UNCHANGED <<schedVars, output, actorVars, inf, round>>
  BY <1>1 DEF MainLoopGet, TypeOK
<1>3. Head(req[i]) = req[i][1] /\ Tail(req[i]) \in Seq(Messages)
  BY <1>2, TakeRequest
<1>4. /\ req[i][1].action \in Due(i) /\ Tail(req[i]) = <<>>
      /\ Due(i) \in {{"Report"}, {"Migrate_Out"}, {"Finish", "Wait_For_Finish"}}
  BY <1>2, <1>3, RequestDue
<1>5. Due(i) = {"Finish", "Wait_For_Finish"}
  BY <1>3, <1>4
<1>6. /\ Takes(i) /\ Stays(i) /\ resp[i] = <<>>
      /\ inst[i].todo \subseteq inst[i].running
      /\ inst[i].roll \in {"wait", "process"} => inst[i].running # {}
  BY <1>2, HasRequest
<1> DEFINE s == [inst[i] EXCEPT !.loop = "finish"]
<1>7. /\ resp[i] \in Seq(Responses) /\ inst[i] \in InstanceStates
      /\ inst' = [inst EXCEPT ![i] = s] /\ resp' = [resp EXCEPT ![i] = resp[i]]
  BY <1>1 DEF TypeOK
<1>8. s \in InstanceStates
  BY <1>7 DEF InstanceStates
<1>9. /\ s.roll = inst[i].roll /\ s.todo = inst[i].todo /\ s.running = inst[i].running
      /\ s.loop = "finish"
  BY <1>7 DEF InstanceStates
<1>10. s.event <=> inst[i].event
  BY <1>7 DEF InstanceStates
<1> HIDE DEF s
<1>11. ASSUME (Takes(i)' <=> Takes(i)) /\ Due(i)' = Due(i),
              req'[i] = Tail(req[i]) /\ resp'[i] = resp[i] /\ inst'[i] = s
       PROVE  InstanceInv(i)'
  <2>1. Stays(i)'
    BY <1>6, <1>9, <1>10, <1>11 DEF Stays
  <2>2. Talk(i)'
    BY <1>4, <1>5, <1>6, <1>9, <1>11, <2>1 DEF Talk
  <2>. QED
    BY <1>6, <1>9, <1>11, <2>2 DEF InstanceInv
<1>12. gen' \in [Groups -> {"new", "gen", "completed", "aborted"}]
  BY <1>1 DEF TypeOK
<1>. QED
  BY <1>2, <1>3, <1>7, <1>8, <1>11, <1>12, LoopStep

LEMMA MainLoopGetIInv ==
    ASSUME IInv, NEW i \in Instances, MainLoopGet(i)
    PROVE  IInv'
<1>1. CASE /\ Head(req[i]).action = "Report"
           /\ resp' = [resp EXCEPT ![i] = Append(@, Report(i))]
           /\ UNCHANGED <<inst, gen>>
  BY <1>1, GetReportIInv
<1>2. CASE /\ Head(req[i]).action = "Migrate_In"
           /\ MigrateIn(i, Head(req[i]).data)
           /\ UNCHANGED resp
  BY <1>2, GetMigrateInIInv
<1>3. CASE /\ Head(req[i]).action = "Migrate_Out"
           /\ Abort(i)
           /\ inst' = [inst EXCEPT ![i].loop = "migrate_out"]
           /\ UNCHANGED resp
  BY <1>3, GetMigrateOutIInv
<1>4. CASE /\ Head(req[i]).action \in {"Finish", "Wait_For_Finish"}
           /\ inst' = [inst EXCEPT ![i].loop = "finish"]
           /\ UNCHANGED <<gen, resp>>
  BY <1>4, GetFinishIInv
<1>. QED
  BY <1>1, <1>2, <1>3, <1>4, Zenon DEF MainLoopGet

LEMMA MigratedOutIInv ==
    ASSUME IInv, NEW i \in Instances, MigratedOut(i)
    PROVE  IInv'
<1>1. TypeOK /\ InstanceInv(i)
  BY DEF IInv, TalkInv
<1>2. /\ inst[i].loop = "migrate_out" /\ inst[i].running = {}
      /\ UNCHANGED <<schedVars, req, gen, output, actorVars, inf, round>>
  BY DEF MigratedOut, NoRunningTask
<1>3. /\ Takes(i) /\ Stays(i) /\ Due(i) = {"Migrate_Out"}
      /\ req[i] = <<>> /\ resp[i] = <<>>
      /\ inst[i].todo \subseteq inst[i].running
      /\ inst[i].roll \in {"wait", "process"} => inst[i].running # {}
  BY <1>1, <1>2 DEF InstanceInv, Talk, Left, Told
<1> DEFINE m == [action |-> "Migrate_Out", data |-> inst[i].aborted]
           p == Append(resp[i], m)
           s == [inst[i] EXCEPT !.loop = "get"]
<1>4. /\ inst[i] \in InstanceStates /\ resp[i] \in Seq(Responses)
      /\ req[i] \in Seq(Messages) /\ req' = [req EXCEPT ![i] = req[i]]
      /\ resp' = [resp EXCEPT ![i] = p] /\ inst' = [inst EXCEPT ![i] = s]
  BY <1>1, <1>2 DEF TypeOK, MigratedOut
<1>5. m \in Responses /\ m.action = "Migrate_Out"
  BY <1>4 DEF Responses, InstanceStates
<1>6. s \in InstanceStates
  BY <1>4 DEF InstanceStates
<1>7. /\ s.roll = inst[i].roll /\ s.todo = inst[i].todo /\ s.running = inst[i].running
      /\ s.loop = "get"
  BY <1>4 DEF InstanceStates
<1>8. s.event <=> inst[i].event
  BY <1>4 DEF InstanceStates
<1> HIDE DEF s, m
<1>9. p \in Seq(Responses) /\ Len(p) = 1 /\ p[1].action = "Migrate_Out"
  BY <1>3, <1>4, <1>5
<1> HIDE DEF p
<1>10. ASSUME (Takes(i)' <=> Takes(i)) /\ Due(i)' = Due(i),
              req'[i] = req[i] /\ resp'[i] = p /\ inst'[i] = s
       PROVE  InstanceInv(i)'
  <2>1. Stays(i)'
    BY <1>3, <1>7, <1>8, <1>10 DEF Stays
  <2>2. Talk(i)'
    BY <1>3, <1>7, <1>9, <1>10, <2>1 DEF Talk
  <2>. QED
    BY <1>3, <1>7, <1>10, <2>2 DEF InstanceInv
<1>11. gen' \in [Groups -> {"new", "gen", "completed", "aborted"}]
  BY <1>1, <1>2 DEF TypeOK
<1>. QED
  BY <1>2, <1>4, <1>6, <1>9, <1>10, <1>11, LoopStep

LEMMA NotifyFinishIInv ==
    ASSUME IInv, NEW i \in Instances, NotifyFinish(i)
    PROVE  IInv'
<1>1. TypeOK /\ InstanceInv(i)
  BY DEF IInv, TalkInv
<1>2. /\ inst[i].loop = "finish" /\ inst[i].running = {}
      /\ UNCHANGED <<schedVars, req, resp, gen, output, actorVars, inf, round>>
  BY DEF NotifyFinish, NoRunningTask
<1>3. /\ Takes(i) /\ Stays(i) /\ Due(i) = {"Finish", "Wait_For_Finish"}
      /\ req[i] = <<>> /\ resp[i] = <<>>
      /\ inst[i].todo \subseteq inst[i].running
      /\ inst[i].roll \in {"wait", "process"} => inst[i].running # {}
  BY <1>1, <1>2 DEF InstanceInv, Talk, Left, Told
<1> DEFINE s == [inst[i] EXCEPT !.loop = "get", !.event = TRUE]
<1>4. /\ inst \in [Instances -> InstanceStates] /\ inst[i] \in InstanceStates
      /\ resp[i] \in Seq(Responses) /\ req[i] \in Seq(Messages)
      /\ req' = [req EXCEPT ![i] = req[i]] /\ resp' = [resp EXCEPT ![i] = resp[i]]
  BY <1>1, <1>2 DEF TypeOK
<1>5. inst' = [inst EXCEPT ![i] = s]
  BY <1>4, Zenon DEF NotifyFinish
<1>6. s \in InstanceStates
  BY <1>4, Zenon DEF InstanceStates
<1>7. /\ s.roll = inst[i].roll /\ s.todo = inst[i].todo /\ s.running = inst[i].running
      /\ s.loop = "get"
  BY <1>4 DEF InstanceStates
<1>8. s.event
  BY <1>4, Zenon DEF InstanceStates
<1> HIDE DEF s
<1>9. ASSUME (Takes(i)' <=> Takes(i)) /\ Due(i)' = Due(i),
             req'[i] = req[i] /\ resp'[i] = resp[i] /\ inst'[i] = s
      PROVE  InstanceInv(i)'
  <2>1. Told(i)'
    BY <1>2, <1>3, <1>7, <1>8, <1>9 DEF Told, Stays
  <2>2. Talk(i)'
    BY <1>3, <1>9, <2>1 DEF Talk
  <2>. QED
    BY <1>3, <1>7, <1>9, <2>2 DEF InstanceInv
<1>10. gen' \in [Groups -> {"new", "gen", "completed", "aborted"}]
  BY <1>1, <1>2 DEF TypeOK
<1>. QED
  BY <1>2, <1>4, <1>5, <1>6, <1>9, <1>10, LoopStep

-----------------------------------------------------------------------------
(* The actor, the inference and the runner.                                *)

LEMMA InitIInv == Init => IInv
<1> SUFFICES ASSUME Init PROVE IInv
  OBVIOUS
<1> USE ConfigAssumption
<1>1. ActorGpus \in Nat /\ PreRelease \in Nat
  BY Sizes
<1>2. InitCur \in [Components -> Nat]
  BY DEF InitCur, Components
<1>3. IdleInstance \in InstanceStates
  BY DEF IdleInstance, InstanceStates
<1>4. TypeOK
  BY <1>1, <1>2, <1>3 DEF Init, TypeOK, SchedPCs
<1>5. cur["rollout"] = RolloutInstances /\ cur["actor"] = ActorInstances
  BY DEF Init, InitCur, Components
<1>6. BooksInv
  BY <1>5 DEF Init, BooksInv, LastIter
<1>7. ActorInv
  BY DEF Init, ActorInv, PreProcessing
<1>8. WorldInv
  BY <1>5 DEF Init, WorldInv, Promised, ActorGpus
<1>9. ASSUME NEW i \in Instances PROVE InstanceInv(i)
  <2>1. Takes(i) /\ Due(i) = {} /\ req[i] = <<>> /\ resp[i] = <<>>
    BY DEF Init, Takes, Due
  <2>2. /\ inst[i].roll = "idle" /\ inst[i].loop = "get" /\ inst[i].todo = {}
        /\ inst[i].running = {}
    BY DEF Init, IdleInstance
  <2>3. ~inst[i].event
    BY DEF Init, IdleInstance
  <2>. QED
    BY <2>1, <2>2, <2>3 DEF InstanceInv, Talk, Stays, Unasked
<1>. QED
  BY <1>4, <1>6, <1>7, <1>8, <1>9 DEF IInv, TalkInv

LEMMA ActorStep ==
    ASSUME IInv, UNCHANGED <<schedVars, req, resp, inst>>, TypeOK', ActorInv', WorldInv'
    PROVE  IInv'
<1>1. BooksInv'
  BY BooksFrame DEF IInv
<1>2. ASSUME NEW i \in Instances PROVE InstanceInv(i)'
  <2>1. InstanceInv(i)
    BY DEF IInv, TalkInv
  <2>2. UNCHANGED <<spc, cur, awaited>>
    BY DEF schedVars
  <2>. QED
    BY <2>1, <2>2, TalkFrame
<1>. QED
  BY <1>1, <1>2 DEF IInv, TalkInv

LEMMA ActorPreProcessIInv == IInv /\ ActorPreProcess => IInv'
<1> SUFFICES ASSUME IInv, ActorPreProcess PROVE IInv'
  OBVIOUS
<1>1. TypeOK /\ ActorInv /\ WorldInv /\ act.pc = "pre"
  BY DEF IInv, ActorPreProcess
<1>2. UNCHANGED <<spc, iter, cur, available, reports, awaited, req, resp, inst, gen, output,
                  actorResp, inf, round>>
  BY DEF ActorPreProcess, schedVars, instVars
<1>3. /\ act' = [act EXCEPT !.pc = "train"]
      /\ act'.pc = "train" /\ act'.iter = act.iter /\ act'.world = act.world
      /\ act' \in [pc : {"pre", "train", "sync", "end"}, iter : 0..NMinibatches, world : Nat]
  BY <1>1 DEF ActorPreProcess, TypeOK
<1>4. UsePreProcess = WorkersPreProcess
  BY PlacementAssumption
<1>5. /\ act.iter = 0 /\ actorResp = 0 /\ actorReq' = <<>>
      /\ \/ PreProcessing /\ ~UsePreProcess
         \/ spc = "wait_actor" /\ iter = 0
      /\ actorReq = <<>> \/ actorReq[1] = None
  <2>1. /\ act.iter = 0 /\ actorResp = 0
        /\ \/ PreProcessing /\ actorReq = <<>>
           \/ /\ spc = "wait_actor" /\ iter = 0
              /\ actorReq = IF UsePreProcess THEN <<None>> ELSE <<>>
    BY <1>1 DEF ActorInv, ActorTrains, ActorWaits
  <2>2. Tail(<<None>>) = <<>> /\ <<None>> # <<>> /\ <<None>>[1] = None
    OBVIOUS
  <2>3. /\ UsePreProcess => actorReq # <<>> /\ actorReq' = Tail(actorReq)
        /\ ~UsePreProcess => actorReq' = actorReq
    BY <1>4 DEF ActorPreProcess
  <2>4. CASE UsePreProcess
    BY <2>1, <2>2, <2>3, <2>4
  <2>5. CASE ~UsePreProcess
    BY <2>1, <2>3, <2>5
  <2>. QED
    BY <2>4, <2>5
<1>6. ActorInv'
  BY <1>2, <1>3, <1>5, ConfigAssumption DEF ActorInv, ActorTrains, PreProcessing
<1>7. WorldInv'
  BY <1>1, <1>2, <1>3, <1>5 DEF WorldInv, Promised
<1>8. TypeOK'
  BY <1>1, <1>2, <1>3, <1>5 DEF TypeOK
<1>9. UNCHANGED <<schedVars, req, resp, inst>>
  BY <1>2 DEF schedVars
<1>. QED
  BY <1>6, <1>7, <1>8, <1>9, ActorStep

LEMMA ActorTrainIInv == IInv /\ ActorTrain => IInv'
<1> SUFFICES ASSUME IInv, ActorTrain PROVE IInv'
  OBVIOUS
<1>1. TypeOK /\ ActorInv /\ WorldInv /\ act.pc = "train"
  BY DEF IInv, ActorTrain
<1>2. UNCHANGED <<spc, iter, cur, available, reports, awaited, req, resp, inst, gen, output,
                  actorReq, inf, round>>
  BY DEF ActorTrain, schedVars, instVars
<1>3. /\ act' = [act EXCEPT !.pc = "sync"] /\ actorResp' = actorResp + 1
      /\ act'.pc = "sync" /\ act'.iter = act.iter /\ act'.world = act.world
      /\ act' \in [pc : {"pre", "train", "sync", "end"}, iter : 0..NMinibatches, world : Nat]
  BY <1>1 DEF ActorTrain, TypeOK
<1>4. ActorTrains
  BY <1>1 DEF ActorInv, ActorWaits
<1>5. ActorTrains'
  BY <1>1, <1>2, <1>3, <1>4 DEF ActorTrains, PreProcessing
<1>6. ActorInv'
  BY <1>5 DEF ActorInv
<1>7. WorldInv'
  BY <1>1, <1>2, <1>3 DEF WorldInv, Promised
<1>8. TypeOK'
  BY <1>1, <1>2, <1>3 DEF TypeOK
<1>9. UNCHANGED <<schedVars, req, resp, inst>>
  BY <1>2 DEF schedVars
<1>. QED
  BY <1>6, <1>7, <1>8, <1>9, ActorStep

LEMMA ActorScaleIInv == IInv /\ ActorScale => IInv'
<1> SUFFICES ASSUME IInv, ActorScale PROVE IInv'
  OBVIOUS
<1>1. TypeOK /\ ActorInv /\ WorldInv /\ act.pc = "sync" /\ actorReq # <<>>
  BY DEF IInv, ActorScale
<1>2. UNCHANGED <<spc, iter, cur, available, reports, awaited, req, resp, inst, gen, output,
                  actorResp, inf, round>>
  BY DEF ActorScale, schedVars, instVars
<1>3. /\ actorResp = 0 /\ Len(actorReq) = 1
      /\ IF iter = -1 THEN spc = "done" /\ act.iter = NMinibatches - 1
                      ELSE spc = "wait_actor" /\ iter = act.iter + 1
  BY <1>1 DEF ActorInv, ActorTrains, ActorWaits
<1>4. /\ Head(actorReq) = actorReq[1] /\ actorReq[1] \in {None} \cup Nat
      /\ actorReq' = <<>>
  <2>1. actorReq \in Seq({None} \cup Nat)
    BY <1>1 DEF TypeOK
  <2>2. Len(Tail(actorReq)) = 0 /\ Tail(actorReq) \in Seq({None} \cup Nat)
    BY <1>3, <2>1
  <2>3. \A t \in Seq({None} \cup Nat) : Len(t) = 0 => t = <<>>
    OBVIOUS
  <2>. QED
    BY <1>3, <2>1, <2>2, <2>3 DEF ActorScale
<1>5. act \in [pc : {"pre", "train", "sync", "end"}, iter : 0..NMinibatches, world : Nat]
  BY <1>1 DEF TypeOK
<1>6. act.iter + 1 \in 0..NMinibatches
  BY <1>1, <1>3, <1>5, ConfigAssumption DEF TypeOK
<1> DEFINE world == IF Head(actorReq) = None THEN act.world ELSE Head(actorReq)
           pc == IF act.iter + 1 = NMinibatches THEN "end" ELSE "train"
<1>7. world \in Nat /\ pc \in {"train", "end"}
  BY <1>4, <1>5
<1>8. act' = [act EXCEPT !.world = world, !.iter = @ + 1, !.pc = pc]
  BY DEF ActorScale
<1> HIDE DEF world, pc
<1>9. /\ act'.world = world /\ act'.iter = act.iter + 1 /\ act'.pc = pc
      /\ act' \in [pc : {"pre", "train", "sync", "end"}, iter : 0..NMinibatches, world : Nat]
  BY <1>5, <1>6, <1>7, <1>8
<1>10. ActorInv'
  <2>1. CASE iter = -1
    BY <1>2, <1>3, <1>4, <1>5, <1>9, <2>1, ConfigAssumption DEF ActorInv, pc
  <2>2. CASE iter # -1
    <3>1. act.iter + 1 < NMinibatches
      BY <1>1, <1>3, <2>2, ConfigAssumption DEF TypeOK
    <3>2. ActorTrains'
      BY <1>2, <1>3, <1>4, <1>9, <2>2, <3>1 DEF ActorTrains, pc
    <3>. QED
      BY <3>2 DEF ActorInv
  <2>. QED
    BY <2>1, <2>2
<1>11. WorldInv'
  BY <1>1, <1>2, <1>4, <1>9 DEF WorldInv, Promised, world
<1>12. TypeOK'
  BY <1>1, <1>2, <1>4, <1>9 DEF TypeOK
<1>13. UNCHANGED <<schedVars, req, resp, inst>>
  BY <1>2 DEF schedVars
<1>. QED
  BY <1>10, <1>11, <1>12, <1>13, ActorStep

LEMMA InferenceFinishesIInv == IInv /\ InferenceFinishes => IInv'
<1> SUFFICES ASSUME IInv, InferenceFinishes PROVE IInv'
  OBVIOUS
<1>1. TypeOK /\ ActorInv /\ WorldInv
  BY DEF IInv
<1>2. /\ UNCHANGED <<spc, iter, cur, available, reports, awaited, req, resp, inst, gen,
                     output, act, actorReq, actorResp, round>>
      /\ inf' = "finished"
  BY DEF InferenceFinishes, schedVars, instVars, actorVars
<1>3. UNCHANGED <<schedVars, req, resp, inst>> /\ UNCHANGED <<schedVars, actorVars>>
  BY <1>2 DEF schedVars, actorVars
<1>4. ActorInv' /\ WorldInv'
  BY <1>1, <1>3, ActorFrame
<1>5. TypeOK'
  BY <1>1, <1>2 DEF TypeOK
<1>. QED
  BY <1>3, <1>4, <1>5, ActorStep

LEMMA NextRoundIInv == IInv /\ NextRound => IInv'
<1> SUFFICES ASSUME IInv, NextRound PROVE IInv'
  OBVIOUS
<1>1. TypeOK /\ BooksInv /\ ActorInv /\ WorldInv /\ spc = "done" /\ act.pc = "end"
  BY DEF IInv, NextRound
<1>2. /\ UNCHANGED <<iter, cur, available, reports, awaited, req, resp, actorReq, actorResp>>
      /\ spc' = "pre_process" /\ inf' = "run" /\ round' = round + 1
      /\ inst' = [i \in Instances |-> [inst[i] EXCEPT !.roll = "idle"]]
      /\ act' = [act EXCEPT !.pc = "pre", !.iter = 0]
      /\ gen' = [g \in Groups |-> "new"] /\ output' = [g \in Groups |-> 0]
  BY DEF NextRound
<1>3. /\ act'.pc = "pre" /\ act'.iter = 0 /\ act'.world = act.world
      /\ act' \in [pc : {"pre", "train", "sync", "end"}, iter : 0..NMinibatches, world : Nat]
  <2>1. act \in [pc : {"pre", "train", "sync", "end"}, iter : 0..NMinibatches, world : Nat]
    BY <1>1 DEF TypeOK
  <2>2. 0 \in 0..NMinibatches
    BY ConfigAssumption
  <2>. QED
    BY <1>2, <2>1, <2>2
<1>4. inst' \in [Instances -> InstanceStates]
  <2>1. ASSUME NEW i \in Instances PROVE inst'[i] \in InstanceStates
    <3>1. inst[i] \in InstanceStates
      BY <1>1 DEF TypeOK
    <3>. QED
      BY <1>2, <3>1 DEF InstanceStates
  <2>. QED
    BY <1>2, <2>1
<1>5. TypeOK'
  BY <1>1, <1>2, <1>3, <1>4 DEF TypeOK, SchedPCs
<1>6. /\ iter = -1 /\ cur["actor"] = ActorInstances /\ cur["rollout"] = 0
      /\ actorResp = 0 /\ actorReq = <<>>
  BY <1>1 DEF BooksInv, ActorInv, ActorTrains, ActorWaits
<1>7. BooksInv'
  BY <1>1, <1>2, <1>6 DEF BooksInv
<1>8. ActorInv'
  BY <1>2, <1>3, <1>6 DEF ActorInv, PreProcessing
<1>9. WorldInv'
  BY <1>1, <1>2, <1>3, <1>6 DEF WorldInv, Promised
<1>10. ASSUME NEW i \in Instances PROVE InstanceInv(i)'
  <2>1. i \notin Alive /\ spc # "pre_process"
    BY <1>1, <1>6, ConfigAssumption DEF Alive, Offset, Instances
  <2>2. Left(i) /\ InstanceInv(i) /\ inst[i] \in InstanceStates
    BY <1>1, <2>1 DEF IInv, TalkInv, InstanceInv, Talk, Takes, TypeOK
  <2>3. /\ inst'[i].roll = "idle" /\ inst'[i].todo = inst[i].todo
        /\ inst'[i].running = inst[i].running /\ inst'[i].loop = "get"
    BY <1>2, <2>2 DEF InstanceStates, Left
  <2>4. ~inst'[i].event
    BY <1>2, <2>2 DEF InstanceStates, Left
  <2>5. Takes(i)' /\ Due(i)' = {} /\ req'[i] = <<>> /\ resp'[i] = <<>>
    BY <1>2, <2>2 DEF Takes, Due, Left
  <2>. QED
    BY <2>2, <2>3, <2>4, <2>5 DEF InstanceInv, Talk, Stays, Unasked
<1>. QED
  BY <1>5, <1>7, <1>8, <1>9, <1>10 DEF IInv, TalkInv

-----------------------------------------------------------------------------
(* The scheduler's steps, seen from an instance: it is asked nothing,      *)
(* asked one thing, or has answered and is asked the next.                 *)

LEMMA NothingAsked ==
    ASSUME NEW i \in Instances, InstanceInv(i), Due(i) = {}, Due(i)' = {},
           Takes(i)' <=> Takes(i), spc' # "migrate_out",
           req'[i] = req[i], resp'[i] = resp[i], inst'[i] = inst[i]
    PROVE  InstanceInv(i)'
<1>1. Left(i) => Left(i)'
  BY DEF Left
<1>2. Stays(i) => Stays(i)'
  BY DEF Stays
<1>3. Unasked(i) => Unasked(i)'
  BY DEF Unasked
<1>4. ~Asked(i)
  BY DEF Asked
<1>. QED
  BY <1>1, <1>2, <1>3, <1>4 DEF InstanceInv, Talk

LEMMA AppendRequest ==
    ASSUME NEW q \in Seq(Messages), NEW m \in Messages
    PROVE  /\ Append(q, m) \in Seq(Messages) /\ Len(Append(q, m)) = Len(q) + 1
           /\ q = <<>> => Append(q, m)[1] = m
           /\ Len(q) = 1 => Append(q, m)[1] = q[1] /\ Append(q, m)[2] = m
  OBVIOUS

LEMMA IsAsked ==
    ASSUME IInv, NEW i \in Instances, Due(i) = {}, Takes(i), Takes(i)',
           NEW action \in {"Report", "Migrate_Out", "Finish", "Wait_For_Finish"},
           action \in Due(i)', req'[i] = Append(req[i], [action |-> action]),
           resp'[i] = resp[i], inst'[i] = inst[i]
    PROVE  InstanceInv(i)'
<1> DEFINE m == [action |-> action]
<1>1. m \in Messages /\ m.action = action
  BY DEF Messages
<1>2. InstanceInv(i) /\ req[i] \in Seq(Messages)
  BY DEF IInv, TypeOK, TalkInv
<1>3. Stays(i) /\ Unasked(i) /\ resp[i] = <<>> /\ inst[i].loop = "get"
  BY <1>2 DEF InstanceInv, Talk, Asked
<1>4. Stays(i)'
  BY <1>3 DEF Stays
<1> HIDE DEF m
<1>5. req'[i] = Append(req[i], m)
  BY DEF m
<1>6. Asked(i)'
  <2>1. CASE req[i] = <<>>
    <3>1. Len(req'[i]) = 1 /\ req'[i][1] = m
      BY <1>1, <1>2, <1>5, <2>1, AppendRequest
    <3>. QED
      BY <1>1, <3>1 DEF Asked
  <2>2. CASE Len(req[i]) = 1 /\ IsMigrateIn(req[i][1])
    <3>1. Len(req'[i]) = 2 /\ req'[i][1] = req[i][1] /\ req'[i][2] = m
      BY <1>1, <1>2, <1>5, <2>2, AppendRequest
    <3>. QED
      BY <1>1, <2>2, <3>1 DEF Asked, IsMigrateIn
  <2>. QED
    BY <1>3, <2>1, <2>2 DEF Unasked
<1>. QED
  BY <1>2, <1>3, <1>4, <1>6 DEF InstanceInv, Talk

(* An answer to Report or Migrate_Out is the only one, and nothing else is *)
(* under way.                                                              *)
LEMMA HasAnswered ==
    ASSUME IInv, NEW i \in Instances, Due(i) \in {{"Report"}, {"Migrate_Out"}},
           resp[i] # <<>>
    PROVE  /\ Takes(i) /\ Stays(i) /\ inst[i].loop = "get" /\ req[i] = <<>>
           /\ Head(resp[i]) \in Responses /\ Head(resp[i]).action \in Due(i)
           /\ Tail(resp[i]) = <<>>
<1>1. InstanceInv(i) /\ resp[i] \in Seq(Responses)
  BY DEF IInv, TalkInv, TypeOK
<1>2. /\ Takes(i) /\ Stays(i) /\ inst[i].loop = "get" /\ req[i] = <<>>
      /\ Len(resp[i]) = 1 /\ resp[i][1].action \in Due(i)
  BY <1>1 DEF InstanceInv, Talk, Left
<1>3. Head(resp[i]) = resp[i][1] /\ resp[i][1] \in Responses
  BY <1>1, <1>2
<1>4. Tail(resp[i]) \in Seq(Responses) /\ Len(Tail(resp[i])) = 0
  BY <1>1, <1>2
<1>5. \A t \in Seq(Responses) : Len(t) = 0 => t = <<>>
  OBVIOUS
<1>. QED
  BY <1>2, <1>3, <1>4, <1>5

LEMMA IsAskedNext ==
    ASSUME IInv, NEW i \in Instances, Due(i) \in {{"Report"}, {"Migrate_Out"}},
           resp[i] # <<>>, resp'[i] = Tail(resp[i]), inst'[i] = inst[i], Takes(i)',
           \/ Due(i)' = {} /\ req'[i] = req[i]
           \/ \E action \in {"Report", "Migrate_Out", "Finish", "Wait_For_Finish"} :
                 action \in Due(i)' /\ req'[i] = Append(req[i], [action |-> action])
    PROVE  InstanceInv(i)'
<1>1. /\ Stays(i) /\ inst[i].loop = "get" /\ req[i] = <<>> /\ Tail(resp[i]) = <<>>
      /\ InstanceInv(i)
  BY HasAnswered DEF IInv, TalkInv
<1>2. Stays(i)'
  BY <1>1 DEF Stays
<1>3. Unasked(i)' \/ Asked(i)'
  <2>1. CASE Due(i)' = {} /\ req'[i] = req[i]
    BY <1>1, <2>1 DEF Unasked
  <2>2. ASSUME NEW action \in {"Report", "Migrate_Out", "Finish", "Wait_For_Finish"},
               action \in Due(i)', req'[i] = Append(req[i], [action |-> action])
        PROVE  Asked(i)'
    <3>1. Len(req'[i]) = 1 /\ req'[i][1] = [action |-> action]
      BY <1>1, <2>2
    <3>. QED
      BY <2>2, <3>1 DEF Asked
  <2>. QED
    BY <2>1, <2>2
<1>. QED
  BY <1>1, <1>2, <1>3 DEF InstanceInv, Talk

(* What a scatter or a gather does to the queues.                          *)
LEMMA ScatterType ==
    ASSUME TypeOK, NEW ids,
           NEW action \in {"Report", "Migrate_Out", "Finish", "Wait_For_Finish"},
           Scatter(ids, action)
    PROVE  /\ req' \in [Instances -> Seq(Messages)]
           /\ \A i \in Instances :
                 req'[i] = IF i \in ids THEN Append(req[i], [action |-> action])
                                        ELSE req[i]
<1>1. [action |-> action] \in Messages
  BY DEF Messages
<1>2. \A i \in Instances : req[i] \in Seq(Messages)
  BY DEF TypeOK
<1>3. \A i \in Instances : Append(req[i], [action |-> action]) \in Seq(Messages)
  BY <1>1, <1>2
<1>. QED
  BY <1>2, <1>3 DEF Scatter

LEMMA GatherType ==
    ASSUME TypeOK, NEW ids, Answered(ids), Gather(ids)
    PROVE  /\ resp' \in [Instances -> Seq(Responses)]
           /\ \A i \in Instances : resp'[i] = IF i \in ids THEN Tail(resp[i]) ELSE resp[i]
<1>1. \A i \in Instances : resp[i] \in Seq(Responses)
  BY DEF TypeOK
<1>2. \A i \in Instances : i \in ids => Tail(resp[i]) \in Seq(Responses)
  BY <1>1 DEF Answered
<1>. QED
  BY <1>1, <1>2 DEF Gather

(* The instances that are alive, and the lowest n of them.                 *)
LEMMA AliveShape ==
    ASSUME TypeOK, BooksInv
    PROVE  /\ Offset \in Nat /\ Offset + cur["rollout"] = RolloutInstances
           /\ cur["rollout"] \in Nat /\ cur["actor"] \in Nat /\ cur["inference"] \in Nat
           /\ Alive \subseteq Instances
           /\ cur["rollout"] = RolloutInstances => Alive = Instances
           /\ IsFiniteSet(Alive) /\ Cardinality(Alive) = cur["rollout"]
           /\ \A n \in 0..cur["rollout"] :
                 /\ LowestAlive(n) = Offset..(Offset + n - 1)
                 /\ Cardinality(LowestAlive(n)) = n
<1>1. /\ cur["rollout"] \in Nat /\ cur["actor"] \in Nat /\ cur["inference"] \in Nat
      /\ cur["rollout"] <= RolloutInstances /\ RolloutInstances \in Nat \ {0}
  BY ConfigAssumption DEF TypeOK, BooksInv, Components
<1>2. Offset \in Nat /\ Offset + cur["rollout"] = RolloutInstances
  BY <1>1 DEF Offset
<1>3. /\ Alive \subseteq Instances
      /\ cur["rollout"] = RolloutInstances => Alive = Instances
  BY <1>1, <1>2 DEF Alive, Instances
<1>4. ASSUME NEW n \in 0..cur["rollout"]
      PROVE  /\ LowestAlive(n) = Offset..(Offset + n - 1)
             /\ Cardinality(LowestAlive(n)) = n
  <2>1. LowestAlive(n) = Offset..(Offset + n - 1)
    BY <1>1, <1>2 DEF LowestAlive, Alive
  <2>2. Offset \in Int /\ Offset + n - 1 \in Int
    BY <1>1, <1>2
  <2>3. Cardinality(Offset..(Offset + n - 1)) =
            IF Offset > Offset + n - 1 THEN 0 ELSE (Offset + n - 1) - Offset + 1
    BY <2>2, FS_Interval
  <2>. QED
    BY <1>1, <1>2, <2>1, <2>3
<1>5. IsFiniteSet(Alive) /\ Cardinality(Alive) = cur["rollout"]
  <2>1. LowestAlive(cur["rollout"]) = Alive
    BY <1>1, <1>2 DEF LowestAlive, Alive
  <2>2. IsFiniteSet(Alive)
    <3>1. Offset \in Int /\ RolloutInstances - 1 \in Int
      BY <1>1, <1>2
    <3>. QED
      BY <3>1, FS_Interval DEF Alive
  <2>3. cur["rollout"] \in 0..cur["rollout"]
    BY <1>1
  <2>. QED
    BY <1>4, <2>1, <2>2, <2>3
<1>. QED
  BY <1>1, <1>2, <1>3, <1>4, <1>5

(* While the scheduler waits for instances, they are the lowest n alive.   *)
LEMMA AwaitedShape ==
    ASSUME TypeOK, BooksInv, spc \in {"migrate_out", "finish"}
    PROVE  \E n \in 0..cur["rollout"] :
              /\ awaited = LowestAlive(n)
              /\ spc = "migrate_out" \/ iter = -1 => n < cur["rollout"]
              /\ iter = -1 => n = PreRelease
<1>1. cur["rollout"] \in Nat /\ cur["actor"] \in Nat
  BY AliveShape
<1>2. CASE iter = -1
  <2>1. /\ UsePreProcess /\ cur["rollout"] = RolloutInstances
        /\ awaited = LowestAlive(PreRelease)
    BY <1>2 DEF BooksInv
  <2>2. PreRelease \in Nat /\ PreRelease < RolloutInstances
    BY <2>1, Sizes, PlacementAssumption
  <2>. QED
    BY <1>1, <2>1, <2>2
<1>3. CASE iter # -1
  <2>1. iter >= 0
    BY <1>3, ConfigAssumption DEF TypeOK
  <2>2. CASE Releasing
    <3>1. PICK most \in 1..(cur["rollout"] - 1) :
              awaited = LowestAlive(ReleaseNeeded(most, cur["actor"]))
      BY <2>2 DEF Releasing
    <3>2. most \in Nat /\ most < cur["rollout"]
      BY <1>1
    <3>3. ReleaseNeeded(most, cur["actor"]) \in 0..most
      BY <1>1, <3>2, ReleaseBounded
    <3>. QED
      BY <1>1, <1>3, <3>1, <3>2, <3>3
  <2>3. CASE spc = "finish" /\ awaited = Alive
    <3>1. awaited = LowestAlive(cur["rollout"])
      BY <1>1, <2>3, AliveShape DEF LowestAlive, Alive
    <3>. QED
      BY <1>1, <1>3, <2>3, <3>1
  <2>. QED
    BY <2>1, <2>2, <2>3 DEF BooksInv
<1>. QED
  BY <1>2, <1>3

LEMMA HasLeft ==
    ASSUME NEW i \in Instances, InstanceInv(i), ~Takes(i), ~Takes(i)',
           req'[i] = req[i], resp'[i] = resp[i], inst'[i] = inst[i]
    PROVE  InstanceInv(i)'
  BY DEF InstanceInv, Talk, Left

LEMMA AliveFrame ==
    ASSUME cur' = cur
    PROVE  /\ Alive' = Alive /\ Offset' = Offset
           /\ \A n : LowestAlive(n)' = LowestAlive(n)
  BY DEF LowestAlive, Alive, Offset

-----------------------------------------------------------------------------
(* The scheduler's steps.                                                  *)

LEMMA RolloutPreProcessIInv == IInv /\ RolloutPreProcess => IInv'
<1> SUFFICES ASSUME IInv, RolloutPreProcess PROVE IInv'
  OBVIOUS
<1>1. /\ TypeOK /\ BooksInv /\ ActorInv /\ WorldInv /\ spc = "pre_process"
      /\ iter = -1 /\ cur["actor"] = ActorInstances
  BY DEF IInv, RolloutPreProcess, BooksInv
<1>2. UNCHANGED <<reports, awaited, resp, inst, gen, output, act, actorResp, inf, round>>
  BY DEF RolloutPreProcess, instVars
<1>3. ASSUME NEW i \in Instances PROVE Takes(i) /\ Due(i) = {} /\ InstanceInv(i)
  BY <1>1 DEF Takes, Due, IInv, TalkInv
<1>4. /\ act.iter \in 0..NMinibatches /\ NMinibatches \in Nat \ {0}
      /\ RolloutInstances \in Nat \ {0}
  BY <1>1, ConfigAssumption DEF TypeOK
<1>5. CASE UsePreProcess
  <2>1. /\ cur' = [cur EXCEPT !["rollout"] = RolloutInstances]
        /\ req' = [i \in Instances |-> Append(req[i], [action |-> "Report"])]
        /\ spc' = "report" /\ UNCHANGED <<iter, available, actorReq>>
    BY <1>5 DEF RolloutPreProcess
  <2>2. /\ cur' \in [Components -> Nat] /\ cur'["rollout"] = RolloutInstances
        /\ cur'["actor"] = cur["actor"]
    BY <1>1, <1>4, <2>1 DEF TypeOK, Components
  <2>3. Scatter(Instances, "Report")
    BY <2>1 DEF Scatter
  <2>4. /\ req' \in [Instances -> Seq(Messages)]
        /\ \A i \in Instances : req'[i] = Append(req[i], [action |-> "Report"])
    BY <1>1, <2>3, ScatterType
  <2>5. TypeOK'
    BY <1>1, <1>2, <2>1, <2>2, <2>4 DEF TypeOK, SchedPCs
  <2>6. BooksInv'
    BY <1>1, <1>4, <1>5, <2>1, <2>2 DEF BooksInv, LastIter
  <2>7. Alive' = Instances
    <3>1. RolloutInstances - cur'["rollout"] = 0
      BY <1>4, <2>2
    <3>. QED
      BY <3>1 DEF Alive, Offset, Instances
  <2>8. ActorInv'
    BY <1>1, <1>2, <1>4, <2>1 DEF ActorInv, PreProcessing, ActorTrains, ActorWaits
  <2>9. WorldInv'
    BY <1>1, <1>2, <2>1, <2>2 DEF WorldInv, Promised
  <2>10. ASSUME NEW i \in Instances PROVE InstanceInv(i)'
    <3>1. Takes(i)' /\ "Report" \in Due(i)'
      BY <2>1, <2>7 DEF Takes, Due
    <3>. QED
      BY <1>2, <1>3, <2>4, <3>1, IsAsked
  <2>. QED
    BY <2>5, <2>6, <2>8, <2>9, <2>10 DEF IInv, TalkInv
<1>6. CASE ~UsePreProcess
  <2>1. /\ cur' = [InitCur EXCEPT !["rollout"] = RolloutInstances] /\ available' = 0
        /\ iter' = 0 /\ spc' = "wait_actor" /\ UNCHANGED <<req, actorReq>>
    BY <1>6 DEF RolloutPreProcess, EndPreProcess
  <2>2. /\ cur' \in [Components -> Nat] /\ cur'["rollout"] = RolloutInstances
        /\ cur'["actor"] = cur["actor"]
    BY <1>1, <2>1, ConfigAssumption DEF InitCur, Components
  <2>3. TypeOK'
    BY <1>1, <1>2, <1>4, <2>1, <2>2 DEF TypeOK, SchedPCs
  <2>4. BooksInv'
    BY <1>4, <2>1, <2>2 DEF BooksInv
  <2>5. Alive' = Instances
    <3>1. RolloutInstances - cur'["rollout"] = 0
      BY <1>4, <2>2
    <3>. QED
      BY <3>1 DEF Alive, Offset, Instances
  <2>6. ActorInv'
    BY <1>1, <1>2, <1>4, <1>6, <2>1 DEF ActorInv, PreProcessing, ActorTrains, ActorWaits
  <2>7. WorldInv'
    BY <1>1, <1>2, <2>1, <2>2 DEF WorldInv, Promised
  <2>8. ASSUME NEW i \in Instances PROVE InstanceInv(i)'
    <3>1. Takes(i)' /\ Due(i)' = {}
      BY <2>1, <2>5 DEF Takes, Due
    <3>. QED
      BY <1>2, <1>3, <2>1, <3>1, NothingAsked
  <2>. QED
    BY <2>3, <2>4, <2>6, <2>7, <2>8 DEF IInv, TalkInv
<1>. QED
  BY <1>5, <1>6

LEMMA WaitActorIInv == IInv /\ WaitActor => IInv'
<1> SUFFICES ASSUME IInv, WaitActor PROVE IInv'
  OBVIOUS
<1>1. /\ TypeOK /\ BooksInv /\ ActorInv /\ WorldInv /\ spc = "wait_actor" /\ iter >= 0
      /\ actorResp > 0
  BY DEF IInv, WaitActor, BooksInv
<1>2. /\ UNCHANGED <<iter, cur, available, reports, resp, inst, gen, output, act, actorReq,
                     inf, round>>
      /\ actorResp' = actorResp - 1
  BY DEF WaitActor, instVars
<1>3. /\ act.pc = "sync" /\ actorReq = <<>> /\ actorResp = 1 /\ iter = act.iter
  BY <1>1 DEF ActorInv, ActorTrains, ActorWaits, PreProcessing, TypeOK
<1>4. spc' \in {"inference", "finish", "report"}
  BY DEF WaitActor, Finish, AskReports
<1>5. ActorWaits'
  BY <1>2, <1>3, <1>4 DEF ActorWaits
<1>6. ActorInv' /\ WorldInv'
  BY <1>1, <1>2, <1>5 DEF ActorInv, WorldInv, Promised
<1>7. Alive' = Alive /\ \A n : LowestAlive(n)' = LowestAlive(n)
  BY <1>2, AliveFrame
<1>8. Alive \subseteq Instances
  BY <1>1, AliveShape
<1>9. ASSUME NEW i \in Instances
      PROVE  /\ Due(i) = {} /\ InstanceInv(i)
             /\ (Takes(i) <=> i \in Alive) /\ (Takes(i)' <=> i \in Alive)
  BY <1>1, <1>4, <1>7 DEF Takes, Due, IInv, TalkInv
<1>10. CASE cur["rollout"] = 0
  <2>1. spc' = "inference" /\ UNCHANGED <<req, awaited>>
    BY <1>10 DEF WaitActor
  <2>2. TypeOK'
    BY <1>1, <1>2, <1>3, <2>1 DEF TypeOK, SchedPCs
  <2>3. BooksInv'
    BY <1>1, <1>2, <1>10, <2>1 DEF BooksInv, LastIter
  <2>4. ASSUME NEW i \in Instances PROVE InstanceInv(i)'
    <3>1. Due(i)' = {}
      BY <2>1 DEF Due
    <3>. QED
      BY <1>2, <1>9, <2>1, <3>1, NothingAsked
  <2>. QED
    BY <1>6, <2>2, <2>3, <2>4 DEF IInv, TalkInv
<1>11. CASE cur["rollout"] # 0 /\ LastIter
  <2>1. Scatter(Alive, "Finish") /\ awaited' = Alive /\ spc' = "finish"
    BY <1>11 DEF WaitActor, Finish
  <2>2. /\ req' \in [Instances -> Seq(Messages)]
        /\ \A i \in Instances : req'[i] = IF i \in Alive
                                          THEN Append(req[i], [action |-> "Finish"])
                                          ELSE req[i]
    BY <1>1, <2>1, ScatterType
  <2>3. TypeOK'
    BY <1>1, <1>2, <1>3, <1>8, <2>1, <2>2 DEF TypeOK, SchedPCs
  <2>4. BooksInv'
    BY <1>1, <1>2, <1>7, <1>11, <2>1 DEF BooksInv, LastIter
  <2>5. ASSUME NEW i \in Instances PROVE InstanceInv(i)'
    <3>1. CASE i \in Alive
      <4>1. "Finish" \in Due(i)'
        BY <2>1, <3>1 DEF Due
      <4>. QED
        BY <1>2, <1>9, <2>2, <3>1, <4>1, IsAsked
    <3>2. CASE i \notin Alive
      BY <1>2, <1>9, <2>2, <3>2, HasLeft
    <3>. QED
      BY <3>1, <3>2
  <2>. QED
    BY <1>6, <2>3, <2>4, <2>5 DEF IInv, TalkInv
<1>12. CASE cur["rollout"] # 0 /\ ~LastIter
  <2>1. Scatter(Alive, "Report") /\ awaited' = awaited /\ spc' = "report"
    BY <1>12 DEF WaitActor, AskReports
  <2>2. /\ req' \in [Instances -> Seq(Messages)]
        /\ \A i \in Instances : req'[i] = IF i \in Alive
                                          THEN Append(req[i], [action |-> "Report"])
                                          ELSE req[i]
    BY <1>1, <2>1, ScatterType
  <2>3. TypeOK'
    BY <1>1, <1>2, <1>3, <2>1, <2>2 DEF TypeOK, SchedPCs
  <2>4. BooksInv'
    BY <1>1, <1>2, <1>12, <2>1 DEF BooksInv, LastIter
  <2>5. ASSUME NEW i \in Instances PROVE InstanceInv(i)'
    <3>1. CASE i \in Alive
      <4>1. "Report" \in Due(i)'
        BY <1>7, <2>1, <3>1 DEF Due
      <4>. QED
        BY <1>2, <1>9, <2>2, <3>1, <4>1, IsAsked
    <3>2. CASE i \notin Alive
      BY <1>2, <1>9, <2>2, <3>2, HasLeft
    <3>. QED
      BY <3>1, <3>2
  <2>. QED
    BY <1>6, <2>3, <2>4, <2>5 DEF IInv, TalkInv
<1>. QED
  BY <1>10, <1>11, <1>12

(* All reports are in: the counts are naturals, and whichever instances    *)
(* are asked next, every instance keeps its part of the invariant.         *)
LEMMA ReportsIn ==
    ASSUME IInv, spc = "report", Answered(Alive)
    PROVE  /\ RunningTasks \in Nat
           /\ [i \in Instances |-> IF i \in Alive THEN Head(resp[i]).running ELSE 0]
                 \in [Instances -> Nat]
<1>1. Alive \subseteq Instances /\ IsFiniteSet(Alive)
  BY AliveShape DEF IInv
<1>2. ASSUME NEW i \in Alive PROVE Head(resp[i]).running \in Nat
  <2>1. Due(i) = {"Report"} /\ resp[i] # <<>> /\ i \in Instances
    BY <1>1 DEF Due, Answered
  <2>2. Head(resp[i]) \in Responses /\ Head(resp[i]).action = "Report"
    BY <2>1, HasAnswered
  <2>. QED
    BY <2>2 DEF Responses
<1> DEFINE f == [i \in Alive |-> Head(resp[i]).running]
<1>3. \A i \in Alive : f[i] \in Nat
  BY <1>2
<1>4. RunningTasks = Sum(Alive, f)
  BY DEF RunningTasks
<1>5. RunningTasks \in Nat
  <2> HIDE DEF f
  <2>. QED
    BY <1>1, <1>3, <1>4, SumType
<1>. QED
  BY <1>2, <1>5

LEMMA AskNext ==
    ASSUME IInv, spc = "report", Answered(Alive), cur' = cur, inst' = inst,
           spc' # "pre_process",
           \A i \in Instances : resp'[i] = IF i \in Alive THEN Tail(resp[i]) ELSE resp[i],
           NEW ids \in SUBSET Alive,
           NEW action \in {"Report", "Migrate_Out", "Finish", "Wait_For_Finish"},
           \A i \in Instances : req'[i] = IF i \in ids
                                          THEN Append(req[i], [action |-> action])
                                          ELSE req[i],
           \A i \in Instances : IF i \in ids THEN action \in Due(i)' ELSE Due(i)' = {}
    PROVE  TalkInv'
<1> SUFFICES ASSUME NEW i \in Instances PROVE InstanceInv(i)'
  BY DEF TalkInv
<1>1. (Takes(i) <=> i \in Alive) /\ (Takes(i)' <=> i \in Alive)
  BY AliveFrame DEF Takes
<1>2. CASE i \in Alive
  <2>1. Due(i) = {"Report"} /\ resp[i] # <<>> /\ resp'[i] = Tail(resp[i])
    BY <1>2 DEF Due, Answered
  <2>2. inst'[i] = inst[i] /\ Takes(i)'
    BY <1>1, <1>2
  <2>3. \/ Due(i)' = {} /\ req'[i] = req[i]
        \/ action \in Due(i)' /\ req'[i] = Append(req[i], [action |-> action])
    OBVIOUS
  <2>. QED
    BY <2>1, <2>2, <2>3, IsAskedNext
<1>3. CASE i \notin Alive
  <2>1. ~Takes(i) /\ ~Takes(i)' /\ InstanceInv(i)
    BY <1>1, <1>3 DEF IInv, TalkInv
  <2>2. req'[i] = req[i] /\ resp'[i] = resp[i] /\ inst'[i] = inst[i]
    BY <1>3
  <2>. QED
    BY <2>1, <2>2, HasLeft
<1>. QED
  BY <1>2, <1>3

LEMMA PreReportsIInv == IInv /\ PreReports => IInv'
<1> SUFFICES ASSUME IInv, PreReports PROVE IInv'
  OBVIOUS
<1>1. /\ TypeOK /\ BooksInv /\ ActorInv /\ WorldInv /\ spc = "report" /\ iter = -1
      /\ Answered(Alive) /\ Gather(Alive)
  BY DEF IInv, PreReports
<1>2. /\ UNCHANGED <<iter, cur, available, inst, gen, output, act, actorReq, actorResp, inf,
                     round>>
      /\ reports' \in [Instances -> Nat]
  BY <1>1, ReportsIn DEF PreReports, instVars, actorVars
<1>3. /\ resp' \in [Instances -> Seq(Responses)]
      /\ \A i \in Instances : resp'[i] = IF i \in Alive THEN Tail(resp[i]) ELSE resp[i]
  BY <1>1, GatherType
<1>4. /\ UsePreProcess /\ cur["rollout"] = RolloutInstances
      /\ cur["actor"] = ActorInstances
  BY <1>1 DEF BooksInv
<1>5. Alive' = Alive /\ \A n : LowestAlive(n)' = LowestAlive(n)
  BY <1>2, AliveFrame
<1>6. ASSUME spc' # "done" PROVE ActorInv' /\ WorldInv'
  <2>1. act.iter \in 0..NMinibatches
    BY <1>1 DEF TypeOK
  <2>. QED
    BY <1>1, <1>2, <1>6, <2>1
       DEF ActorInv, PreProcessing, ActorTrains, ActorWaits, WorldInv, Promised
<1>7. CASE PreReady(TotalTasks, RunningTasks)
  <2>1. /\ Scatter(LowestAlive(PreRelease), "Migrate_Out")
        /\ awaited' = LowestAlive(PreRelease) /\ spc' = "migrate_out"
    BY <1>7 DEF PreReports, Migrate
  <2>2. LowestAlive(PreRelease) \subseteq Alive /\ Alive \subseteq Instances
    BY <1>1, AliveShape DEF LowestAlive
  <2>3. /\ req' \in [Instances -> Seq(Messages)]
        /\ \A i \in Instances : req'[i] = IF i \in LowestAlive(PreRelease)
                                          THEN Append(req[i], [action |-> "Migrate_Out"])
                                          ELSE req[i]
    BY <1>1, <2>1, ScatterType
  <2>4. TypeOK'
    BY <1>1, <1>2, <1>3, <2>1, <2>2, <2>3 DEF TypeOK, SchedPCs
  <2>5. BooksInv'
    BY <1>1, <1>2, <1>4, <1>5, <2>1, ConfigAssumption DEF BooksInv, LastIter
  <2>6. \A i \in Instances : IF i \in LowestAlive(PreRelease)
                             THEN "Migrate_Out" \in Due(i)' ELSE Due(i)' = {}
    BY <2>1 DEF Due
  <2>7. TalkInv'
    BY <1>1, <1>2, <1>3, <2>1, <2>2, <2>3, <2>6, AskNext
  <2>. QED
    BY <1>6, <2>1, <2>4, <2>5, <2>7 DEF IInv
<1>8. CASE ~PreReady(TotalTasks, RunningTasks)
  <2>1. Scatter(Alive, "Report") /\ awaited' = awaited /\ spc' = "report"
    BY <1>8 DEF PreReports, AskReports
  <2>2. /\ req' \in [Instances -> Seq(Messages)]
        /\ \A i \in Instances : req'[i] = IF i \in Alive
                                          THEN Append(req[i], [action |-> "Report"])
                                          ELSE req[i]
    BY <1>1, <2>1, ScatterType
  <2>3. TypeOK'
    BY <1>1, <1>2, <1>3, <2>1, <2>2 DEF TypeOK, SchedPCs
  <2>4. BooksInv'
    BY <1>1, <1>2, <1>4, <2>1, ConfigAssumption DEF BooksInv, LastIter
  <2>5. \A i \in Instances : IF i \in Alive THEN "Report" \in Due(i)' ELSE Due(i)' = {}
    BY <1>5, <2>1 DEF Due
  <2>6. TalkInv'
    BY <1>1, <1>2, <1>3, <2>1, <2>2, <2>5, AskNext
  <2>. QED
    BY <1>6, <2>1, <2>3, <2>4, <2>6 DEF IInv
<1>. QED
  BY <1>7, <1>8

LEMMA MainReportsIInv == IInv /\ MainReports => IInv'
<1> SUFFICES ASSUME IInv, MainReports PROVE IInv'
  OBVIOUS
<1>1. /\ TypeOK /\ BooksInv /\ ActorInv /\ WorldInv /\ spc = "report" /\ iter >= 0
      /\ Answered(Alive) /\ Gather(Alive)
  BY DEF IInv, MainReports
<1>2. /\ UNCHANGED <<iter, cur, available, inst, gen, output, act, actorReq, actorResp, inf,
                     round>>
      /\ reports' \in [Instances -> Nat]
  BY <1>1, ReportsIn DEF MainReports, instVars, actorVars
<1>3. /\ resp' \in [Instances -> Seq(Responses)]
      /\ \A i \in Instances : resp'[i] = IF i \in Alive THEN Tail(resp[i]) ELSE resp[i]
  BY <1>1, GatherType
<1>4. ~LastIter
  BY <1>1 DEF BooksInv
<1>5. Alive' = Alive /\ \A n : LowestAlive(n)' = LowestAlive(n)
  BY <1>2, AliveFrame
<1>6. /\ Alive \subseteq Instances /\ cur["rollout"] \in Nat /\ cur["actor"] \in Nat
  BY <1>1, AliveShape
<1>7. ASSUME spc' \notin {"pre_process", "wait_actor", "done"} PROVE ActorInv' /\ WorldInv'
  <2>1. ActorWaits /\ actorReq = <<>> /\ iter = act.iter
    BY <1>1 DEF ActorInv, PreProcessing, ActorTrains, ActorWaits, TypeOK
  <2>. QED
    BY <1>1, <1>2, <1>7, <2>1 DEF ActorInv, ActorWaits, WorldInv, Promised
<1> DEFINE n == MigratePolicy(cur["rollout"], cur["actor"], RunningTasks)
<1>8. ASSUME NEW action \in {"Finish", "Wait_For_Finish"}, Finish(Alive, action)
      PROVE  IInv'
  <2>1. Scatter(Alive, action) /\ awaited' = Alive /\ spc' = "finish"
    BY <1>8 DEF Finish
  <2>2. /\ req' \in [Instances -> Seq(Messages)]
        /\ \A i \in Instances : req'[i] = IF i \in Alive
                                          THEN Append(req[i], [action |-> action])
                                          ELSE req[i]
    BY <1>1, <2>1, ScatterType
  <2>3. TypeOK'
    BY <1>1, <1>2, <1>3, <1>6, <2>1, <2>2 DEF TypeOK, SchedPCs
  <2>4. BooksInv'
    BY <1>1, <1>2, <1>5, <2>1 DEF BooksInv
  <2>5. \A i \in Instances : IF i \in Alive THEN action \in Due(i)' ELSE Due(i)' = {}
    BY <2>1 DEF Due
  <2>6. TalkInv'
    BY <1>1, <1>2, <1>3, <2>1, <2>2, <2>5, AskNext
  <2>. QED
    BY <1>7, <2>1, <2>3, <2>4, <2>6 DEF IInv
<1>9. ASSUME spc' = "inference", UNCHANGED <<req, awaited>>
      PROVE  IInv'
  <2>1. TypeOK'
    BY <1>1, <1>2, <1>3, <1>9 DEF TypeOK, SchedPCs
  <2>2. BooksInv'
    BY <1>1, <1>2, <1>4, <1>9 DEF BooksInv, LastIter
  <2>3. \A i \in Instances : Due(i)' = {}
    BY <1>9 DEF Due
  <2>4. TalkInv'
    <3>1. /\ {} \in SUBSET Alive /\ spc' # "pre_process"
          /\ \A i \in Instances : req'[i] = IF i \in {}
                                            THEN Append(req[i], [action |-> "Report"])
                                            ELSE req[i]
          /\ \A i \in Instances : IF i \in {} THEN "Report" \in Due(i)' ELSE Due(i)' = {}
      BY <1>9, <2>3
    <3>. QED
      BY <1>1, <1>2, <1>3, <3>1, AskNext
  <2>. QED
    BY <1>7, <1>9, <2>1, <2>2, <2>4 DEF IInv
<1>10. ASSUME RunningTasks # 0, n # 0, Migrate(n)
       PROVE  IInv'
  <2>1. /\ Scatter(LowestAlive(n), "Migrate_Out") /\ awaited' = LowestAlive(n)
        /\ spc' = "migrate_out"
    BY <1>10 DEF Migrate
  <2>2. \E most \in 1..(cur["rollout"] - 1) : n = ReleaseNeeded(most, cur["actor"])
    <3>1. RunningTasks \in Nat \ {0}
      BY <1>1, <1>10, ReportsIn
    <3>. QED
      BY <1>6, <1>10, <3>1, PolicyReleases
  <2> HIDE DEF n
  <2>3. LowestAlive(n) \subseteq Alive
    BY DEF LowestAlive
  <2>4. /\ req' \in [Instances -> Seq(Messages)]
        /\ \A i \in Instances : req'[i] = IF i \in LowestAlive(n)
                                          THEN Append(req[i], [action |-> "Migrate_Out"])
                                          ELSE req[i]
    BY <1>1, <2>1, ScatterType
  <2>5. TypeOK'
    BY <1>1, <1>2, <1>3, <1>6, <2>1, <2>3, <2>4 DEF TypeOK, SchedPCs
  <2>6. Releasing'
    BY <1>2, <1>5, <2>1, <2>2 DEF Releasing
  <2>7. BooksInv'
    BY <1>1, <1>2, <1>4, <2>1, <2>6 DEF BooksInv, LastIter
  <2>8. \A i \in Instances : IF i \in LowestAlive(n)
                             THEN "Migrate_Out" \in Due(i)' ELSE Due(i)' = {}
    BY <2>1 DEF Due
  <2>9. TalkInv'
    BY <1>1, <1>2, <1>3, <2>1, <2>3, <2>4, <2>8, AskNext
  <2>. QED
    BY <1>7, <2>1, <2>5, <2>7, <2>9 DEF IInv
<1>11. \/ Finish(Alive, "Finish") \/ Finish(Alive, "Wait_For_Finish")
       \/ spc' = "inference" /\ UNCHANGED <<req, awaited>>
       \/ RunningTasks # 0 /\ n # 0 /\ Migrate(n)
  <2> HIDE DEF n
  <2>. QED
    BY Zenon DEF MainReports, n
<1>. QED
  BY <1>8, <1>9, <1>10, <1>11

(* What the instances give back when they migrate out is groups, and what  *)
(* is left of them stays within the instances that stay.                   *)
LEMMA BatchesType ==
    ASSUME IInv, spc = "migrate_out", Answered(awaited)
    PROVE  /\ MigrateOutBatches \in Seq(Groups)
           /\ awaited \subseteq Alive
           /\ Offset + Cardinality(awaited) \in Nat
           /\ Offset + Cardinality(awaited) < RolloutInstances
<1>1. TypeOK /\ BooksInv
  BY DEF IInv
<1>2. /\ Offset \in Nat /\ Offset + cur["rollout"] = RolloutInstances
      /\ cur["rollout"] \in Nat /\ Alive \subseteq Instances
  BY <1>1, AliveShape
<1>3. PICK n \in 0..cur["rollout"] : awaited = LowestAlive(n) /\ n < cur["rollout"]
  BY <1>1, AwaitedShape
<1>4. awaited = Offset..(Offset + n - 1) /\ Cardinality(awaited) = n
  BY <1>1, <1>3, AliveShape
<1>5. awaited \subseteq Alive
  BY <1>3 DEF LowestAlive
<1>6. ASSUME NEW i \in awaited PROVE Head(resp[i]).data \in Seq(Groups)
  <2>1. Due(i) = {"Migrate_Out"} /\ resp[i] # <<>> /\ i \in Instances
    BY <1>2, <1>5 DEF Due, Answered
  <2>2. Head(resp[i]) \in Responses /\ Head(resp[i]).action = "Migrate_Out"
    BY <2>1, HasAnswered
  <2>. QED
    BY <2>2 DEF Responses
<1> DEFINE given == [k \in 1..n |-> Head(resp[Offset + k - 1]).data]
<1>7. ASSUME NEW k \in 1..n PROVE Head(resp[Offset + k - 1]).data \in Seq(Groups)
  <2>1. Offset + k - 1 \in awaited
    BY <1>2, <1>4
  <2>. QED
    BY <1>6, <2>1
<1>8. given \in Seq(Seq(Groups))
  <2>1. \A k \in 1..n : given[k] \in Seq(Groups)
    BY <1>7
  <2>2. n \in Nat
    OBVIOUS
  <2>. QED
    BY <1>7, <2>2, IsASeq
<1>9. MigrateOutBatches = FlattenSeq(given)
  BY <1>4 DEF MigrateOutBatches
<1> HIDE DEF given
<1>10. MigrateOutBatches \in Seq(Groups)
  BY <1>8, <1>9, FlattenType
<1>. QED
  BY <1>2, <1>3, <1>4, <1>5, <1>10

LEMMA MigratedIInv == IInv /\ Migrated => IInv'
<1> SUFFICES ASSUME IInv, Migrated PROVE IInv'
  OBVIOUS
<1>1. /\ TypeOK /\ BooksInv /\ ActorInv /\ WorldInv /\ spc = "migrate_out"
      /\ Answered(awaited) /\ Gather(awaited)
  BY DEF IInv, Migrated
<1>2. /\ UNCHANGED <<iter, cur, available, reports, awaited, inst, gen, output, act,
                     actorReq, actorResp, inf, round>>
      /\ spc' = "finish"
  BY DEF Migrated, instVars, actorVars
<1>3. /\ resp' \in [Instances -> Seq(Responses)]
      /\ \A i \in Instances : resp'[i] = IF i \in awaited THEN Tail(resp[i]) ELSE resp[i]
  BY <1>1, GatherType
<1> DEFINE batches == MigrateOutBatches
           first == Offset + Cardinality(awaited)
           ShareOf(i) == Share(first, i, batches)
<1>4. /\ batches \in Seq(Groups) /\ awaited \subseteq Alive
      /\ first \in Nat /\ first < RolloutInstances /\ Alive \subseteq Instances
  BY <1>1, BatchesType, AliveShape
<1>5. req' = [i \in Instances |->
                IF i \in awaited
                THEN Append(req[i], [action |-> "Finish"])
                ELSE IF i \in Alive /\ ShareOf(i) # <<>>
                THEN Append(req[i], [action |-> "Migrate_In", data |-> ShareOf(i)])
                ELSE req[i]]
  BY DEF Migrated
<1> HIDE DEF batches, first
<1>6. ASSUME NEW i \in Instances PROVE ShareOf(i) \in Seq(Groups)
  BY <1>1, <1>4, ShareType DEF TypeOK
<1> HIDE DEF ShareOf
<1>7. ASSUME NEW i \in Instances
      PROVE  /\ [action |-> "Finish"] \in Messages
             /\ [action |-> "Migrate_In", data |-> ShareOf(i)] \in Messages
             /\ req[i] \in Seq(Messages)
  BY <1>1, <1>6 DEF Messages, TypeOK
<1>8. req' \in [Instances -> Seq(Messages)]
  <2>1. \A i \in Instances :
            /\ Append(req[i], [action |-> "Finish"]) \in Seq(Messages)
            /\ Append(req[i], [action |-> "Migrate_In", data |-> ShareOf(i)])
                  \in Seq(Messages)
    BY <1>7
  <2>. QED
    BY <1>5, <1>7, <2>1
<1>9. TypeOK'
  BY <1>1, <1>2, <1>3, <1>8 DEF TypeOK, SchedPCs
<1>10. Alive' = Alive /\ \A n : LowestAlive(n)' = LowestAlive(n)
  BY <1>2, AliveFrame
<1>11. Releasing => Releasing'
  BY <1>2, <1>10 DEF Releasing
<1>12. BooksInv'
  BY <1>1, <1>2, <1>10, <1>11, ConfigAssumption DEF BooksInv, LastIter
<1>13. ActorInv' /\ WorldInv'
  <2>1. act.iter \in 0..NMinibatches
    BY <1>1 DEF TypeOK
  <2>. QED
    BY <1>1, <1>2, <2>1
       DEF ActorInv, PreProcessing, ActorTrains, ActorWaits, WorldInv, Promised
<1>14. ASSUME NEW i \in Instances PROVE InstanceInv(i)'
  <2>1. /\ (Takes(i) <=> i \in Alive) /\ (Takes(i)' <=> i \in Alive) /\ InstanceInv(i)
        /\ inst'[i] = inst[i]
    BY <1>1, <1>2, <1>10 DEF Takes, IInv, TalkInv
  <2>2. CASE i \in awaited
    <3>1. Due(i) = {"Migrate_Out"} /\ resp[i] # <<>> /\ "Finish" \in Due(i)'
      BY <1>1, <1>2, <2>2 DEF Due, Answered
    <3>2. req'[i] = Append(req[i], [action |-> "Finish"]) /\ resp'[i] = Tail(resp[i])
      BY <1>3, <1>5, <2>2
    <3>3. Takes(i)'
      BY <1>4, <2>1, <2>2
    <3>. QED
      BY <2>1, <3>1, <3>2, <3>3, IsAskedNext
  <2>3. CASE i \notin awaited /\ i \in Alive
    <3>1. Due(i) = {} /\ Due(i)' = {} /\ resp'[i] = resp[i]
      BY <1>1, <1>2, <1>3, <2>3 DEF Due
    <3>2. req[i] = <<>> /\ resp[i] = <<>> /\ Stays(i) /\ inst[i].loop = "get"
      BY <1>1, <2>1, <2>3, <3>1 DEF InstanceInv, Talk, Unasked, Asked
    <3>3. Stays(i)'
      BY <2>1, <3>2 DEF Stays
    <3>4. Unasked(i)'
      <4>1. CASE ShareOf(i) = <<>>
        <5>1. req'[i] = <<>>
          BY <1>5, <2>3, <3>2, <4>1
        <5>. QED
          BY <3>1, <5>1 DEF Unasked
      <4>2. CASE ShareOf(i) # <<>>
        <5> DEFINE m == [action |-> "Migrate_In", data |-> ShareOf(i)]
        <5>1. req'[i] = Append(<<>>, m)
          BY <1>5, <2>3, <3>2, <4>2
        <5>2. Len(req'[i]) = 1 /\ req'[i][1] = m
          BY <5>1
        <5>3. IsMigrateIn(m)
          BY <4>2 DEF IsMigrateIn
        <5> HIDE DEF m
        <5>4. IsMigrateIn(req'[i][1])
          BY <5>2, <5>3
        <5>. QED
          BY <1>2, <3>1, <5>2, <5>4 DEF Unasked, IsMigrateIn
      <4>. QED
        BY <4>1, <4>2
    <3>. QED
      BY <2>1, <2>3, <3>1, <3>2, <3>3, <3>4 DEF InstanceInv, Talk
  <2>4. CASE i \notin Alive
    <3>1. req'[i] = req[i] /\ resp'[i] = resp[i]
      BY <1>3, <1>4, <1>5, <2>4
    <3>. QED
      BY <2>1, <2>4, <3>1, HasLeft
  <2>. QED
    BY <2>2, <2>3, <2>4
<1>. QED
  BY <1>9, <1>12, <1>13, <1>14 DEF IInv, TalkInv

(* The instances that have offloaded are no longer alive, the others are.  *)
LEMMA FinishedIInv == IInv /\ Finished => IInv'
<1> SUFFICES ASSUME IInv, Finished PROVE IInv'
  OBVIOUS
<1>1. /\ TypeOK /\ BooksInv /\ ActorInv /\ WorldInv /\ spc = "finish"
      /\ Answered(awaited) /\ Gather(awaited)
  BY DEF IInv, Finished
<1>2. /\ UNCHANGED <<reports, req, inst, gen, output, act, actorResp, inf, round>>
      /\ awaited' = {}
  BY DEF Finished, instVars
<1>3. /\ resp' \in [Instances -> Seq(Responses)]
      /\ \A i \in Instances : resp'[i] = IF i \in awaited THEN Tail(resp[i]) ELSE resp[i]
  BY <1>1, GatherType
<1>4. /\ Offset \in Nat /\ Offset + cur["rollout"] = RolloutInstances
      /\ cur["rollout"] \in Nat /\ cur["actor"] \in Nat /\ cur["inference"] \in Nat
      /\ RolloutInstances \in Nat \ {0} /\ Alive \subseteq Instances
  BY <1>1, AliveShape, ConfigAssumption
<1>5. PICK n \in 0..cur["rollout"] :
          /\ awaited = LowestAlive(n)
          /\ iter = -1 => n = PreRelease
  BY <1>1, AwaitedShape
<1>6. Cardinality(awaited) = n /\ awaited = Offset..(Offset + n - 1)
  BY <1>1, <1>5, AliveShape
<1>7. /\ cur' \in [Components -> Nat] /\ cur'["rollout"] = cur["rollout"] - n
      /\ cur'["actor"] = cur["actor"]
      /\ spc' = IF iter = -1 THEN "wait_actor" ELSE "inference"
  <2>1. cur \in [Components -> Nat]
    BY <1>1 DEF TypeOK
  <2>2. CASE iter = -1
    <3>1. cur' = [InitCur EXCEPT !["rollout"] = cur["rollout"] - n] /\ spc' = "wait_actor"
      BY <1>6, <2>2 DEF Finished, EndPreProcess
    <3>2. cur["actor"] = ActorInstances
      BY <1>1, <2>2 DEF BooksInv
    <3>. QED
      BY <1>4, <2>2, <3>1, <3>2, ConfigAssumption DEF InitCur, Components
  <2>3. CASE iter # -1
    <3>1. cur' = [cur EXCEPT !["rollout"] = @ - n] /\ spc' = "inference"
      BY <1>6, <2>3 DEF Finished
    <3>. QED
      BY <1>4, <2>1, <2>3, <3>1 DEF Components
  <2>. QED
    BY <2>2, <2>3
<1>8. Alive' = Alive \ awaited
  <2>1. RolloutInstances - cur'["rollout"] = Offset + n
    BY <1>4, <1>7
  <2>2. Alive' = (Offset + n)..(RolloutInstances - 1)
    BY <2>1 DEF Alive, Offset
  <2>3. Alive = Offset..(RolloutInstances - 1)
    BY DEF Alive
  <2>. QED
    BY <1>4, <1>6, <2>2, <2>3
<1>9. ASSUME NEW i \in Instances PROVE InstanceInv(i)'
  <2>1. /\ InstanceInv(i) /\ (Takes(i) <=> i \in Alive)
        /\ (Takes(i)' <=> i \in Alive \ awaited) /\ Due(i)' = {} /\ inst'[i] = inst[i]
        /\ req'[i] = req[i] /\ resp[i] \in Seq(Responses)
    BY <1>1, <1>2, <1>7, <1>8 DEF Takes, Due, IInv, TalkInv, TypeOK
  <2>2. CASE i \in awaited
    <3>1. Due(i) = {"Finish", "Wait_For_Finish"} /\ resp[i] # <<>> /\ i \in Alive
      BY <1>1, <1>5, <2>2 DEF Due, Answered, LowestAlive
    <3>2. /\ inst[i].roll = "end" /\ ~inst[i].event /\ inst[i].loop = "get"
          /\ req[i] = <<>> /\ Len(resp[i]) = 1
      BY <2>1, <3>1 DEF InstanceInv, Talk, Left, Told
    <3>3. resp'[i] = <<>>
      <4>1. Tail(resp[i]) \in Seq(Responses) /\ Len(Tail(resp[i])) = 0
        BY <2>1, <3>1, <3>2
      <4>2. \A t \in Seq(Responses) : Len(t) = 0 => t = <<>>
        OBVIOUS
      <4>. QED
        BY <1>3, <2>2, <4>1, <4>2
    <3>4. Left(i)' /\ ~Takes(i)'
      BY <2>1, <2>2, <3>2, <3>3 DEF Left
    <3>. QED
      BY <2>1, <3>4 DEF InstanceInv, Talk
  <2>3. CASE i \notin awaited /\ i \in Alive
    <3>1. Due(i) = {} /\ resp'[i] = resp[i] /\ (Takes(i)' <=> Takes(i))
      BY <1>1, <1>3, <2>1, <2>3 DEF Due
    <3>. QED
      BY <1>7, <2>1, <3>1, NothingAsked
  <2>4. CASE i \notin awaited /\ i \notin Alive
    BY <1>3, <2>1, <2>4, HasLeft
  <2>. QED
    BY <2>2, <2>3, <2>4
<1>10. act.iter \in 0..NMinibatches /\ NMinibatches \in Nat \ {0}
       /\ iter \in -1..(NMinibatches - 1)
  BY <1>1, ConfigAssumption DEF TypeOK
<1>11. CASE iter = -1
  <2>1. /\ available' = 0 /\ iter' = 0
        /\ actorReq' = IF UsePreProcess THEN Append(actorReq, None) ELSE actorReq
    BY <1>11 DEF Finished, EndPreProcess
  <2>2. UsePreProcess /\ spc' = "wait_actor"
    BY <1>1, <1>7, <1>11 DEF BooksInv
  <2>3. act.pc = "pre" /\ act.iter = 0 /\ actorResp = 0 /\ actorReq = <<>>
    BY <1>1, <1>10, <1>11, <2>2 DEF ActorInv, PreProcessing, ActorTrains, ActorWaits
  <2>4. actorReq' = <<None>> /\ <<None>>[1] = None /\ <<None>> \in Seq({None} \cup Nat)
    BY <2>1, <2>2, <2>3
  <2>5. ActorInv'
    BY <1>2, <2>1, <2>2, <2>3, <2>4 DEF ActorInv
  <2>6. WorldInv'
    BY <1>1, <1>2, <1>7, <2>3, <2>4 DEF WorldInv, Promised
  <2>7. TypeOK'
    BY <1>1, <1>2, <1>3, <1>7, <1>10, <2>1, <2>2, <2>4 DEF TypeOK, SchedPCs
  <2>8. BooksInv'
    BY <1>4, <1>7, <2>1, <2>2 DEF BooksInv
  <2>. QED
    BY <1>9, <2>5, <2>6, <2>7, <2>8 DEF IInv, TalkInv
<1>12. CASE iter # -1
  <2>1. /\ available' = available + (IF LastIter THEN 0 ELSE ReleasedGpus(n))
        /\ UNCHANGED <<iter, actorReq>> /\ spc' = "inference" /\ iter >= 0
    BY <1>6, <1>7, <1>10, <1>12 DEF Finished
  <2>2. available' \in Nat
    <3>1. n \in Nat /\ RolloutMP \in Nat \ {0} /\ available \in Nat
      BY <1>1, <1>4, ConfigAssumption DEF TypeOK
    <3>2. n * RolloutMP \in Nat
      BY <3>1, Arithmetic
    <3>. QED
      BY <2>1, <3>1, <3>2 DEF ReleasedGpus
  <2>3. ActorInv'
    <3>1. ActorWaits /\ actorReq = <<>> /\ iter = act.iter
      BY <1>1, <1>10, <1>12 DEF ActorInv, PreProcessing, ActorTrains, ActorWaits
    <3>. QED
      BY <1>2, <2>1, <3>1 DEF ActorInv, ActorWaits
  <2>4. WorldInv'
    BY <1>1, <1>2, <1>7, <2>1 DEF WorldInv, Promised
  <2>5. TypeOK'
    BY <1>1, <1>2, <1>3, <1>7, <2>1, <2>2 DEF TypeOK, SchedPCs
  <2>6. LastIter => cur'["rollout"] = 0
    <3>1. LastIter => awaited = Alive
      BY <1>1, <2>1 DEF BooksInv
    <3>2. Cardinality(Alive) = cur["rollout"]
      BY <1>1, AliveShape
    <3>. QED
      BY <1>4, <1>6, <1>7, <3>1, <3>2
  <2>7. BooksInv'
    BY <1>1, <1>4, <1>7, <2>1, <2>6 DEF BooksInv, LastIter
  <2>. QED
    BY <1>9, <2>3, <2>4, <2>5, <2>7 DEF IInv, TalkInv
<1>. QED
  BY <1>11, <1>12

LEMMA InferenceTurnIInv == IInv /\ InferenceTurn => IInv'
<1> SUFFICES ASSUME IInv, InferenceTurn PROVE IInv'
  OBVIOUS
<1>1. /\ TypeOK /\ BooksInv /\ ActorInv /\ WorldInv /\ spc = "inference" /\ iter >= 0
  BY DEF IInv, InferenceTurn, BooksInv
<1>2. /\ UNCHANGED <<iter, reports, awaited, req, resp, inst, gen, output, act, actorReq,
                     actorResp, inf, round>>
      /\ spc' = "actor"
  BY DEF InferenceTurn, instVars, actorVars
<1> DEFINE n == IF InferenceReleases THEN cur["inference"] ELSE 0
<1>3. /\ cur' = [cur EXCEPT !["inference"] = @ - n]
      /\ available' = available + n * InferenceMP
  BY DEF InferenceTurn
<1>4. /\ cur \in [Components -> Nat] /\ cur["inference"] \in Nat
      /\ n \in 0..cur["inference"] /\ available \in Nat
  BY <1>1, AliveShape DEF TypeOK
<1> HIDE DEF n
<1>5. /\ cur' \in [Components -> Nat] /\ cur'["rollout"] = cur["rollout"]
      /\ cur'["actor"] = cur["actor"]
  BY <1>3, <1>4 DEF Components
<1>6. available' \in Nat
  <2>1. n * InferenceMP \in Nat
    BY <1>4, Arithmetic, ConfigAssumption
  <2>. QED
    BY <1>3, <1>4, <2>1
<1>7. TypeOK'
  BY <1>1, <1>2, <1>5, <1>6 DEF TypeOK, SchedPCs
<1>8. BooksInv'
  BY <1>1, <1>2, <1>5 DEF BooksInv, LastIter
<1>9. ActorInv'
  <2>1. ActorWaits /\ actorReq = <<>> /\ iter = act.iter
    BY <1>1 DEF ActorInv, PreProcessing, ActorTrains, ActorWaits
  <2>. QED
    BY <1>2, <2>1 DEF ActorInv, ActorWaits
<1>10. WorldInv'
  BY <1>1, <1>2, <1>5 DEF WorldInv, Promised
<1>11. ASSUME NEW i \in Instances PROVE InstanceInv(i)'
  <2>1. /\ InstanceInv(i) /\ Due(i) = {} /\ Due(i)' = {} /\ (Takes(i)' <=> Takes(i))
    BY <1>1, <1>2, <1>5 DEF Due, Takes, Alive, Offset, IInv, TalkInv
  <2>. QED
    BY <1>2, <2>1, NothingAsked
<1>. QED
  BY <1>7, <1>8, <1>9, <1>10, <1>11 DEF IInv, TalkInv

(* What ActorTurn books is a whole number of instances, out of free GPUs.  *)
LEMMA ActorBooks ==
    ASSUME TypeOK, BooksInv
    PROVE  LET old == cur["actor"] * ActorMP
               grown == Increment(cur["actor"], available)
               new == IF LastIter THEN ActorGpus ELSE old + grown
           IN  /\ old \in Nat /\ grown \in Nat /\ available - grown \in Nat
               /\ new \in Nat /\ new \div ActorMP \in Nat
               /\ (new \div ActorMP) * ActorMP = new
               /\ LastIter => new \div ActorMP = ActorInstances
<1> DEFINE old == cur["actor"] * ActorMP
           grown == Increment(cur["actor"], available)
           new == IF LastIter THEN ActorGpus ELSE old + grown
<1>1. /\ cur["actor"] \in Nat /\ available \in Nat /\ ActorMP \in Nat \ {0}
      /\ ActorInstances \in Nat
  BY AliveShape, ConfigAssumption DEF TypeOK
<1>2. PICK k \in Nat : /\ grown = k * ActorMP
                       /\ k * ActorMP \in Nat /\ k * ActorMP <= available
  BY <1>1, GrowsByInstances
<1>3. /\ old \in Nat /\ old + grown = (cur["actor"] + k) * ActorMP
      /\ ((cur["actor"] + k) * ActorMP) \div ActorMP = cur["actor"] + k
      /\ (cur["actor"] + k) * ActorMP \in Nat
  <2>1. old \in Nat /\ (cur["actor"] + k) * ActorMP = old + k * ActorMP
    BY <1>1, Arithmetic
  <2>2. cur["actor"] + k \in Nat
    BY <1>1
  <2>3. /\ ((cur["actor"] + k) * ActorMP) \div ActorMP = cur["actor"] + k
        /\ (cur["actor"] + k) * ActorMP \in Nat
    BY <1>1, <2>2, Arithmetic
  <2>. QED
    BY <1>2, <2>1, <2>3
<1>4. ActorGpus \in Nat /\ ActorGpus \div ActorMP = ActorInstances
      /\ ActorInstances * ActorMP = ActorGpus
  BY <1>1, Arithmetic DEF ActorGpus
<1>5. available - grown \in Nat /\ grown \in Nat
  BY <1>1, <1>2
<1> HIDE DEF old, grown
<1>6. CASE LastIter
  <2>1. new = ActorGpus
    BY <1>6
  <2>. QED
    BY <1>1, <1>3, <1>4, <1>5, <2>1 DEF old, grown
<1>7. CASE ~LastIter
  <2>1. new = (cur["actor"] + k) * ActorMP
    BY <1>3, <1>7
  <2>2. /\ new \in Nat /\ new \div ActorMP \in Nat
        /\ (new \div ActorMP) * ActorMP = new
    <3> HIDE DEF new
    <3>. QED
      BY <1>1, <1>3, <2>1
  <2>. QED
    BY <1>3, <1>5, <1>7, <2>2 DEF old, grown
<1>. QED
  BY <1>6, <1>7

LEMMA ActorTurnIInv == IInv /\ ActorTurn => IInv'
<1> SUFFICES ASSUME IInv, ActorTurn PROVE IInv'
  OBVIOUS
<1>1. /\ TypeOK /\ BooksInv /\ ActorInv /\ WorldInv /\ spc = "actor" /\ iter >= 0
  BY DEF IInv, ActorTurn, BooksInv
<1> DEFINE old == cur["actor"] * ActorMP
           grown == Increment(cur["actor"], available)
           new == IF LastIter THEN ActorGpus ELSE old + grown
           answer == IF new = old THEN None ELSE new
<1>2. /\ UNCHANGED <<reports, awaited, req, resp, inst, gen, output, act, actorResp, inf,
                     round>>
      /\ spc' = IF LastIter THEN "done" ELSE "wait_actor"
      /\ iter' = IF LastIter THEN -1 ELSE iter + 1
      /\ actorReq' = Append(actorReq, answer)
      /\ cur' = [cur EXCEPT !["actor"] = new \div ActorMP]
      /\ available' = IF LastIter THEN available ELSE available - grown
  BY DEF ActorTurn, instVars, FinalGpus
<1>3. /\ old \in Nat /\ available - grown \in Nat
      /\ new \in Nat /\ new \div ActorMP \in Nat
      /\ (new \div ActorMP) * ActorMP = new
      /\ LastIter => new \div ActorMP = ActorInstances
  BY <1>1, ActorBooks
<1>4. answer \in {None} \cup Nat /\ (answer = None => new = old) /\ (answer # None => answer = new)
  BY <1>3, RequestsAssumption
<1> HIDE DEF new, grown, answer
<1>5. /\ cur' \in [Components -> Nat] /\ cur'["rollout"] = cur["rollout"]
      /\ cur'["actor"] = new \div ActorMP
  BY <1>1, <1>2, <1>3 DEF TypeOK, Components
<1>6. /\ act.pc = "sync" /\ actorResp = 0 /\ actorReq = <<>> /\ iter = act.iter
  BY <1>1 DEF ActorInv, PreProcessing, ActorTrains, ActorWaits
<1>7. actorReq' \in Seq({None} \cup Nat) /\ Len(actorReq') = 1 /\ actorReq'[1] = answer
  BY <1>2, <1>4, <1>6
<1>8. NMinibatches \in Nat \ {0} /\ iter \in 0..(NMinibatches - 1) /\ available \in Nat
  BY <1>1, ConfigAssumption DEF TypeOK
<1>9. TypeOK'
  BY <1>1, <1>2, <1>3, <1>5, <1>7, <1>8 DEF TypeOK, SchedPCs, LastIter
<1>10. BooksInv'
  <2>1. CASE LastIter
    BY <1>1, <1>2, <1>3, <1>5, <2>1 DEF BooksInv
  <2>2. CASE ~LastIter
    BY <1>1, <1>2, <1>5, <1>8, <2>2 DEF BooksInv
  <2>. QED
    BY <2>1, <2>2
<1>11. ActorWaits'
  BY <1>2, <1>6, <1>7, <1>8 DEF ActorWaits, LastIter
<1>12. ActorInv'
  BY <1>11 DEF ActorInv
<1>13. WorldInv'
  <2>1. act.world = old
    BY <1>1, <1>6 DEF WorldInv, Promised
  <2>2. actorReq' # <<>>
    BY <1>7
  <2>3. Promised' = new
    BY <1>2, <1>4, <1>7, <2>1, <2>2 DEF Promised
  <2>. QED
    BY <1>3, <1>5, <2>3 DEF WorldInv
<1>14. ASSUME NEW i \in Instances PROVE InstanceInv(i)'
  <2>1. /\ InstanceInv(i) /\ Due(i) = {} /\ Due(i)' = {} /\ (Takes(i)' <=> Takes(i))
        /\ spc' # "migrate_out"
    BY <1>1, <1>2, <1>5 DEF Due, Takes, Alive, Offset, IInv, TalkInv
  <2>. QED
    BY <1>2, <2>1, NothingAsked
<1>. QED
  BY <1>9, <1>10, <1>12, <1>13, <1>14 DEF IInv, TalkInv

-----------------------------------------------------------------------------
LEMMA StutterIInv == IInv /\ UNCHANGED vars => IInv'
<1> SUFFICES ASSUME IInv, UNCHANGED vars PROVE IInv'
  OBVIOUS
<1>1. UNCHANGED <<spc, iter, cur, available, reports, awaited, req, resp, inst, gen, output,
                  act, actorReq, actorResp, inf, round>>
  BY DEF vars, schedVars, instVars, actorVars
<1>2. UNCHANGED <<schedVars, req, resp, inst>> /\ UNCHANGED <<schedVars, actorVars>>
  BY <1>1 DEF schedVars, actorVars
<1>3. TypeOK'
  BY <1>1 DEF IInv, TypeOK
<1>4. ActorInv' /\ WorldInv'
  BY <1>2, ActorFrame DEF IInv
<1>. QED
  BY <1>2, <1>3, <1>4, ActorStep

LEMMA NextIInv == IInv /\ [Next]_vars => IInv'
<1> SUFFICES ASSUME IInv, [Next]_vars PROVE IInv'
  OBVIOUS
<1>1. CASE Scheduler
  BY <1>1, RolloutPreProcessIInv, PreReportsIInv, WaitActorIInv, MainReportsIInv,
     MigratedIInv, FinishedIInv, InferenceTurnIInv, ActorTurnIInv DEF Scheduler
<1>2. ASSUME NEW i \in Instances, RolloutCoroutine(i) PROVE IInv'
  BY <1>2, StartRolloutIInv, WaitReturnsIInv, PutResultIInv, MarkDoneIInv, MarkAbortedIInv,
     NotifiedIInv, OffloadIInv DEF RolloutCoroutine
<1>3. ASSUME NEW i \in Instances, MainLoop(i) PROVE IInv'
  BY <1>3, MainLoopGetIInv, MigratedOutIInv, NotifyFinishIInv DEF MainLoop
<1>4. ASSUME NEW g \in Groups, Generate(g) PROVE IInv'
  BY <1>4, GenerateIInv
<1>5. CASE Actor
  BY <1>5, ActorPreProcessIInv, ActorTrainIInv, ActorScaleIInv DEF Actor
<1>6. CASE InferenceFinishes
  BY <1>6, InferenceFinishesIInv
<1>7. CASE NextRound
  BY <1>7, NextRoundIInv
<1>8. CASE UNCHANGED vars
  BY <1>8, StutterIInv
<1>. QED
  BY <1>1, <1>2, <1>3, <1>4, <1>5, <1>6, <1>7, <1>8 DEF Next

(* The scheduler's books, its conversation with every rollout instance and *)
(* its turn-taking with the actor stay as IInv describes them, whatever    *)
(* the order in which the coroutines, the engine and the workers run.      *)
THEOREM InductiveInvariant == Spec => []IInv
  BY InitIInv, NextIInv, PTL DEF Spec

(* Every variable of the scheduler, the instances and the actor keeps its  *)
(* type; in particular no Tail or Head is taken of an empty queue and no   *)
(* count of instances or GPUs becomes negative.                            *)
THEOREM TypeCorrect == Spec => []TypeOK
<1>1. IInv => TypeOK
  BY DEF IInv
<1>. QED
  BY <1>1, InductiveInvariant, PTL

(* "GPU resources of actor should be scale-down to init_gpu_num": when the *)
(* actor leaves its last train step it has the size it started with.       *)
THEOREM ActorEndsScaledDown == Spec => []ActorScaledDown
<1>1. IInv => ActorScaledDown
  <2> SUFFICES ASSUME IInv, act.pc = "end" PROVE act.world = ActorGpus
    BY DEF ActorScaledDown
  <2>1. actorReq = <<>> /\ spc = "done"
    BY DEF IInv, ActorInv, ActorTrains, ActorWaits
  <2>2. cur["actor"] = ActorInstances
    BY <2>1 DEF IInv, BooksInv
  <2>. QED
    BY <2>1, <2>2 DEF IInv, WorldInv, Promised, ActorGpus
<1>. QED
  BY <1>1, InductiveInvariant, PTL

(* No rollout instance leaves its loop before the scheduler has told it to *)
(* finish: the exit_rollout_iter event is never mistaken for that.         *)
THEOREM StayForMigrations == Spec => []StaysForMigrations
<1>1. IInv => StaysForMigrations
  <2> SUFFICES ASSUME IInv, NEW i \in Alive, inst[i].roll \in {"offload", "end"},
                      spc \notin {"pre_process", "done"}
               PROVE  spc = "finish" /\ i \in awaited
    BY DEF StaysForMigrations
  <2>1. i \in Instances
    BY AliveShape DEF IInv
  <2>2. InstanceInv(i) /\ Takes(i) /\ ~Stays(i)
    BY <2>1 DEF IInv, TalkInv, Takes, Stays
  <2>3. Due(i) = {"Finish", "Wait_For_Finish"}
    BY <2>2 DEF InstanceInv, Talk
  <2>. QED
    BY <2>3 DEF Due
<1>. QED
  BY <1>1, InductiveInvariant, PTL

-----------------------------------------------------------------------------
(* The scheduler implements the ledger: GpuLedger's iter and turn are read *)
(* off where the scheduler is, its books are the scheduler's.              *)
LedgerIter == IF iter = -1 THEN 0 ELSE iter

LedgerTurn == IF iter = -1 THEN "pre_process"
              ELSE IF spc \in {"inference", "actor"} THEN spc
              ELSE "rollout"

LEMMA LedgerStutter ==
    ASSUME cur' = cur, available' = available, LedgerIter' = LedgerIter,
           LedgerTurn' = LedgerTurn
    PROVE  UNCHANGED Ledger!vars
  BY DEF Ledger!vars, LedgerIter, LedgerTurn

LEMMA LedgerReset ==
    ASSUME LedgerTurn = "pre_process", cur' = [cur EXCEPT !["rollout"] = RolloutInstances],
           available' = available, LedgerIter' = LedgerIter, LedgerTurn' = LedgerTurn
    PROVE  Ledger!Next
  BY DEF Ledger!Next, Ledger!RolloutReset, LedgerIter, LedgerTurn

LEMMA LedgerPreProcess ==
    ASSUME LedgerTurn = "pre_process", available' = 0, LedgerIter' = LedgerIter,
           LedgerTurn' = "rollout",
           cur' = [InitCur EXCEPT !["rollout"] =
                      IF UsePreProcess THEN RolloutInstances - PreRelease
                                       ELSE RolloutInstances]
    PROVE  Ledger!Next
<1>1. Ledger!InitCur = InitCur
  BY DEF Ledger!InitCur, InitCur, Ledger!Components, Components
<1>2. InitCur["rollout"] = RolloutInstances
  BY DEF InitCur, Components
<1>3. Ledger!PreRelease = PreRelease
  BY DEF Ledger!PreRelease, PreRelease, Ledger!ActorGpus, ActorGpus
<1>4. cur' = [Ledger!InitCur EXCEPT !["rollout"] =
                 IF UsePreProcess THEN @ - Ledger!PreRelease ELSE @]
  BY <1>1, <1>2, <1>3
<1>. QED
  BY <1>4 DEF Ledger!Next, Ledger!PreProcess, LedgerIter, LedgerTurn

LEMMA LedgerRollout ==
    ASSUME iter >= 0, LedgerTurn = "rollout", iter' = iter, LedgerTurn' = "inference",
           NEW n, cur' = [cur EXCEPT !["rollout"] = @ - n],
           IF LastIter
           THEN cur["rollout"] - n = 0 /\ available' = available
           ELSE /\ available' = available + n * RolloutMP
                /\ \/ n \in {0, cur["rollout"]}
                   \/ \E most \in 1..(cur["rollout"] - 1) :
                         n = ReleaseNeeded(most, cur["actor"])
    PROVE  Ledger!Next
<1>1. \A a, b : Ledger!ReleaseNeeded(a, b) = ReleaseNeeded(a, b)
  BY DEF Ledger!ReleaseNeeded, ReleaseNeeded, Ledger!Increment, Increment,
         Ledger!CeilDiv, CeilDiv, Ledger!Affordable, Affordable, Ledger!Largest, Largest,
         Ledger!ValidDpSizes, ValidDpSizes, Ledger!TotalGpus, TotalGpus,
         Ledger!InferenceBase, InferenceBase, Ledger!RolloutBase, RolloutBase,
         Ledger!ActorGpus, ActorGpus
<1>2. Ledger!LastIter <=> LastIter
  BY DEF Ledger!LastIter, LastIter
<1>3. ~LastIter => n \in Ledger!RolloutReleases
  BY <1>1 DEF Ledger!RolloutReleases
<1>4. Ledger!RolloutTurn
  BY <1>2, <1>3 DEF Ledger!RolloutTurn, LedgerTurn
<1>. QED
  BY <1>4 DEF Ledger!Next

LEMMA LedgerInference ==
    ASSUME iter >= 0, LedgerTurn = "inference", iter' = iter, LedgerTurn' = "actor",
           NEW n \in {0, cur["inference"]},
           IF LastIter
           THEN UNCHANGED <<cur, available>>
           ELSE /\ cur' = [cur EXCEPT !["inference"] = @ - n]
                /\ available' = available + n * InferenceMP
    PROVE  Ledger!Next
<1>1. Ledger!LastIter <=> LastIter
  BY DEF Ledger!LastIter, LastIter
<1>2. Ledger!InferenceTurn
  BY <1>1 DEF Ledger!InferenceTurn, LedgerTurn
<1>. QED
  BY <1>2 DEF Ledger!Next

LEMMA LedgerActor ==
    ASSUME iter >= 0, LedgerTurn = "actor",
           IF LastIter
           THEN /\ cur' = [cur EXCEPT !["actor"] = ActorInstances]
                /\ UNCHANGED available
                /\ iter' = -1
           ELSE LET grown == Increment(cur["actor"], available)
                IN  /\ cur' = [cur EXCEPT !["actor"] = (@ * ActorMP + grown) \div ActorMP]
                    /\ available' = available - grown
                    /\ iter' = iter + 1 /\ spc' = "wait_actor",
           iter \in Nat
    PROVE  Ledger!Next
<1>1. \A a, b : Ledger!Increment(a, b) = Increment(a, b)
  BY DEF Ledger!Increment, Increment, Ledger!Affordable, Affordable, Ledger!Largest, Largest,
         Ledger!ValidDpSizes, ValidDpSizes, Ledger!TotalGpus, TotalGpus,
         Ledger!InferenceBase, InferenceBase, Ledger!RolloutBase, RolloutBase,
         Ledger!ActorGpus, ActorGpus
<1>2. Ledger!LastIter <=> LastIter
  BY DEF Ledger!LastIter, LastIter
<1>3. Ledger!ActorTurn
  <2>1. CASE LastIter
    BY <1>2, <2>1 DEF Ledger!ActorTurn, LedgerTurn
  <2>2. CASE ~LastIter
    BY <1>1, <1>2, <2>2 DEF Ledger!ActorTurn, LedgerTurn
  <2>. QED
    BY <2>1, <2>2
<1>. QED
  BY <1>3 DEF Ledger!Next

(* Every step of the scheduler is a step of the ledger or changes nothing  *)
(* in it.                                                                  *)
LEMMA PreProcessSimulates ==
    IInv /\ (RolloutPreProcess \/ PreReports) => [Ledger!Next]_Ledger!vars
<1>1. ASSUME IInv, RolloutPreProcess PROVE [Ledger!Next]_Ledger!vars
  <2>1. iter = -1 /\ spc = "pre_process"
    BY <1>1 DEF IInv, BooksInv, RolloutPreProcess
  <2>2. CASE UsePreProcess
    <3>1. /\ cur' = [cur EXCEPT !["rollout"] = RolloutInstances]
          /\ UNCHANGED <<iter, available>> /\ LedgerTurn = "pre_process"
          /\ LedgerTurn' = "pre_process" /\ LedgerIter' = LedgerIter
      BY <1>1, <2>1, <2>2 DEF RolloutPreProcess, LedgerTurn, LedgerIter
    <3>. QED
      BY <3>1, LedgerReset
  <2>3. CASE ~UsePreProcess
    <3>1. /\ cur' = [InitCur EXCEPT !["rollout"] = RolloutInstances]
          /\ available' = 0 /\ LedgerTurn = "pre_process"
          /\ LedgerTurn' = "rollout" /\ LedgerIter' = LedgerIter
      BY <1>1, <2>1, <2>3 DEF RolloutPreProcess, EndPreProcess, LedgerTurn, LedgerIter
    <3>. QED
      BY <2>3, <3>1, LedgerPreProcess
  <2>. QED
    BY <2>2, <2>3
<1>2. ASSUME IInv, PreReports PROVE [Ledger!Next]_Ledger!vars
  <2>1. /\ UNCHANGED <<cur, available>> /\ LedgerTurn' = LedgerTurn
        /\ LedgerIter' = LedgerIter
    BY <1>2 DEF PreReports, LedgerTurn, LedgerIter
  <2>. QED
    BY <2>1, LedgerStutter
<1>. QED
  BY <1>1, <1>2

(* The rollout's turn ends without a release, or with one.                 *)
LEMMA NoRelease ==
    ASSUME TypeOK, iter >= 0, spc \notin {"inference", "actor"}, spc' = "inference",
           UNCHANGED <<iter, cur, available>>, LastIter => cur["rollout"] = 0
    PROVE  Ledger!Next
<1>1. LedgerTurn = "rollout" /\ LedgerTurn' = "inference"
  BY DEF LedgerTurn, TypeOK
<1>2. cur \in [Components -> Nat] /\ cur["rollout"] \in Nat /\ available \in Nat
      /\ RolloutMP \in Nat
  BY ConfigAssumption DEF TypeOK, Components
<1>3. cur' = [cur EXCEPT !["rollout"] = @ - 0] /\ available' = available + 0 * RolloutMP
      /\ cur["rollout"] - 0 = cur["rollout"]
  BY <1>2
<1>. QED
  BY <1>1, <1>3, LedgerRollout

LEMMA RolloutSimulates ==
    IInv /\ (WaitActor \/ MainReports \/ Migrated) => [Ledger!Next]_Ledger!vars
<1>1. ASSUME IInv, WaitActor PROVE [Ledger!Next]_Ledger!vars
  <2>1. TypeOK /\ iter >= 0 /\ spc = "wait_actor" /\ UNCHANGED <<iter, cur, available>>
    BY <1>1 DEF IInv, BooksInv, WaitActor
  <2>2. CASE cur["rollout"] = 0
    <3>1. spc' = "inference"
      BY <1>1, <2>2 DEF WaitActor
    <3>. QED
      BY <2>1, <2>2, <3>1, NoRelease
  <2>3. CASE cur["rollout"] # 0
    <3>1. spc' \in {"finish", "report"}
      BY <1>1, <2>3 DEF WaitActor, Finish, AskReports
    <3>2. LedgerTurn' = LedgerTurn /\ LedgerIter' = LedgerIter
      BY <2>1, <3>1 DEF LedgerTurn, LedgerIter
    <3>. QED
      BY <2>1, <3>2, LedgerStutter
  <2>. QED
    BY <2>2, <2>3
<1>2. ASSUME IInv, MainReports PROVE [Ledger!Next]_Ledger!vars
  <2>1. TypeOK /\ iter >= 0 /\ spc = "report" /\ UNCHANGED <<iter, cur, available>>
        /\ ~LastIter
    BY <1>2 DEF IInv, BooksInv, MainReports
  <2>2. spc' \in {"finish", "inference", "migrate_out"}
    BY <1>2, Zenon DEF MainReports, Finish, Migrate
  <2>3. CASE spc' = "inference"
    BY <2>1, <2>3, NoRelease
  <2>4. CASE spc' # "inference"
    <3>1. LedgerTurn' = LedgerTurn /\ LedgerIter' = LedgerIter
      BY <2>1, <2>2, <2>4 DEF LedgerTurn, LedgerIter
    <3>. QED
      BY <2>1, <3>1, LedgerStutter
  <2>. QED
    BY <2>3, <2>4
<1>3. ASSUME IInv, Migrated PROVE [Ledger!Next]_Ledger!vars
  <2>1. UNCHANGED <<iter, cur, available>> /\ spc = "migrate_out" /\ spc' = "finish"
    BY <1>3 DEF Migrated
  <2>2. LedgerTurn' = LedgerTurn /\ LedgerIter' = LedgerIter
    BY <2>1 DEF LedgerTurn, LedgerIter
  <2>. QED
    BY <2>1, <2>2, LedgerStutter
<1>. QED
  BY <1>1, <1>2, <1>3

LEMMA FinishedSimulates == IInv /\ Finished => [Ledger!Next]_Ledger!vars
<1> SUFFICES ASSUME IInv, Finished PROVE Ledger!Next
  OBVIOUS
<1>1. TypeOK /\ BooksInv /\ spc = "finish"
  BY DEF IInv, Finished
<1>2. /\ cur["rollout"] \in Nat /\ cur["actor"] \in Nat
      /\ Cardinality(Alive) = cur["rollout"]
      /\ RolloutInstances \in Nat /\ available \in Nat /\ cur \in [Components -> Nat]
  BY <1>1, AliveShape, ConfigAssumption DEF TypeOK
<1>3. PICK n \in 0..cur["rollout"] : awaited = LowestAlive(n) /\ (iter = -1 => n = PreRelease)
  BY <1>1, AwaitedShape
<1>4. Cardinality(awaited) = n
  BY <1>1, <1>3, AliveShape
<1>5. CASE iter = -1
  <2>1. UsePreProcess /\ cur["rollout"] = RolloutInstances
    BY <1>1, <1>5 DEF BooksInv
  <2>2. /\ cur' = [InitCur EXCEPT !["rollout"] = RolloutInstances - PreRelease]
        /\ available' = 0 /\ LedgerTurn = "pre_process" /\ LedgerTurn' = "rollout"
        /\ LedgerIter' = LedgerIter
    BY <1>3, <1>4, <1>5, <2>1 DEF Finished, EndPreProcess, LedgerTurn, LedgerIter
  <2>. QED
    BY <2>1, <2>2, LedgerPreProcess
<1>6. CASE iter # -1
  <2>1. /\ cur' = [cur EXCEPT !["rollout"] = @ - n]
        /\ available' = available + (IF LastIter THEN 0 ELSE n * RolloutMP)
        /\ spc' = "inference" /\ iter' = iter /\ iter >= 0
    BY <1>1, <1>4, <1>6, ConfigAssumption DEF Finished, ReleasedGpus, TypeOK
  <2>2. LedgerTurn = "rollout" /\ LedgerTurn' = "inference"
    BY <1>1, <1>6, <2>1 DEF LedgerTurn
  <2>3. CASE awaited = Alive
    <3>1. n = cur["rollout"] /\ cur["rollout"] - n = 0 /\ available + 0 = available
      BY <1>2, <1>4, <2>3
    <3>. QED
      BY <2>1, <2>2, <3>1, LedgerRollout
  <2>4. CASE ~LastIter /\ Releasing
    <3>1. PICK most \in 1..(cur["rollout"] - 1) :
              awaited = LowestAlive(ReleaseNeeded(most, cur["actor"]))
      BY <2>4 DEF Releasing
    <3>2. most \in Nat /\ most <= cur["rollout"]
      BY <1>2
    <3>3. ReleaseNeeded(most, cur["actor"]) \in 0..most
      BY <1>2, <3>2, ReleaseBounded
    <3>4. ReleaseNeeded(most, cur["actor"]) \in 0..cur["rollout"]
      BY <1>2, <3>2, <3>3
    <3>5. n = ReleaseNeeded(most, cur["actor"])
      BY <1>1, <1>4, <3>1, <3>4, AliveShape
    <3>. QED
      BY <2>1, <2>2, <2>4, <3>5, LedgerRollout
  <2>. QED
    BY <1>1, <2>1, <2>3, <2>4 DEF BooksInv
<1>. QED
  BY <1>5, <1>6

LEMMA InferenceSimulates == IInv /\ InferenceTurn => [Ledger!Next]_Ledger!vars
<1> SUFFICES ASSUME IInv, InferenceTurn PROVE Ledger!Next
  OBVIOUS
<1>1. TypeOK /\ BooksInv /\ spc = "inference" /\ iter >= 0 /\ spc' = "actor" /\ iter' = iter
  BY DEF IInv, BooksInv, InferenceTurn
<1> DEFINE n == IF InferenceReleases THEN cur["inference"] ELSE 0
<1>2. /\ cur' = [cur EXCEPT !["inference"] = @ - n]
      /\ available' = available + n * InferenceMP
  BY DEF InferenceTurn
<1>3. n \in {0, cur["inference"]} /\ (LastIter => n = 0)
  BY DEF InferenceReleases
<1> HIDE DEF n
<1>4. LedgerTurn = "inference" /\ LedgerTurn' = "actor"
  BY <1>1 DEF LedgerTurn, TypeOK
<1>5. LastIter => UNCHANGED <<cur, available>>
  <2>1. /\ cur \in [Components -> Nat] /\ cur["inference"] \in Nat /\ available \in Nat
        /\ InferenceMP \in Nat
    BY <1>1, ConfigAssumption DEF TypeOK, Components
  <2>. QED
    BY <1>2, <1>3, <2>1
<1>. QED
  BY <1>1, <1>2, <1>3, <1>4, <1>5, LedgerInference

LEMMA ActorSimulates == IInv /\ ActorTurn => [Ledger!Next]_Ledger!vars
<1> SUFFICES ASSUME IInv, ActorTurn PROVE Ledger!Next
  OBVIOUS
<1>1. TypeOK /\ BooksInv /\ spc = "actor" /\ iter >= 0 /\ iter \in Nat
  BY ConfigAssumption DEF IInv, BooksInv, ActorTurn, TypeOK
<1>2. LedgerTurn = "actor"
  BY <1>1 DEF LedgerTurn
<1>3. ActorGpus \div ActorMP = ActorInstances
  BY Arithmetic, ConfigAssumption DEF ActorGpus
<1>4. CASE LastIter
  BY <1>1, <1>2, <1>3, <1>4, LedgerActor DEF ActorTurn, FinalGpus
<1>5. CASE ~LastIter
  BY <1>1, <1>2, <1>5, LedgerActor DEF ActorTurn
<1>. QED
  BY <1>4, <1>5

LEMMA OthersSimulate ==
    ASSUME IInv,
           UNCHANGED schedVars \/ NextRound
    PROVE  UNCHANGED Ledger!vars
<1>1. CASE UNCHANGED schedVars
  BY <1>1, LedgerStutter DEF schedVars, LedgerTurn, LedgerIter
<1>2. CASE NextRound
  <2>1. iter = -1 /\ UNCHANGED <<iter, cur, available>>
    BY <1>2 DEF IInv, BooksInv, NextRound
  <2>2. LedgerTurn' = LedgerTurn /\ LedgerIter' = LedgerIter
    BY <2>1 DEF LedgerTurn, LedgerIter
  <2>. QED
    BY <2>1, <2>2, LedgerStutter
<1>. QED
  BY <1>1, <1>2

LEMMA StepSimulates == IInv /\ [Next]_vars => [Ledger!Next]_Ledger!vars
<1> SUFFICES ASSUME IInv, [Next]_vars PROVE [Ledger!Next]_Ledger!vars
  OBVIOUS
<1>1. CASE Scheduler
  BY <1>1, PreProcessSimulates, RolloutSimulates, FinishedSimulates, InferenceSimulates,
     ActorSimulates DEF Scheduler
<1>2. ASSUME NEW i \in Instances, RolloutCoroutine(i) PROVE UNCHANGED schedVars
  BY <1>2 DEF RolloutCoroutine, StartRollout, WaitReturns, PutResult, MarkDone, MarkAborted,
              Notified, Offload, OthersUnchanged
<1>3. ASSUME NEW i \in Instances, MainLoop(i) PROVE UNCHANGED schedVars
  BY <1>3 DEF MainLoop, MainLoopGet, MigratedOut, NotifyFinish
<1>4. ASSUME NEW g \in Groups, Generate(g) PROVE UNCHANGED schedVars
  BY <1>4 DEF Generate
<1>5. Actor \/ InferenceFinishes => UNCHANGED schedVars
  BY DEF Actor, ActorPreProcess, ActorTrain, ActorScale, InferenceFinishes
<1>6. UNCHANGED vars => UNCHANGED schedVars
  BY DEF vars
<1>. QED
  BY <1>1, <1>2, <1>3, <1>4, <1>5, <1>6, OthersSimulate DEF Next

(* The dynamic scheduler keeps the books of GpuLedger: with its messages,  *)
(* migrations and waiting it implements the ledger's turns, so everything  *)
(* proved of the ledger holds of the scheduler.                            *)
THEOREM ImplementsLedger == Spec => KeepsLedger
<1>1. Init => Ledger!Init
  <2>1. Ledger!InitCur = InitCur
    BY DEF Ledger!InitCur, InitCur, Ledger!Components, Components
  <2>. QED
    BY <2>1 DEF Init, Ledger!Init
<1>2. IInv /\ [Next]_vars => [Ledger!Next]_Ledger!vars
  BY StepSimulates
<1>. QED
  BY <1>1, <1>2, InductiveInvariant, PTL DEF Spec, KeepsLedger, Ledger!Spec

-----------------------------------------------------------------------------
(* The GPUs.  What is proved of the ledger holds of the scheduler's books. *)

LEMMA SameLedger == Ledger!Spec <=> Books!Spec
<1>1. Ledger!Init <=> Books!Init
  BY DEF Ledger!Init, Books!Init, Ledger!InitCur, Books!InitCur, Ledger!Components,
         Books!Components
<1>2. Ledger!vars = Books!vars /\ Ledger!vars' = Books!vars'
  BY DEF Ledger!vars, Books!vars
<1>3. Ledger!RolloutReset <=> Books!RolloutReset
  BY DEF Ledger!RolloutReset, Books!RolloutReset
<1>4. Ledger!PreProcess <=> Books!PreProcess
  BY DEF Ledger!PreProcess, Books!PreProcess, Ledger!InitCur, Books!InitCur,
         Ledger!Components, Books!Components, Ledger!PreRelease, Books!PreRelease,
         Ledger!ActorGpus, Books!ActorGpus
<1>5. Ledger!Increment(cur["actor"], available) = Books!Increment(cur["actor"], available)
      /\ \A a, b : Ledger!ReleaseNeeded(a, b) = Books!ReleaseNeeded(a, b)
  BY DEF Ledger!ReleaseNeeded, Books!ReleaseNeeded, Ledger!Increment, Books!Increment,
         Ledger!CeilDiv, Books!CeilDiv, Ledger!Affordable, Books!Affordable,
         Ledger!Largest, Books!Largest, Ledger!ValidDpSizes, Books!ValidDpSizes,
         Ledger!TotalGpus, Books!TotalGpus, Ledger!InferenceBase, Books!InferenceBase,
         Ledger!RolloutBase, Books!RolloutBase, Ledger!ActorGpus, Books!ActorGpus
<1>6. Ledger!LastIter <=> Books!LastIter
  BY DEF Ledger!LastIter, Books!LastIter
<1>7. Ledger!RolloutTurn <=> Books!RolloutTurn
  <2>1. Ledger!RolloutReleases = Books!RolloutReleases
    BY <1>5 DEF Ledger!RolloutReleases, Books!RolloutReleases
  <2>. QED
    BY <1>6, <2>1 DEF Ledger!RolloutTurn, Books!RolloutTurn
<1>8. Ledger!InferenceTurn <=> Books!InferenceTurn
  BY <1>6 DEF Ledger!InferenceTurn, Books!InferenceTurn
<1>9. Ledger!ActorTurn <=> Books!ActorTurn
  BY <1>5, <1>6 DEF Ledger!ActorTurn, Books!ActorTurn
<1>10. [Ledger!Next]_Ledger!vars <=> [Books!Next]_Books!vars
  BY <1>2, <1>3, <1>4, <1>7, <1>8, <1>9 DEF Ledger!Next, Books!Next
<1>. QED
  BY <1>1, <1>10, PTL DEF Ledger!Spec, Books!Spec

(* Releasing and allocating neither lose nor invent a GPU.                 *)
LEMMA SchedulerBooksBalance == Spec => []Books!GpusConserved
<1>1. Books!PlacementAssumption
  BY PlacementAssumption, SameArithmetic DEF Books!PlacementAssumption, PlacementAssumption
<1>2. Books!ConfigAssumption
  BY ConfigAssumption DEF Books!ConfigAssumption, ConfigAssumption
<1>3. Books!Spec => []Books!GpusConserved
  BY <1>1, <1>2, Books!BooksBalance
<1>. QED
  BY <1>3, ImplementsLedger, SameLedger, PTL DEF KeepsLedger

(* Where the rollout's and the inference's GPUs begin, in products that    *)
(* the ledger's balance speaks of.                                         *)
LEMMA Layout ==
    ASSUME TypeOK, BooksInv
    PROVE  /\ cur["rollout"] * RolloutMP \in Nat /\ Offset * RolloutMP \in Nat
           /\ cur["inference"] * InferenceMP \in Nat
           /\ InferenceInstances * InferenceMP \in Nat
           /\ cur["actor"] * ActorMP \in Nat
           /\ InferenceBase = RolloutBase + Offset * RolloutMP + cur["rollout"] * RolloutMP
           /\ TotalGpus = InferenceBase + InferenceInstances * InferenceMP
<1>1. /\ Offset \in Nat /\ Offset + cur["rollout"] = RolloutInstances
      /\ cur["rollout"] \in Nat /\ cur["actor"] \in Nat /\ cur["inference"] \in Nat
      /\ RolloutMP \in Nat \ {0} /\ InferenceMP \in Nat \ {0} /\ ActorMP \in Nat \ {0}
      /\ InferenceInstances \in Nat
  BY AliveShape, ConfigAssumption
<1>2. /\ cur["rollout"] * RolloutMP \in Nat /\ Offset * RolloutMP \in Nat
      /\ (Offset + cur["rollout"]) * RolloutMP
             = Offset * RolloutMP + cur["rollout"] * RolloutMP
  BY <1>1, Arithmetic
<1>3. cur["inference"] * InferenceMP \in Nat /\ InferenceInstances * InferenceMP \in Nat
  BY <1>1, Arithmetic
<1>4. cur["actor"] * ActorMP \in Nat
  BY <1>1, Arithmetic
<1>5. RolloutBase \in Nat
  BY Sizes
<1>6. InferenceBase = RolloutBase + RolloutInstances * RolloutMP
  BY DEF InferenceBase
<1>7. InferenceBase = RolloutBase + Offset * RolloutMP + cur["rollout"] * RolloutMP
  BY <1>1, <1>2, <1>5, <1>6
<1>. QED
  BY <1>2, <1>3, <1>4, <1>7 DEF TotalGpus

(* The balance, when the actor's turn comes before the last train step.    *)
LEMMA Balance ==
    ASSUME TypeOK, Books!GpusConserved, spc = "actor", iter >= 0, ~LastIter
    PROVE  cur["rollout"] * RolloutMP + cur["inference"] * InferenceMP
               + cur["actor"] * ActorMP + available = TotalGpus
<1>1. Books!TotalGpus = TotalGpus
  BY SameArithmetic
<1>2. ~Books!LastIter
  BY DEF Books!LastIter, LastIter
<1>3. iter # -1
  BY DEF TypeOK
<1>4. Books!GpusOwned + available = Books!TotalGpus
  BY <1>2, <1>3 DEF Books!GpusConserved
<1>. QED
  BY <1>1, <1>4 DEF Books!GpusOwned

(* Steps that leave the scheduler and the actor's size alone.              *)
LEMMA GpusFrame ==
    ASSUME GpusInv, UNCHANGED schedVars, act'.world = act.world,
           inf' = inf \/ inf' = "finished"
    PROVE  GpusInv'
<1>1. UNCHANGED <<spc, iter, cur, awaited>>
  BY DEF schedVars
<1>2. LeavesWhole'
  BY <1>1 DEF GpusInv, LeavesWhole, Alive, Offset
<1>3. ASSUME iter' >= 0 PROVE ActorBelow(act.world)' /\ ActorBelow(cur["actor"] * ActorMP)'
  <2>1. ActorBelow(act.world) /\ ActorBelow(cur["actor"] * ActorMP)
    BY <1>1, <1>3 DEF GpusInv
  <2>. QED
    BY <1>1, <2>1 DEF ActorBelow, Offset
<1>. QED
  BY <1>1, <1>2, <1>3 DEF GpusInv, LastIter

(* Steps of the scheduler that release or allocate nothing.                *)
LEMMA GpusBetween ==
    ASSUME GpusInv, UNCHANGED <<iter, cur, act, inf>>, LeavesWhole',
           spc' \notin {"done", "actor"}
    PROVE  GpusInv'
<1>1. ASSUME iter' >= 0 PROVE ActorBelow(act.world)' /\ ActorBelow(cur["actor"] * ActorMP)'
  <2>1. ActorBelow(act.world) /\ ActorBelow(cur["actor"] * ActorMP)
    BY <1>1 DEF GpusInv
  <2>. QED
    BY <2>1 DEF ActorBelow, Offset
<1>. QED
  BY <1>1 DEF GpusInv

LEMMA InstancesGpus ==
    ASSUME GpusInv,
           \/ \E i \in Instances : RolloutCoroutine(i) \/ MainLoop(i)
           \/ \E g \in Groups : Generate(g)
    PROVE  GpusInv'
<1>1. UNCHANGED <<schedVars, act, inf>>
  <2>1. ASSUME NEW i \in Instances, RolloutCoroutine(i)
        PROVE  UNCHANGED <<schedVars, act, inf>>
    BY <2>1 DEF RolloutCoroutine, StartRollout, WaitReturns, PutResult, MarkDone,
                MarkAborted, Notified, Offload, OthersUnchanged, actorVars
  <2>2. ASSUME NEW i \in Instances, MainLoop(i)
        PROVE  UNCHANGED <<schedVars, act, inf>>
    BY <2>2 DEF MainLoop, MainLoopGet, MigratedOut, NotifyFinish, actorVars
  <2>3. ASSUME NEW g \in Groups, Generate(g)
        PROVE  UNCHANGED <<schedVars, act, inf>>
    BY <2>3 DEF Generate, actorVars
  <2>. QED
    BY <2>1, <2>2, <2>3
<1>. QED
  BY <1>1, GpusFrame

LEMMA ActorGpusInv ==
    ASSUME IInv, IInv', GpusInv, Actor \/ InferenceFinishes
    PROVE  GpusInv'
<1>1. CASE ActorPreProcess
  <2>1. UNCHANGED <<schedVars, inf>> /\ act'.world = act.world
    BY <1>1 DEF ActorPreProcess, IInv, TypeOK
  <2>. QED
    BY <2>1, GpusFrame
<1>2. CASE ActorTrain
  <2>1. UNCHANGED <<schedVars, inf>> /\ act'.world = act.world
    BY <1>2 DEF ActorTrain, IInv, TypeOK
  <2>. QED
    BY <2>1, GpusFrame
<1>3. CASE InferenceFinishes
  <2>1. UNCHANGED <<schedVars, act>> /\ inf' = "finished"
    BY <1>3 DEF InferenceFinishes, actorVars
  <2>. QED
    BY <2>1, GpusFrame
<1>4. CASE ActorScale
  <2>1. UNCHANGED <<spc, iter, cur, awaited, inf>>
    BY <1>4 DEF ActorScale, schedVars
  <2>2. actorReq' = <<>>
    <3>1. act.pc = "sync" /\ actorReq # <<>>
      BY <1>4 DEF ActorScale
    <3>2. Len(actorReq) = 1 /\ actorReq \in Seq({None} \cup Nat)
      BY <3>1 DEF IInv, TypeOK, ActorInv, ActorTrains, ActorWaits
    <3>3. Len(Tail(actorReq)) = 0 /\ Tail(actorReq) \in Seq({None} \cup Nat)
      BY <3>2
    <3>4. \A t \in Seq({None} \cup Nat) : Len(t) = 0 => t = <<>>
      OBVIOUS
    <3>. QED
      BY <1>4, <3>3, <3>4 DEF ActorScale
  <2>3. act'.world = cur["actor"] * ActorMP
    BY <2>1, <2>2 DEF IInv, WorldInv, Promised
  <2>4. ASSUME iter' >= 0
        PROVE  ActorBelow(act.world)' /\ ActorBelow(cur["actor"] * ActorMP)'
    <3>1. ActorBelow(cur["actor"] * ActorMP)
      BY <2>1, <2>4 DEF GpusInv
    <3>. QED
      BY <2>1, <2>3, <3>1 DEF ActorBelow, Offset
  <2>5. LeavesWhole'
    BY <2>1 DEF GpusInv, LeavesWhole, Alive, Offset
  <2>. QED
    BY <2>1, <2>4, <2>5 DEF GpusInv, LastIter
<1>. QED
  BY <1>1, <1>2, <1>3, <1>4 DEF Actor

LEMMA NextRoundGpus ==
    ASSUME IInv, GpusInv, NextRound
    PROVE  GpusInv'
<1>1. iter' = -1 /\ spc' = "pre_process" /\ NMinibatches \in Nat \ {0}
  BY ConfigAssumption DEF NextRound, IInv, BooksInv
<1>. QED
  BY <1>1 DEF GpusInv, LeavesWhole, LastIter

LEMMA BetweenGpus ==
    ASSUME IInv, GpusInv, PreReports \/ WaitActor \/ MainReports \/ Migrated
    PROVE  GpusInv'
<1>0. NMinibatches \in Nat \ {0}
  BY ConfigAssumption
<1>1. CASE PreReports
  <2>1. UNCHANGED <<iter, cur, act, inf>> /\ iter = -1 /\ spc' \in {"migrate_out", "report"}
    BY <1>1 DEF PreReports, Migrate, AskReports, actorVars
  <2>. QED
    BY <2>1, GpusBetween DEF LeavesWhole
<1>2. CASE WaitActor
  <2>1. UNCHANGED <<iter, cur, act, inf>>
    BY <1>2 DEF WaitActor
  <2>2. \/ spc' = "inference" /\ cur["rollout"] = 0
        \/ spc' = "finish" /\ awaited' = Alive
        \/ spc' = "report"
    BY <1>2 DEF WaitActor, Finish, AskReports
  <2>3. LeavesWhole'
    BY <2>1, <2>2, AliveFrame DEF LeavesWhole
  <2>. QED
    BY <2>1, <2>2, <2>3, GpusBetween
<1>3. CASE MainReports
  <2>1. UNCHANGED <<iter, cur, act, inf>>
    BY <1>3 DEF MainReports, actorVars
  <2>2. \/ spc' = "finish" /\ awaited' = Alive
        \/ /\ spc' \in {"inference", "migrate_out"}
           /\ ~(UseWaitBeforeLast /\ iter = NMinibatches - 2)
    BY <1>3, Zenon DEF MainReports, Finish, Migrate
  <2>3. LeavesWhole'
    BY <2>1, <2>2, AliveFrame DEF LeavesWhole
  <2>. QED
    BY <2>1, <2>2, <2>3, GpusBetween
<1>4. CASE Migrated
  <2>1. UNCHANGED <<iter, cur, act, inf>> /\ spc = "migrate_out" /\ spc' = "finish"
    BY <1>4 DEF Migrated, actorVars
  <2>2. LeavesWhole'
    BY <2>1 DEF GpusInv, LeavesWhole
  <2>. QED
    BY <2>1, <2>2, GpusBetween
<1>. QED
  BY <1>1, <1>2, <1>3, <1>4

(* Outside the main loop nothing is said of the actor's GPUs.              *)
LEMMA OutsideGpus ==
    ASSUME iter' = -1, spc' # "done" \/ inf' = "finished" \/ InferenceInstances = 0
    PROVE  GpusInv'
  BY ConfigAssumption DEF GpusInv, LeavesWhole, LastIter

(* The first train step starts with the actor just below the rollout.      *)
LEMMA StartGpus ==
    ASSUME IInv, IInv', iter = -1, spc # "done", iter' = 0, spc' = "wait_actor",
           cur'["inference"] = InferenceInstances, cur'["actor"] = ActorInstances,
           UNCHANGED act,
           cur'["rollout"] = IF UsePreProcess THEN RolloutInstances - PreRelease
                                              ELSE RolloutInstances
    PROVE  GpusInv'
<1>1. /\ TypeOK' /\ BooksInv' /\ NMinibatches \in Nat \ {0}
      /\ RolloutInstances \in Nat /\ ActorGpus \in Nat /\ RolloutBase \in Nat
      /\ PreRelease \in Nat /\ RolloutMP \in Nat
  BY ConfigAssumption, Sizes DEF IInv
<1>2. act'.world = ActorGpus
  <2>1. actorReq = <<>>
    BY DEF IInv, ActorInv, ActorTrains, ActorWaits, PreProcessing
  <2>2. cur["actor"] = ActorInstances
    BY DEF IInv, BooksInv
  <2>. QED
    BY <2>1, <2>2 DEF IInv, WorldInv, Promised, ActorGpus
<1>3. ActorGpus = RolloutBase + Offset' * RolloutMP
  <2>1. CASE UsePreProcess
    <3>1. Offset' = PreRelease
      BY <1>1, <2>1 DEF Offset
    <3>2. PreRelease * RolloutMP = ActorGpus /\ RolloutBase = 0
      BY <2>1, PlacementAssumption DEF RolloutBase
    <3>. QED
      BY <1>1, <3>1, <3>2
  <2>2. CASE ~UsePreProcess
    <3>1. Offset' = 0
      BY <1>1, <2>2 DEF Offset
    <3>2. RolloutBase = ActorGpus
      BY <2>2, PlacementAssumption DEF RolloutBase
    <3>. QED
      BY <1>1, <3>1, <3>2
  <2>. QED
    BY <2>1, <2>2
<1>4. ActorGpus <= InferenceBase
  <2>1. Offset' \in Nat /\ Offset' <= RolloutInstances
    BY <1>1, PlacementAssumption DEF Offset
  <2>2. Offset' * RolloutMP <= RolloutInstances * RolloutMP
    BY <1>1, <2>1, Arithmetic, ConfigAssumption
  <2>3. Offset' * RolloutMP \in Nat
    BY <2>1, Arithmetic, ConfigAssumption
  <2>4. RolloutInstances * RolloutMP \in Nat
    BY <1>1, Arithmetic, ConfigAssumption
  <2>. QED
    BY <1>1, <1>3, <2>2, <2>3, <2>4 DEF InferenceBase
<1>5. ActorBelow(act.world)' /\ ActorBelow(cur["actor"] * ActorMP)'
  BY <1>1, <1>2, <1>3, <1>4 DEF ActorBelow, ActorGpus
<1>. QED
  BY <1>1, <1>5 DEF GpusInv, LeavesWhole, LastIter

LEMMA RolloutPreProcessGpus ==
    ASSUME IInv, IInv', GpusInv, RolloutPreProcess
    PROVE  GpusInv'
<1>1. iter = -1 /\ spc = "pre_process" /\ UNCHANGED <<act, inf>>
  BY DEF IInv, BooksInv, RolloutPreProcess
<1>2. CASE UsePreProcess
  <2>1. iter' = -1 /\ spc' = "report"
    BY <1>1, <1>2 DEF RolloutPreProcess
  <2>. QED
    BY <2>1, OutsideGpus
<1>3. CASE ~UsePreProcess
  <2>1. /\ cur' = [InitCur EXCEPT !["rollout"] = RolloutInstances]
        /\ iter' = 0 /\ spc' = "wait_actor"
    BY <1>3 DEF RolloutPreProcess, EndPreProcess
  <2>2. /\ cur'["inference"] = InferenceInstances /\ cur'["actor"] = ActorInstances
        /\ cur'["rollout"] = RolloutInstances
    BY <2>1 DEF InitCur, Components
  <2>. QED
    BY <1>1, <1>3, <2>1, <2>2, StartGpus
<1>. QED
  BY <1>2, <1>3

(* Releasing moves the rollout's first GPU up, and the actor's stay below. *)
LEMMA FinishedGpus ==
    ASSUME IInv, IInv', GpusInv, Finished
    PROVE  GpusInv'
<1>1. TypeOK /\ BooksInv /\ spc = "finish" /\ UNCHANGED <<act, inf>>
  BY DEF IInv, Finished
<1>2. /\ cur["rollout"] \in Nat /\ cur["actor"] \in Nat /\ Offset \in Nat
      /\ Cardinality(Alive) = cur["rollout"]
      /\ RolloutInstances \in Nat /\ cur \in [Components -> Nat]
      /\ RolloutMP \in Nat \ {0} /\ NMinibatches \in Nat \ {0}
  BY <1>1, AliveShape, ConfigAssumption DEF TypeOK
<1>3. PICK n \in 0..cur["rollout"] : awaited = LowestAlive(n) /\ (iter = -1 => n = PreRelease)
  BY <1>1, AwaitedShape
<1>4. Cardinality(awaited) = n
  BY <1>1, <1>3, AliveShape
<1>5. CASE iter = -1
  <2>1. UsePreProcess /\ cur["rollout"] = RolloutInstances
    BY <1>1, <1>5 DEF BooksInv
  <2>2. /\ cur' = [InitCur EXCEPT !["rollout"] = RolloutInstances - PreRelease]
        /\ iter' = 0 /\ spc' = "wait_actor"
    BY <1>3, <1>4, <1>5, <2>1 DEF Finished, EndPreProcess
  <2>3. /\ cur'["inference"] = InferenceInstances /\ cur'["actor"] = ActorInstances
        /\ cur'["rollout"] = RolloutInstances - PreRelease
    BY <2>2 DEF InitCur, Components
  <2>. QED
    BY <1>1, <1>5, <2>1, <2>2, <2>3, StartGpus
<1>6. CASE iter # -1
  <2>1. /\ cur' = [cur EXCEPT !["rollout"] = @ - n]
        /\ spc' = "inference" /\ iter' = iter /\ iter >= 0
    BY <1>1, <1>4, <1>6, ConfigAssumption DEF Finished, TypeOK
  <2>2. /\ cur'["rollout"] = cur["rollout"] - n
        /\ cur'["inference"] = cur["inference"] /\ cur'["actor"] = cur["actor"]
    BY <1>2, <2>1 DEF Components
  <2>3. LeavesWhole'
    <3>1. ASSUME UseWaitBeforeLast, iter = NMinibatches - 2 PROVE cur'["rollout"] = 0
      <4>1. awaited = Alive
        BY <1>1, <2>1, <3>1 DEF GpusInv, LeavesWhole
      <4>. QED
        BY <1>2, <1>4, <2>2, <4>1
    <3>. QED
      BY <2>1, <3>1 DEF LeavesWhole
  <2>4. Offset' = Offset + n
    BY <1>2, <2>2 DEF Offset
  <2>5. /\ Offset * RolloutMP \in Nat /\ n * RolloutMP \in Nat
        /\ Offset' * RolloutMP = Offset * RolloutMP + n * RolloutMP
    <3>1. n \in Nat
      BY <1>2
    <3>2. (Offset + n) * RolloutMP = Offset * RolloutMP + n * RolloutMP
      BY <1>2, <3>1, Arithmetic
    <3>3. Offset * RolloutMP \in Nat
      BY <1>2, Arithmetic
    <3>4. n * RolloutMP \in Nat
      BY <1>2, <3>1, Arithmetic
    <3>. QED
      BY <2>4, <3>2, <3>3, <3>4
  <2>6. ASSUME NEW x \in Nat, ActorBelow(x)
        PROVE  /\ cur'["rollout"] > 0 => x <= RolloutBase + Offset' * RolloutMP
               /\ inf' = "run" /\ InferenceInstances > 0 => x <= InferenceBase
    <3>1. RolloutBase \in Nat
      BY Sizes
    <3>2. cur'["rollout"] > 0 => cur["rollout"] > 0
      BY <1>2, <2>2
    <3>3. cur["rollout"] > 0 => x <= RolloutBase + Offset * RolloutMP
      BY <2>6 DEF ActorBelow
    <3>4. cur["rollout"] > 0 => x <= RolloutBase + Offset' * RolloutMP
      BY <2>5, <3>1, <3>3
    <3>. QED
      BY <1>1, <2>6, <3>2, <3>4 DEF ActorBelow
  <2>7. ActorBelow(act.world)' /\ ActorBelow(cur["actor"] * ActorMP)'
    <3>1. ActorBelow(act.world) /\ ActorBelow(cur["actor"] * ActorMP)
      BY <2>1 DEF GpusInv
    <3>2. act.world \in Nat /\ cur["actor"] * ActorMP \in Nat
      BY <1>1, Layout DEF TypeOK
    <3>3. act'.world = act.world /\ cur'["actor"] * ActorMP = cur["actor"] * ActorMP
      BY <1>1, <2>2
    <3>. QED
      BY <2>6, <3>1, <3>2, <3>3 DEF ActorBelow
  <2>8. /\ iter' >= 0 /\ inf' = "run" => cur'["inference"] = InferenceInstances
        /\ iter' >= 0 => cur'["inference"] = InferenceInstances \/ cur'["rollout"] = 0
    BY <1>1, <1>2, <2>1, <2>2 DEF GpusInv
  <2>. QED
    BY <2>1, <2>3, <2>7, <2>8 DEF GpusInv
<1>. QED
  BY <1>5, <1>6

(* The inference gives its GPUs back only once the rollout has: that is    *)
(* what use_wait_before_last_iter_policy is for.                           *)
LEMMA InferenceGpus ==
    ASSUME IInv, GpusInv, InferenceTurn, UseWaitBeforeLast \/ InferenceInstances = 0
    PROVE  GpusInv'
<1>1. /\ TypeOK /\ spc = "inference" /\ iter >= 0 /\ ~InferenceBlocks
      /\ UNCHANGED <<iter, act, inf>> /\ spc' = "actor"
  BY DEF IInv, BooksInv, InferenceTurn, actorVars
<1> DEFINE n == IF InferenceReleases THEN cur["inference"] ELSE 0
<1>2. cur' = [cur EXCEPT !["inference"] = @ - n]
  BY DEF InferenceTurn
<1>3. cur \in [Components -> Nat] /\ cur["inference"] \in Nat /\ cur["rollout"] \in Nat
  BY <1>1 DEF TypeOK, Components
<1>4. n \in {0, cur["inference"]} /\ (~InferenceReleases => n = 0)
  OBVIOUS
<1> HIDE DEF n
<1>5. /\ cur'["rollout"] = cur["rollout"] /\ cur'["actor"] = cur["actor"]
      /\ cur'["inference"] = cur["inference"] - n
  BY <1>2, <1>3 DEF Components
<1>6. ActorBelow(act.world)' /\ ActorBelow(cur["actor"] * ActorMP)'
  <2>1. ActorBelow(act.world) /\ ActorBelow(cur["actor"] * ActorMP)
    BY <1>1 DEF GpusInv
  <2>. QED
    BY <1>1, <1>5, <2>1 DEF ActorBelow, Offset
<1>7. inf = "run" => cur'["inference"] = InferenceInstances
  <2>1. inf = "run" => n = 0 /\ cur["inference"] = InferenceInstances
    BY <1>1, <1>4 DEF InferenceReleases, GpusInv
  <2>. QED
    BY <1>3, <1>5, <2>1
<1>8. LastIter => inf = "finished" \/ InferenceInstances = 0
  BY <1>1, ConfigAssumption DEF InferenceBlocks, TypeOK
<1>9. cur'["inference"] = InferenceInstances \/ cur["rollout"] = 0
  <2>1. cur["inference"] = InferenceInstances \/ cur["rollout"] = 0
    BY <1>1 DEF GpusInv
  <2>2. CASE n = 0
    BY <1>3, <1>5, <2>1, <2>2
  <2>3. CASE n # 0 /\ UseWaitBeforeLast
    <3>1. NeedWaitForFinish
      BY <1>4, <2>3 DEF InferenceReleases
    <3>. QED
      BY <1>1, <2>3, <3>1 DEF NeedWaitForFinish, GpusInv, LeavesWhole
  <2>4. CASE n # 0 /\ InferenceInstances = 0
    BY <1>4, <2>1, <2>4
  <2>. QED
    BY <2>2, <2>3, <2>4
<1>. QED
  BY <1>1, <1>5, <1>6, <1>7, <1>8, <1>9 DEF GpusInv, LeavesWhole, LastIter

(* The actor grows into free GPUs only, which are all below the rollout's  *)
(* and, until it has finished, the inference's.                            *)
LEMMA ActorTurnGpus ==
    ASSUME IInv, GpusInv, Books!GpusConserved, ActorTurn
    PROVE  GpusInv'
<1>1. TypeOK /\ BooksInv /\ spc = "actor" /\ iter >= 0 /\ UNCHANGED <<act, inf>>
  BY DEF IInv, BooksInv, ActorTurn
<1>2. CASE LastIter
  <2>1. iter' = -1 /\ UNCHANGED inf
    BY <1>1, <1>2 DEF ActorTurn
  <2>2. inf = "finished" \/ InferenceInstances = 0
    BY <1>1, <1>2 DEF GpusInv
  <2>. QED
    BY <2>1, <2>2, OutsideGpus
<1>3. CASE ~LastIter
  <2> DEFINE old == cur["actor"] * ActorMP
             grown == Increment(cur["actor"], available)
  <2>1. /\ cur' = [cur EXCEPT !["actor"] = (old + grown) \div ActorMP]
        /\ iter' = iter + 1 /\ spc' = "wait_actor"
    BY <1>3 DEF ActorTurn
  <2>2. /\ old \in Nat /\ grown \in Nat /\ available - grown \in Nat
        /\ ((old + grown) \div ActorMP) * ActorMP = old + grown
    BY <1>1, <1>3, ActorBooks
  <2> HIDE DEF grown, old
  <2>3. /\ cur \in [Components -> Nat] /\ cur["rollout"] \in Nat /\ available \in Nat
        /\ iter \in Int
    BY <1>1, ConfigAssumption DEF TypeOK, Components
  <2>4. /\ cur'["rollout"] = cur["rollout"] /\ cur'["inference"] = cur["inference"]
        /\ cur'["actor"] = (old + grown) \div ActorMP
    BY <2>1, <2>3 DEF Components
  <2>5. cur'["actor"] * ActorMP = old + grown
    BY <2>2, <2>4
  <2>6. /\ cur["rollout"] * RolloutMP \in Nat /\ Offset * RolloutMP \in Nat
        /\ cur["inference"] * InferenceMP \in Nat
        /\ RolloutBase \in Nat
        /\ InferenceBase = RolloutBase + Offset * RolloutMP + cur["rollout"] * RolloutMP
        /\ TotalGpus = InferenceBase + InferenceInstances * InferenceMP
    BY <1>1, Layout, Sizes
  <2>7. cur["rollout"] * RolloutMP + cur["inference"] * InferenceMP + old + available
            = TotalGpus
    BY <1>1, <1>3, Balance DEF old
  <2>8. cur["inference"] = InferenceInstances => old + grown <= RolloutBase + Offset * RolloutMP
    BY <2>2, <2>3, <2>6, <2>7
  <2>9. ActorBelow(old + grown)
    <3>1. cur["rollout"] > 0 => cur["inference"] = InferenceInstances
      BY <1>1, <2>3 DEF GpusInv
    <3>2. inf = "run" => cur["inference"] = InferenceInstances
      BY <1>1 DEF GpusInv
    <3>. QED
      BY <2>2, <2>6, <2>8, <3>1, <3>2 DEF ActorBelow
  <2>10. ActorBelow(act.world)' /\ ActorBelow(cur["actor"] * ActorMP)'
    <3>1. ActorBelow(act.world)
      BY <1>1 DEF GpusInv
    <3>2. Offset' = Offset
      BY <2>4 DEF Offset
    <3>. QED
      BY <1>1, <2>4, <2>5, <2>9, <3>1, <3>2 DEF ActorBelow
  <2>11. /\ iter' >= 0 /\ inf' = "run" => cur'["inference"] = InferenceInstances
         /\ iter' >= 0 => cur'["inference"] = InferenceInstances \/ cur'["rollout"] = 0
    BY <1>1, <2>4 DEF GpusInv
  <2>. QED
    BY <2>1, <2>10, <2>11 DEF GpusInv, LeavesWhole
<1>. QED
  BY <1>2, <1>3

LEMMA NextGpus ==
    ASSUME IInv, IInv', Books!GpusConserved, GpusInv, [Next]_vars,
           UseWaitBeforeLast \/ InferenceInstances = 0
    PROVE  GpusInv'
<1>1. CASE Scheduler
  BY <1>1, RolloutPreProcessGpus, BetweenGpus, FinishedGpus, InferenceGpus, ActorTurnGpus
     DEF Scheduler
<1>2. CASE UNCHANGED vars
  <2>1. UNCHANGED <<schedVars, act, inf>>
    BY <1>2 DEF vars, actorVars
  <2>. QED
    BY <2>1, GpusFrame
<1>. QED
  BY <1>1, <1>2, InstancesGpus, ActorGpusInv, NextRoundGpus DEF Next

(* What the actor has or has been promised ends below the GPUs that the    *)
(* rollout and the inference still use, provided that                      *)
(* use_wait_before_last_iter_policy is on or there is no dedicated         *)
(* inference: without either, the inference may give its GPUs back while   *)
(* rollout instances below them still run.                                 *)
THEOREM GpusInvariant ==
    ASSUME UseWaitBeforeLast \/ InferenceInstances = 0
    PROVE  Spec => []GpusInv
<1>1. Init => GpusInv
  BY ConfigAssumption DEF Init, GpusInv, LeavesWhole, LastIter
<1>2. IInv /\ IInv' /\ Books!GpusConserved /\ GpusInv /\ [Next]_vars => GpusInv'
  BY NextGpus
<1>. QED
  BY <1>1, <1>2, InductiveInvariant, SchedulerBooksBalance, PTL DEF Spec

(* An instance that is not alive has given its GPUs back.                  *)
LEMMA DeadHaveLeft ==
    ASSUME IInv, NEW i \in Instances, spc # "pre_process", i \notin Alive
    PROVE  ~HoldsGpus(i)
  BY DEF IInv, TalkInv, InstanceInv, Talk, Takes, Left, HoldsGpus

(* "Acquire the GPUs to ensure that no one is using them before loading    *)
(* models": the actor never holds a GPU of a rollout instance that has not *)
(* offloaded, nor one of an inference that has not finished.               *)
THEOREM ActorOnFreeGpus ==
    ASSUME UseWaitBeforeLast \/ InferenceInstances = 0
    PROVE  Spec => []ActorGpusFree
<1>1. ASSUME IInv, GpusInv PROVE ActorGpusFree
  <2>1. /\ TypeOK /\ BooksInv /\ act.world \in Nat /\ iter \in -1..(NMinibatches - 1)
        /\ NMinibatches \in Nat \ {0} /\ cur["rollout"] \in Nat /\ Offset \in Nat
        /\ RolloutBase \in Nat /\ InferenceBase \in Nat /\ TotalGpus \in Nat
        /\ InferenceInstances \in Nat /\ RolloutMP \in Nat \ {0}
        /\ inf \in {"run", "finished"} /\ Offset * RolloutMP \in Nat
    BY <1>1, AliveShape, Sizes, Layout, ConfigAssumption DEF IInv, TypeOK
  <2>2. InferenceInstances = 0 => InferenceBase..(TotalGpus - 1) = {}
    <3>1. InferenceInstances = 0 => InferenceInstances * InferenceMP = 0
      BY ConfigAssumption
    <3>. QED
      BY <2>1, <3>1 DEF TotalGpus
  <2>3. ASSUME NEW i \in Instances, NEW b \in Nat, b <= i
        PROVE  \A g \in RolloutGpus(i) : g >= RolloutBase + b * RolloutMP
    <3>1. i \in Nat
      BY DEF Instances
    <3>2. b * RolloutMP <= i * RolloutMP
      BY <2>1, <2>3, <3>1, Arithmetic
    <3>3. i * RolloutMP \in Nat
      BY <2>1, <3>1, Arithmetic
    <3>4. b * RolloutMP \in Nat
      BY <2>1, Arithmetic
    <3>. QED
      BY <2>1, <3>2, <3>3, <3>4 DEF RolloutGpus
  <2>4. ActorHolds \subseteq 0..(act.world - 1)
    BY DEF ActorHolds
  <2>5. ASSUME iter >= 0, NEW i \in Instances, HoldsGpus(i)
        PROVE  RolloutGpus(i) \cap ActorHolds = {}
    <3>1. i \in Alive
      BY <1>1, <2>5, DeadHaveLeft DEF IInv, BooksInv
    <3>2. cur["rollout"] > 0 /\ Offset <= i
      BY <2>1, <3>1, ConfigAssumption DEF Alive, Offset
    <3>3. act.world <= RolloutBase + Offset * RolloutMP
      BY <1>1, <2>5, <3>2 DEF GpusInv, ActorBelow
    <3>4. \A g \in RolloutGpus(i) : g >= RolloutBase + Offset * RolloutMP
      BY <2>1, <2>3, <3>2
    <3>. QED
      BY <2>1, <2>4, <3>3, <3>4 DEF RolloutGpus
  <2>6. CASE iter >= 0
    <3>1. inf = "run" /\ InferenceInstances > 0 => act.world <= InferenceBase
      BY <1>1, <2>6 DEF GpusInv, ActorBelow
    <3>2. inf = "run" => (InferenceBase..(TotalGpus - 1)) \cap ActorHolds = {}
      BY <2>1, <2>2, <2>4, <3>1
    <3>. QED
      BY <2>5, <2>6, <3>2 DEF ActorGpusFree
  <2>7. CASE spc = "done"
    <3>1. cur["rollout"] = 0
      BY <2>1, <2>7 DEF BooksInv
    <3>2. Alive = {}
      BY <2>1, <3>1, ConfigAssumption DEF Alive, Offset
    <3>3. \A i \in Instances : ~HoldsGpus(i)
      BY <1>1, <2>7, <3>2, DeadHaveLeft
    <3>4. inf = "finished" \/ InferenceInstances = 0
      BY <1>1, <2>7 DEF GpusInv
    <3>. QED
      BY <2>2, <3>3, <3>4 DEF ActorGpusFree
  <2>8. CASE iter = -1 /\ spc # "done"
    <3>1. CASE WorkersPreProcess
      <4>1. UsePreProcess
        BY <3>1, PlacementAssumption
      <4>2. act.pc = "pre"
        BY <1>1, <2>1, <2>8, <4>1
           DEF IInv, TypeOK, ActorInv, ActorTrains, ActorWaits, PreProcessing
      <4>3. ActorHolds = {}
        BY <3>1, <4>2 DEF ActorHolds
      <4>. QED
        BY <4>3 DEF ActorGpusFree
    <3>2. CASE ~WorkersPreProcess
      <4>1. actorReq = <<>> /\ cur["actor"] = ActorInstances
        BY <1>1, <2>8 DEF IInv, BooksInv, ActorInv, ActorTrains, ActorWaits, PreProcessing
      <4>2. act.world = RolloutBase
        BY <1>1, <3>2, <4>1 DEF IInv, WorldInv, Promised, ActorGpus, RolloutBase
      <4>3. ASSUME NEW i \in Instances PROVE RolloutGpus(i) \cap ActorHolds = {}
        <5>1. 0 \in Nat /\ 0 <= i /\ 0 * RolloutMP = 0
          BY <2>1 DEF Instances
        <5>2. \A g \in RolloutGpus(i) : g >= RolloutBase + 0 * RolloutMP
          BY <2>3, <5>1
        <5>. QED
          BY <2>1, <2>4, <4>2, <5>1, <5>2 DEF RolloutGpus
      <4>4. RolloutBase <= InferenceBase
        BY <2>1, Arithmetic, ConfigAssumption DEF InferenceBase
      <4>5. (InferenceBase..(TotalGpus - 1)) \cap ActorHolds = {}
        BY <2>1, <2>4, <4>2, <4>4
      <4>. QED
        BY <4>3, <4>5 DEF ActorGpusFree
    <3>. QED
      BY <3>1, <3>2
  <2>. QED
    BY <2>1, <2>6, <2>7, <2>8
<1>. QED
  BY <1>1, InductiveInvariant, GpusInvariant, PTL

-----------------------------------------------------------------------------
(* What each step of a rollout instance does to that instance, and that it *)
(* leaves the other instances and the scheduler alone.                     *)
Alone(i) ==
    /\ UNCHANGED <<spc, iter, cur, awaited>>
    /\ \A j \in Instances : j # i => /\ inst'[j] = inst[j] /\ req'[j] = req[j]
                                     /\ resp'[j] = resp[j]

LEMMA StartRolloutDoes ==
    ASSUME IInv, NEW i \in Instances, StartRollout(i), Fresh(i)
    PROVE  /\ Alone(i) /\ output' = output /\ req'[i] = req[i] /\ resp'[i] = resp[i]
           /\ inst[i].roll = "idle"
           /\ inst'[i].roll = "wait" /\ inst'[i].running = Requests[i]
           /\ inst'[i].done = {} /\ inst'[i].aborted = <<>>
           /\ inst'[i].loop = inst[i].loop
           /\ gen' = [g \in Groups |-> IF g \in Requests[i] THEN "gen" ELSE gen[g]]
<1>1. inst \in [Instances -> InstanceStates] /\ inst[i] \in InstanceStates
  BY DEF IInv, TypeOK
<1>2. /\ inst' = [inst EXCEPT ![i].roll = "wait", ![i].todo = Requests[i],
                              ![i].running = Requests[i]]
      /\ gen' = [g \in Groups |-> IF g \in Requests[i] THEN "gen" ELSE gen[g]]
      /\ UNCHANGED <<spc, iter, cur, awaited, req, resp, output>>
      /\ inst[i].roll = "idle"
  BY DEF StartRollout, Fresh, OthersUnchanged, schedVars
<1>3. inst'[i] = [inst[i] EXCEPT !.roll = "wait", !.todo = Requests[i],
                                 !.running = Requests[i]]
  BY <1>1, <1>2, Zenon
<1>4. \A j \in Instances : j # i => inst'[j] = inst[j]
  BY <1>1, <1>2
<1>5. /\ inst'[i].roll = "wait" /\ inst'[i].running = Requests[i]
      /\ inst'[i].done = inst[i].done /\ inst'[i].aborted = inst[i].aborted
      /\ inst'[i].loop = inst[i].loop
  BY <1>1, <1>3 DEF InstanceStates
<1>. QED
  BY <1>2, <1>4, <1>5 DEF Alone, Fresh

LEMMA WaitReturnsDoes ==
    ASSUME IInv, NEW i \in Instances, WaitReturns(i)
    PROVE  /\ Alone(i) /\ output' = output /\ gen' = gen
           /\ req'[i] = req[i] /\ resp'[i] = resp[i]
           /\ inst[i].roll = "wait" /\ inst'[i].roll = "process"
           /\ inst'[i].running = inst[i].running /\ inst'[i].done = inst[i].done
           /\ inst'[i].aborted = inst[i].aborted /\ inst'[i].loop = inst[i].loop
<1>1. inst \in [Instances -> InstanceStates] /\ inst[i] \in InstanceStates
  BY DEF IInv, TypeOK
<1>2. /\ inst' = [inst EXCEPT ![i].roll = "process", ![i].todo = Returned(i)]
      /\ UNCHANGED <<spc, iter, cur, awaited, req, resp, output, gen>>
      /\ inst[i].roll = "wait"
  BY DEF WaitReturns, OthersUnchanged, schedVars
<1>3. inst'[i] = [inst[i] EXCEPT !.roll = "process", !.todo = Returned(i)]
  BY <1>1, <1>2, Zenon
<1>4. \A j \in Instances : j # i => inst'[j] = inst[j]
  BY <1>1, <1>2
<1>5. /\ inst'[i].roll = "process" /\ inst'[i].running = inst[i].running
      /\ inst'[i].done = inst[i].done /\ inst'[i].aborted = inst[i].aborted
      /\ inst'[i].loop = inst[i].loop
  BY <1>1, <1>3 DEF InstanceStates
<1>. QED
  BY <1>2, <1>4, <1>5 DEF Alone

LEMMA PutResultDoes ==
    ASSUME IInv, NEW i \in Instances, PutResult(i)
    PROVE  /\ Alone(i) /\ inst' = inst /\ gen' = gen
           /\ req' = req /\ resp' = resp
           /\ \E g \in inst[i].running :
                 /\ gen[g] = "completed" /\ output[g] = 0
                 /\ output' = [output EXCEPT ![g] = 1]
<1>1. /\ output \in [Groups -> Nat] /\ inst[i].todo \subseteq inst[i].running
      /\ inst[i].todo \subseteq Groups
  BY DEF IInv, TypeOK, TalkInv, InstanceInv, InstanceStates
<1>2. PICK g \in inst[i].todo :
        /\ gen[g] = "completed" /\ output' = [output EXCEPT ![g] = @ + 1]
  BY DEF PutResult
<1>3. output[g] = 0
  BY <1>1, <1>2 DEF PutResult, Putting
<1>4. output' = [output EXCEPT ![g] = 1]
  BY <1>1, <1>2, <1>3
<1>5. UNCHANGED <<spc, iter, cur, awaited, req, resp, inst, gen>>
  BY DEF PutResult, OthersUnchanged, schedVars
<1>. QED
  BY <1>1, <1>2, <1>3, <1>4, <1>5 DEF Alone

(* Taking a group off takes it out of the running groups.                  *)
LEMMA TakenOff ==
    ASSUME NEW r \in InstanceStates, NEW g \in Groups
    PROVE  TakeOff(r, g).running = r.running \ {g}
<1> DEFINE left == r.todo \ {g}
           running == r.running \ {g}
<1>1. CASE left # {}
  <2>1. TakeOff(r, g) = [r EXCEPT !.todo = left, !.running = running]
    BY <1>1 DEF TakeOff
  <2>. QED
    BY <2>1 DEF InstanceStates
<1>2. CASE left = {} /\ running # {}
  <2>1. TakeOff(r, g) = [r EXCEPT !.todo = running, !.running = running, !.roll = "wait"]
    BY <1>2 DEF TakeOff
  <2>. QED
    BY <2>1 DEF InstanceStates
<1>3. CASE left = {} /\ running = {}
  <2>1. TakeOff(r, g) = [r EXCEPT !.todo = {}, !.running = {}, !.roll = "notify"]
    BY <1>3 DEF TakeOff
  <2>. QED
    BY <1>3, <2>1 DEF InstanceStates
<1>. QED
  BY <1>1, <1>2, <1>3

LEMMA MarkDoneDoes ==
    ASSUME IInv, NEW i \in Instances, MarkDone(i)
    PROVE  /\ Alone(i) /\ output' = output /\ gen' = gen
           /\ req'[i] = req[i] /\ resp'[i] = resp[i]
           /\ inst[i].roll = "process"
           /\ inst'[i].roll \in {"wait", "process", "notify"}
           /\ \E g \in inst[i].running :
                 /\ output[g] > 0
                 /\ inst'[i].running = inst[i].running \ {g}
                 /\ inst'[i].done = inst[i].done \cup {g}
           /\ inst'[i].aborted = inst[i].aborted /\ inst'[i].loop = inst[i].loop
<1>1. /\ inst \in [Instances -> InstanceStates] /\ inst[i] \in InstanceStates
      /\ inst[i].todo \subseteq inst[i].running /\ inst[i].todo \subseteq Groups
  BY DEF IInv, TypeOK, TalkInv, InstanceInv, InstanceStates
<1>2. PICK g \in Putting(i) :
        inst' = [inst EXCEPT ![i] =
                    [TakeOff(inst[i], g) EXCEPT !.done = @ \cup {g}]]
  BY DEF MarkDone
<1>3. g \in Groups /\ g \in inst[i].running /\ output[g] > 0
  BY <1>1 DEF Putting
<1>4. /\ UNCHANGED <<spc, iter, cur, awaited, req, resp, output, gen>>
      /\ inst[i].roll = "process"
  BY DEF MarkDone, OthersUnchanged, schedVars
<1> DEFINE t == TakeOff(inst[i], g)
<1>5. /\ t \in InstanceStates /\ t.loop = inst[i].loop /\ t.done = inst[i].done
      /\ t.aborted = inst[i].aborted /\ t.roll \in {"wait", "process", "notify"}
  BY <1>1, <1>3, <1>4, TakesOff
<1>6. t.running = inst[i].running \ {g}
  BY <1>1, <1>3, TakenOff
<1> HIDE DEF t
<1>7. inst' = [inst EXCEPT ![i] = [t EXCEPT !.done = @ \cup {g}]]
  BY <1>2 DEF t
<1>8. /\ inst'[i] = [t EXCEPT !.done = @ \cup {g}]
      /\ \A j \in Instances : j # i => inst'[j] = inst[j]
  BY <1>1, <1>7
<1>9. /\ inst'[i].roll = t.roll /\ inst'[i].running = t.running
      /\ inst'[i].done = t.done \cup {g} /\ inst'[i].aborted = t.aborted
      /\ inst'[i].loop = t.loop
  BY <1>5, <1>8 DEF InstanceStates
<1>. QED
  BY <1>3, <1>4, <1>5, <1>6, <1>8, <1>9 DEF Alone

LEMMA MarkAbortedDoes ==
    ASSUME IInv, NEW i \in Instances, MarkAborted(i)
    PROVE  /\ Alone(i) /\ output' = output /\ gen' = gen
           /\ req'[i] = req[i] /\ resp'[i] = resp[i]
           /\ inst[i].roll = "process"
           /\ inst'[i].roll \in {"wait", "process", "notify"}
           /\ \E g \in inst[i].running :
                 /\ gen[g] = "aborted"
                 /\ inst'[i].running = inst[i].running \ {g}
                 /\ inst'[i].aborted = Append(inst[i].aborted, g)
           /\ inst'[i].loop = inst[i].loop
<1>1. /\ inst \in [Instances -> InstanceStates] /\ inst[i] \in InstanceStates
      /\ inst[i].todo \subseteq inst[i].running /\ inst[i].todo \subseteq Groups
  BY DEF IInv, TypeOK, TalkInv, InstanceInv, InstanceStates
<1>2. PICK g \in inst[i].todo :
        /\ gen[g] = "aborted"
        /\ inst' = [inst EXCEPT ![i] =
                    [TakeOff(inst[i], g) EXCEPT !.aborted = Append(@, g)]]
  BY DEF MarkAborted
<1>3. g \in Groups /\ g \in inst[i].running
  BY <1>1
<1>4. /\ UNCHANGED <<spc, iter, cur, awaited, req, resp, output, gen>>
      /\ inst[i].roll = "process"
  BY DEF MarkAborted, OthersUnchanged, schedVars
<1> DEFINE t == TakeOff(inst[i], g)
<1>5. /\ t \in InstanceStates /\ t.loop = inst[i].loop
      /\ t.aborted = inst[i].aborted /\ t.roll \in {"wait", "process", "notify"}
  BY <1>1, <1>3, <1>4, TakesOff
<1>6. t.running = inst[i].running \ {g}
  BY <1>1, <1>3, TakenOff
<1> HIDE DEF t
<1>7. inst' = [inst EXCEPT ![i] = [t EXCEPT !.aborted = Append(@, g)]]
  BY <1>2 DEF t
<1>8. /\ inst'[i] = [t EXCEPT !.aborted = Append(@, g)]
      /\ \A j \in Instances : j # i => inst'[j] = inst[j]
  BY <1>1, <1>7
<1>9. /\ inst'[i].roll = t.roll /\ inst'[i].running = t.running
      /\ inst'[i].aborted = Append(t.aborted, g)
      /\ inst'[i].loop = t.loop
  BY <1>5, <1>8 DEF InstanceStates
<1>. QED
  BY <1>2, <1>3, <1>4, <1>5, <1>6, <1>8, <1>9 DEF Alone

LEMMA NotifiedDoes ==
    ASSUME IInv, NEW i \in Instances, Notified(i)
    PROVE  /\ Alone(i) /\ output' = output /\ gen' = gen
           /\ req'[i] = req[i] /\ resp'[i] = resp[i]
           /\ inst[i].roll = "notify" /\ inst[i].event
           /\ inst'[i].running = inst[i].running /\ inst'[i].loop = inst[i].loop
           /\ \/ /\ inst[i].running # {} /\ inst'[i].roll = "wait"
                 /\ inst'[i].done = inst[i].done /\ inst'[i].aborted = inst[i].aborted
              \/ /\ inst[i].running = {} /\ inst'[i].roll = "offload"
                 /\ inst'[i].done = {} /\ inst'[i].aborted = <<>>
<1>1. inst \in [Instances -> InstanceStates] /\ inst[i] \in InstanceStates
  BY DEF IInv, TypeOK
<1> DEFINE r == WaitNotification(inst[i])
<1>2. r \in InstanceStates
  BY <1>1, Zenon DEF InstanceStates, WaitNotification
<1>3. /\ r.loop = inst[i].loop /\ r.running = inst[i].running
      /\ r.done = inst[i].done /\ r.aborted = inst[i].aborted
  BY <1>1 DEF InstanceStates, WaitNotification
<1>4. inst' = [inst EXCEPT ![i] =
                 IF r.running # {}
                 THEN [r EXCEPT !.roll = "wait", !.todo = r.running]
                 ELSE [r EXCEPT !.roll = "offload", !.done = {}, !.aborted = <<>>,
                                !.event = FALSE]]
  BY DEF Notified
<1>5. /\ UNCHANGED <<spc, iter, cur, awaited, req, resp, output, gen>>
      /\ inst[i].roll = "notify"
  BY DEF Notified, OthersUnchanged, schedVars
<1>10. inst[i].event
  BY DEF Notified
<1> HIDE DEF r
<1>6. \A j \in Instances : j # i => inst'[j] = inst[j]
  BY <1>1, <1>4
<1>7. CASE r.running # {}
  <2>1. inst'[i] = [r EXCEPT !.roll = "wait", !.todo = r.running]
    BY <1>1, <1>4, <1>7
  <2>2. /\ inst'[i].roll = "wait" /\ inst'[i].running = r.running
        /\ inst'[i].loop = r.loop /\ inst'[i].done = r.done
        /\ inst'[i].aborted = r.aborted
    BY <1>2, <2>1 DEF InstanceStates
  <2>. QED
    BY <1>3, <1>5, <1>6, <1>7, <1>10, <2>2 DEF Alone
<1>8. CASE r.running = {}
  <2>1. inst'[i] = [r EXCEPT !.roll = "offload", !.done = {}, !.aborted = <<>>,
                             !.event = FALSE]
    BY <1>1, <1>4, <1>8
  <2>2. /\ inst'[i].roll = "offload" /\ inst'[i].running = r.running
        /\ inst'[i].loop = r.loop /\ inst'[i].done = {} /\ inst'[i].aborted = <<>>
    BY <1>2, <2>1 DEF InstanceStates
  <2>. QED
    BY <1>3, <1>5, <1>6, <1>8, <1>10, <2>2 DEF Alone
<1>. QED
  BY <1>7, <1>8

LEMMA OffloadDoes ==
    ASSUME IInv, NEW i \in Instances, Offload(i)
    PROVE  /\ Alone(i) /\ output' = output /\ gen' = gen /\ req'[i] = req[i]
           /\ resp'[i] # <<>> /\ resp'[i][1].action = "Offloaded"
           /\ inst[i].roll = "offload" /\ inst'[i].roll = "end"
           /\ inst'[i].running = inst[i].running /\ inst'[i].done = inst[i].done
           /\ inst'[i].aborted = inst[i].aborted /\ inst'[i].loop = inst[i].loop
           /\ ~Stays(i) /\ Takes(i) /\ resp[i] = <<>>
<1>1. /\ inst \in [Instances -> InstanceStates] /\ inst[i] \in InstanceStates
      /\ resp \in [Instances -> Seq(Responses)] /\ InstanceInv(i)
  BY DEF IInv, TypeOK, TalkInv
<1>2. /\ inst' = [inst EXCEPT ![i].roll = "end"]
      /\ resp' = [resp EXCEPT ![i] = Append(@, [action |-> "Offloaded"])]
      /\ UNCHANGED <<spc, iter, cur, awaited, req, output, gen>>
      /\ inst[i].roll = "offload"
  BY DEF Offload, OthersUnchanged, schedVars
<1>3. /\ inst'[i] = [inst[i] EXCEPT !.roll = "end"]
      /\ \A j \in Instances : j # i => inst'[j] = inst[j]
  BY <1>1, <1>2
<1>4. /\ inst'[i].roll = "end" /\ inst'[i].running = inst[i].running
      /\ inst'[i].done = inst[i].done /\ inst'[i].aborted = inst[i].aborted
      /\ inst'[i].loop = inst[i].loop
  BY <1>1, <1>3 DEF InstanceStates
<1>5. ~Stays(i) /\ Takes(i) /\ resp[i] = <<>>
  BY <1>1, <1>2 DEF InstanceInv, Talk, Left, Stays, Told
<1>6. /\ resp'[i] = <<[action |-> "Offloaded"]>>
      /\ \A j \in Instances : j # i => resp'[j] = resp[j]
  BY <1>1, <1>2, <1>5
<1>7. resp'[i] # <<>> /\ resp'[i][1].action = "Offloaded"
  BY <1>6
<1>. QED
  BY <1>2, <1>3, <1>4, <1>5, <1>6, <1>7 DEF Alone

(* The main_loop's steps.  A request is only taken while nothing has been  *)
(* answered, and only a Migrate_In leaves one behind it.                   *)
LEMMA GetReportDoes ==
    ASSUME IInv, NEW i \in Instances, MainLoopGet(i), Head(req[i]).action = "Report",
           resp' = [resp EXCEPT ![i] = Append(@, Report(i))], inst' = inst, gen' = gen
    PROVE  /\ Alone(i) /\ output' = output
           /\ Takes(i) /\ Stays(i) /\ Due(i) = {"Report"}
           /\ req[i] # <<>> /\ req[i][1].action = "Report" /\ req'[i] = <<>>
           /\ resp[i] = <<>> /\ resp'[i] # <<>> /\ resp'[i][1] = Report(i)
<1>1. /\ req \in [Instances -> Seq(Messages)] /\ resp \in [Instances -> Seq(Responses)]
      /\ req[i] # <<>> /\ req[i] \in Seq(Messages)
      /\ req' = [req EXCEPT ![i] = Tail(req[i])]
      /\ UNCHANGED <<spc, iter, cur, awaited, output>>
  BY DEF MainLoopGet, IInv, TypeOK, schedVars
<1>2. Head(req[i]) = req[i][1] /\ Tail(req[i]) \in Seq(Messages)
  BY <1>1, TakeRequest
<1>3. /\ "Report" \in Due(i) /\ Tail(req[i]) = <<>>
      /\ Due(i) \in {{"Report"}, {"Migrate_Out"}, {"Finish", "Wait_For_Finish"}}
  BY <1>1, <1>2, RequestDue
<1>4. Takes(i) /\ Stays(i) /\ resp[i] = <<>>
  BY <1>1, HasRequest
<1>5. resp'[i] = Append(<<>>, Report(i))
  BY <1>1, <1>4
<1>6. resp'[i] # <<>> /\ resp'[i][1] = Report(i)
  BY <1>5
<1>7. req'[i] = <<>>
  BY <1>1, <1>3
<1>8. \A j \in Instances : j # i => req'[j] = req[j] /\ resp'[j] = resp[j]
  BY <1>1
<1>. QED
  BY <1>1, <1>2, <1>3, <1>4, <1>6, <1>7, <1>8 DEF Alone

LEMMA GetMigrateInDoes ==
    ASSUME IInv, NEW i \in Instances, MainLoopGet(i), Head(req[i]).action = "Migrate_In",
           MigrateIn(i, Head(req[i]).data), resp' = resp
    PROVE  /\ Alone(i) /\ output' = output
           /\ Takes(i) /\ Stays(i) /\ inst[i].loop = "get"
           /\ req[i] # <<>> /\ req[i][1].action = "Migrate_In"
           /\ req[i][1].data \in Seq(Groups)
           /\ req'[i] # <<>> => req'[i][1].action # "Migrate_In"
           /\ resp'[i] = resp[i] /\ resp[i] = <<>>
           /\ inst'[i].running = inst[i].running \cup ToSet(req[i][1].data)
           /\ inst'[i].roll = inst[i].roll /\ inst'[i].done = inst[i].done
           /\ inst'[i].aborted = inst[i].aborted /\ inst'[i].loop = inst[i].loop
           /\ gen' = [g \in Groups |-> IF g \in ToSet(req[i][1].data) THEN "gen" ELSE gen[g]]
<1>1. /\ req \in [Instances -> Seq(Messages)]
      /\ req[i] # <<>> /\ req[i] \in Seq(Messages)
      /\ req' = [req EXCEPT ![i] = Tail(req[i])]
      /\ UNCHANGED <<spc, iter, cur, awaited, output>>
      /\ inst \in [Instances -> InstanceStates] /\ inst[i] \in InstanceStates
  BY DEF MainLoopGet, IInv, TypeOK, schedVars
<1>2. /\ Head(req[i]) = req[i][1] /\ req[i][1] \in Messages
      /\ Tail(req[i]) \in Seq(Messages)
      /\ Len(req[i]) = 1 => Tail(req[i]) = <<>>
      /\ Len(req[i]) = 2 => Len(Tail(req[i])) = 1 /\ Tail(req[i])[1] = req[i][2]
  BY <1>1, TakeRequest
<1>3. /\ Takes(i) /\ Stays(i) /\ resp[i] = <<>> /\ inst[i].loop = "get"
      /\ Unasked(i) \/ Asked(i)
  BY <1>1, HasRequest
<1>4. req'[i] # <<>> => req'[i][1].action # "Migrate_In"
  <2>1. "Migrate_In" \notin Due(i)
    BY DEF Due
  <2>2. Len(req[i]) = 1 \/ (Len(req[i]) = 2 /\ req[i][2].action # "Migrate_In")
    BY <1>1, <1>3, <2>1 DEF Unasked, Asked
  <2>3. req'[i] = Tail(req[i])
    BY <1>1
  <2>. QED
    BY <1>2, <2>2, <2>3
<1>5. req[i][1].action = "Migrate_In" /\ req[i][1].data \in Seq(Groups)
  BY <1>2, MessageData
<1> DEFINE r == inst[i]
           data == ToSet(req[i][1].data)
           s == [r EXCEPT !.event = r.event \/ NotifiesOnMigrateIn(r),
                          !.running = r.running \cup data]
<1>6. inst' = [inst EXCEPT ![i] = s]
  BY <1>1, <1>2, Zenon DEF MigrateIn
<1>7. gen' = [g \in Groups |-> IF g \in data THEN "gen" ELSE gen[g]]
  BY <1>2 DEF MigrateIn
<1> HIDE DEF data
<1>8. /\ s.roll = r.roll /\ s.running = r.running \cup data
      /\ s.loop = r.loop /\ s.done = r.done /\ s.aborted = r.aborted
  BY <1>1 DEF InstanceStates
<1> HIDE DEF s
<1>9. inst'[i] = s /\ \A j \in Instances : j # i => inst'[j] = inst[j]
  BY <1>1, <1>6
<1>10. \A j \in Instances : j # i => req'[j] = req[j] /\ resp'[j] = resp[j]
  BY <1>1
<1>. QED
  BY <1>1, <1>3, <1>4, <1>5, <1>7, <1>8, <1>9, <1>10 DEF Alone, data

LEMMA GetMigrateOutDoes ==
    ASSUME IInv, NEW i \in Instances, MainLoopGet(i), Head(req[i]).action = "Migrate_Out",
           Abort(i), inst' = [inst EXCEPT ![i].loop = "migrate_out"], resp' = resp
    PROVE  /\ Alone(i) /\ output' = output
           /\ Takes(i) /\ Stays(i) /\ Due(i) = {"Migrate_Out"} /\ inst[i].loop = "get"
           /\ req[i] # <<>> /\ req[i][1].action # "Migrate_In" /\ req'[i] = <<>>
           /\ resp'[i] = resp[i] /\ resp[i] = <<>>
           /\ inst'[i].running = inst[i].running
           /\ inst'[i].roll = inst[i].roll /\ inst'[i].done = inst[i].done
           /\ inst'[i].aborted = inst[i].aborted /\ inst'[i].loop = "migrate_out"
<1>1. /\ req \in [Instances -> Seq(Messages)]
      /\ req[i] # <<>> /\ req[i] \in Seq(Messages)
      /\ req' = [req EXCEPT ![i] = Tail(req[i])]
      /\ UNCHANGED <<spc, iter, cur, awaited, output>>
      /\ inst \in [Instances -> InstanceStates] /\ inst[i] \in InstanceStates
  BY DEF MainLoopGet, IInv, TypeOK, schedVars
<1>2. Head(req[i]) = req[i][1] /\ Tail(req[i]) \in Seq(Messages)
  BY <1>1, TakeRequest
<1>3. /\ "Migrate_Out" \in Due(i) /\ Tail(req[i]) = <<>>
      /\ Due(i) \in {{"Report"}, {"Migrate_Out"}, {"Finish", "Wait_For_Finish"}}
  BY <1>1, <1>2, RequestDue
<1>4. Takes(i) /\ Stays(i) /\ resp[i] = <<>> /\ inst[i].loop = "get"
  BY <1>1, HasRequest
<1>5. /\ inst'[i] = [inst[i] EXCEPT !.loop = "migrate_out"]
      /\ \A j \in Instances : j # i => inst'[j] = inst[j]
  BY <1>1
<1>6. /\ inst'[i].roll = inst[i].roll /\ inst'[i].running = inst[i].running
      /\ inst'[i].done = inst[i].done /\ inst'[i].aborted = inst[i].aborted
      /\ inst'[i].loop = "migrate_out"
  BY <1>1, <1>5 DEF InstanceStates
<1>7. req'[i] = <<>> /\ \A j \in Instances : j # i => req'[j] = req[j] /\ resp'[j] = resp[j]
  BY <1>1, <1>3
<1>. QED
  BY <1>1, <1>2, <1>3, <1>4, <1>5, <1>6, <1>7 DEF Alone

LEMMA GetFinishDoes ==
    ASSUME IInv, NEW i \in Instances, MainLoopGet(i),
           Head(req[i]).action \in {"Finish", "Wait_For_Finish"},
           inst' = [inst EXCEPT ![i].loop = "finish"], gen' = gen, resp' = resp
    PROVE  /\ Alone(i) /\ output' = output
           /\ Takes(i) /\ Stays(i) /\ Due(i) = {"Finish", "Wait_For_Finish"}
           /\ inst[i].loop = "get"
           /\ req[i] # <<>> /\ req[i][1].action # "Migrate_In" /\ req'[i] = <<>>
           /\ resp'[i] = resp[i] /\ resp[i] = <<>>
           /\ inst'[i].running = inst[i].running
           /\ inst'[i].roll = inst[i].roll /\ inst'[i].done = inst[i].done
           /\ inst'[i].aborted = inst[i].aborted /\ inst'[i].loop = "finish"
<1>1. /\ req \in [Instances -> Seq(Messages)]
      /\ req[i] # <<>> /\ req[i] \in Seq(Messages)
      /\ req' = [req EXCEPT ![i] = Tail(req[i])]
      /\ UNCHANGED <<spc, iter, cur, awaited, output>>
      /\ inst \in [Instances -> InstanceStates] /\ inst[i] \in InstanceStates
  BY DEF MainLoopGet, IInv, TypeOK, schedVars
<1>2. Head(req[i]) = req[i][1] /\ Tail(req[i]) \in Seq(Messages)
  BY <1>1, TakeRequest
<1>3. /\ req[i][1].action \in Due(i) /\ Tail(req[i]) = <<>>
      /\ Due(i) \in {{"Report"}, {"Migrate_Out"}, {"Finish", "Wait_For_Finish"}}
  BY <1>1, <1>2, RequestDue
<1>4. Takes(i) /\ Stays(i) /\ resp[i] = <<>> /\ inst[i].loop = "get"
  BY <1>1, HasRequest
<1>5. /\ inst'[i] = [inst[i] EXCEPT !.loop = "finish"]
      /\ \A j \in Instances : j # i => inst'[j] = inst[j]
  BY <1>1
<1>6. /\ inst'[i].roll = inst[i].roll /\ inst'[i].running = inst[i].running
      /\ inst'[i].done = inst[i].done /\ inst'[i].aborted = inst[i].aborted
      /\ inst'[i].loop = "finish"
  BY <1>1, <1>5 DEF InstanceStates
<1>7. req'[i] = <<>> /\ \A j \in Instances : j # i => req'[j] = req[j] /\ resp'[j] = resp[j]
  BY <1>1, <1>3
<1>. QED
  BY <1>1, <1>2, <1>3, <1>4, <1>5, <1>6, <1>7 DEF Alone

LEMMA MigratedOutDoes ==
    ASSUME IInv, NEW i \in Instances, MigratedOut(i)
    PROVE  /\ Alone(i) /\ output' = output /\ gen' = gen
           /\ Takes(i) /\ Stays(i) /\ Due(i) = {"Migrate_Out"}
           /\ inst[i].loop = "migrate_out" /\ inst'[i].loop = "get"
           /\ req'[i] = req[i] /\ req[i] = <<>> /\ resp[i] = <<>>
           /\ resp'[i] # <<>> /\ resp'[i][1].action = "Migrate_Out"
           /\ resp'[i][1].data = inst[i].aborted
           /\ inst[i].running = {} /\ inst'[i].running = {}
           /\ inst'[i].roll = inst[i].roll /\ inst'[i].done = inst[i].done
           /\ inst'[i].aborted = inst[i].aborted
<1>1. /\ inst \in [Instances -> InstanceStates] /\ inst[i] \in InstanceStates
      /\ resp \in [Instances -> Seq(Responses)] /\ InstanceInv(i)
  BY DEF IInv, TypeOK, TalkInv
<1>2. /\ inst[i].loop = "migrate_out" /\ inst[i].running = {}
      /\ UNCHANGED <<spc, iter, cur, awaited, req, output, gen>>
      /\ inst' = [inst EXCEPT ![i].loop = "get"]
      /\ resp' = [resp EXCEPT ![i] =
                     Append(@, [action |-> "Migrate_Out", data |-> inst[i].aborted])]
  BY DEF MigratedOut, NoRunningTask, schedVars
<1>3. /\ Takes(i) /\ Stays(i) /\ Due(i) = {"Migrate_Out"}
      /\ req[i] = <<>> /\ resp[i] = <<>>
  BY <1>1, <1>2 DEF InstanceInv, Talk, Left, Told
<1>4. /\ inst'[i] = [inst[i] EXCEPT !.loop = "get"]
      /\ \A j \in Instances : j # i => inst'[j] = inst[j] /\ resp'[j] = resp[j]
  BY <1>1, <1>2
<1>5. /\ inst'[i].roll = inst[i].roll /\ inst'[i].running = inst[i].running
      /\ inst'[i].done = inst[i].done /\ inst'[i].aborted = inst[i].aborted
      /\ inst'[i].loop = "get"
  BY <1>1, <1>4 DEF InstanceStates
<1>6. resp'[i] = <<[action |-> "Migrate_Out", data |-> inst[i].aborted]>>
  BY <1>1, <1>2, <1>3
<1>7. /\ resp'[i] # <<>> /\ resp'[i][1].action = "Migrate_Out"
      /\ resp'[i][1].data = inst[i].aborted
  BY <1>6
<1>. QED
  BY <1>2, <1>3, <1>4, <1>5, <1>7 DEF Alone

LEMMA NotifyFinishDoes ==
    ASSUME IInv, NEW i \in Instances, NotifyFinish(i)
    PROVE  /\ Alone(i) /\ output' = output /\ gen' = gen
           /\ Takes(i) /\ Stays(i) /\ Due(i) = {"Finish", "Wait_For_Finish"}
           /\ inst[i].loop = "finish" /\ inst'[i].loop = "get"
           /\ req'[i] = req[i] /\ req[i] = <<>> /\ resp'[i] = resp[i] /\ resp[i] = <<>>
           /\ inst'[i].running = inst[i].running
           /\ inst'[i].roll = inst[i].roll /\ inst'[i].done = inst[i].done
           /\ inst'[i].aborted = inst[i].aborted
<1>1. /\ inst \in [Instances -> InstanceStates] /\ inst[i] \in InstanceStates
      /\ InstanceInv(i)
  BY DEF IInv, TypeOK, TalkInv
<1>2. /\ inst[i].loop = "finish" /\ inst[i].running = {}
      /\ UNCHANGED <<spc, iter, cur, awaited, req, resp, output, gen>>
      /\ inst' = [inst EXCEPT ![i].loop = "get", ![i].event = TRUE]
  BY DEF NotifyFinish, NoRunningTask, schedVars
<1>3. /\ Takes(i) /\ Stays(i) /\ Due(i) = {"Finish", "Wait_For_Finish"}
      /\ req[i] = <<>> /\ resp[i] = <<>>
  BY <1>1, <1>2 DEF InstanceInv, Talk, Left, Told
<1>4. inst'[i] = [inst[i] EXCEPT !.loop = "get", !.event = TRUE]
  BY <1>1, <1>2, Zenon
<1>5. \A j \in Instances : j # i => inst'[j] = inst[j]
  BY <1>1, <1>2
<1>6. /\ inst'[i].roll = inst[i].roll /\ inst'[i].running = inst[i].running
      /\ inst'[i].done = inst[i].done /\ inst'[i].aborted = inst[i].aborted
      /\ inst'[i].loop = "get"
  BY <1>1, <1>4 DEF InstanceStates
<1>. QED
  BY <1>2, <1>3, <1>5, <1>6 DEF Alone

-----------------------------------------------------------------------------
(* While the groups are being launched, every instance is there, is asked  *)
(* for reports only and has not been told to finish.                       *)
LEMMA WhileLaunching ==
    ASSUME IInv, Launching, NEW i \in Instances
    PROVE  /\ Takes(i) /\ Stays(i) /\ inst[i].loop = "get"
           /\ Due(i) \subseteq {"Report"}
           /\ req[i] # <<>> => resp[i] = <<>>
           /\ req[i] = <<>> \/ req[i][1].action = "Report" \/ req[i][1].action = "Migrate_In"
           /\ spc = "pre_process" => resp[i] = <<>>
           /\ spc = "pre_process" /\ req[i] # <<>> => req[i][1].action = "Migrate_In"
<1>1. TypeOK /\ BooksInv /\ InstanceInv(i)
  BY DEF IInv, TalkInv
<1>2. CASE spc = "pre_process"
  <2>1. Takes(i) /\ Due(i) = {}
    BY <1>2 DEF Takes, Due
  <2>2. Stays(i) /\ inst[i].loop = "get" /\ resp[i] = <<>> /\ Unasked(i)
    BY <1>1, <2>1 DEF InstanceInv, Talk, Asked
  <2>. QED
    BY <2>1, <2>2 DEF Unasked, IsMigrateIn
<1>3. CASE spc = "report" /\ iter = -1
  <2>1. Alive = Instances
    BY <1>1, <1>3, AliveShape DEF BooksInv
  <2>2. Takes(i) /\ Due(i) = {"Report"} /\ spc # "pre_process"
    BY <1>3, <2>1 DEF Takes, Due
  <2>3. Stays(i) /\ inst[i].loop = "get"
    BY <1>1, <2>2 DEF InstanceInv, Talk
  <2>4. req[i] # <<>> => Asked(i) /\ resp[i] = <<>>
    BY <2>2, HasRequest DEF Unasked
  <2>. QED
    BY <2>2, <2>3, <2>4 DEF Asked, IsMigrateIn
<1>. QED
  BY <1>2, <1>3 DEF Launching

(* A step of one instance changes its part of StartInv only.               *)
LEMMA AloneStart ==
    ASSUME StartInv, NEW i \in Instances, Alone(i), FreshInv(i)',
           Launching => \A g \in Groups : gen'[g] # "aborted"
    PROVE  StartInv'
<1>1. Launching' <=> Launching
  BY DEF Launching, Alone
<1>2. ASSUME NEW j \in Instances, j # i PROVE FreshInv(j)'
  <2>1. /\ inst'[j] = inst[j] /\ req'[j] = req[j] /\ resp'[j] = resp[j] /\ FreshInv(j)
    BY <1>2 DEF Alone, StartInv
  <2>2. (Fresh(j)' <=> Fresh(j)) /\ (LaunchInv(j)' <=> LaunchInv(j))
    BY <2>1 DEF Fresh, LaunchInv, HasOwn
  <2>. QED
    BY <1>1, <2>1, <2>2 DEF FreshInv
<1>. QED
  BY <1>1, <1>2 DEF StartInv

(* One that neither takes nor sends a message.                             *)
LEMMA QuietStart ==
    ASSUME StartInv, NEW i \in Instances, Alone(i), gen' = gen,
           req'[i] = req[i], resp'[i] = resp[i],
           inst[i].roll # "idle", inst'[i].roll \notin {"idle", "failed"},
           inst'[i].roll \in {"offload", "end"} => Fresh(i)',
           Launching => HasOwn(i)'
    PROVE  StartInv'
<1>1. Launching' <=> Launching
  BY DEF Launching, Alone
<1>2. FreshInv(i)
  BY DEF StartInv
<1>3. Launching => LaunchInv(i)'
  BY <1>2 DEF FreshInv, LaunchInv
<1>4. FreshInv(i)'
  BY <1>1, <1>3 DEF FreshInv
<1>5. Launching => \A g \in Groups : gen'[g] # "aborted"
  BY DEF StartInv
<1>. QED
  BY <1>4, <1>5, AloneStart

LEMMA StartRolloutStart ==
    ASSUME IInv, StartInv, NEW i \in Instances, StartRollout(i)
    PROVE  StartInv'
<1>1. FreshInv(i) /\ inst[i].roll = "idle"
  BY DEF StartInv, StartRollout
<1>2. Fresh(i) /\ Launching /\ LaunchInv(i)
  BY <1>1 DEF FreshInv
<1>3. /\ Alone(i) /\ req'[i] = req[i] /\ resp'[i] = resp[i]
      /\ inst'[i].roll = "wait" /\ inst'[i].running = Requests[i]
      /\ inst'[i].done = {} /\ inst'[i].aborted = <<>>
      /\ gen' = [g \in Groups |-> IF g \in Requests[i] THEN "gen" ELSE gen[g]]
  BY <1>2, StartRolloutDoes
<1>4. Launching'
  BY <1>2, <1>3 DEF Alone, Launching
<1>5. HasOwn(i)'
  BY <1>3 DEF HasOwn
<1>6. FreshInv(i)'
  BY <1>2, <1>3, <1>4, <1>5 DEF FreshInv, LaunchInv
<1>7. \A g \in Groups : gen'[g] # "aborted"
  BY <1>2, <1>3 DEF StartInv
<1>. QED
  BY <1>3, <1>6, <1>7, AloneStart

LEMMA WaitReturnsStart ==
    ASSUME IInv, StartInv, NEW i \in Instances, WaitReturns(i)
    PROVE  StartInv'
<1>1. /\ Alone(i) /\ gen' = gen
      /\ req'[i] = req[i] /\ resp'[i] = resp[i]
      /\ inst[i].roll = "wait" /\ inst'[i].roll = "process"
      /\ inst'[i].running = inst[i].running /\ inst'[i].done = inst[i].done
      /\ inst'[i].aborted = inst[i].aborted
  BY WaitReturnsDoes
<1>2. FreshInv(i)
  BY DEF StartInv
<1>3. Launching => HasOwn(i)'
  BY <1>1, <1>2 DEF FreshInv, LaunchInv, HasOwn
<1>. QED
  BY <1>1, <1>3, QuietStart

LEMMA PutResultStart ==
    ASSUME IInv, StartInv, NEW i \in Instances, PutResult(i)
    PROVE  StartInv'
<1>1. /\ Alone(i) /\ inst' = inst /\ gen' = gen /\ req' = req /\ resp' = resp
      /\ inst[i].roll = "process"
  BY PutResultDoes DEF PutResult
<1>2. FreshInv(i)
  BY DEF StartInv
<1>3. Launching => HasOwn(i)'
  BY <1>1, <1>2 DEF FreshInv, LaunchInv, HasOwn
<1>. QED
  BY <1>1, <1>3, QuietStart

LEMMA MarkDoneStart ==
    ASSUME IInv, StartInv, NEW i \in Instances, MarkDone(i)
    PROVE  StartInv'
<1>1. /\ Alone(i) /\ gen' = gen
      /\ req'[i] = req[i] /\ resp'[i] = resp[i]
      /\ inst[i].roll = "process"
      /\ inst'[i].roll \in {"wait", "process", "notify"}
      /\ \E g \in inst[i].running :
            /\ inst'[i].running = inst[i].running \ {g}
            /\ inst'[i].done = inst[i].done \cup {g}
      /\ inst'[i].aborted = inst[i].aborted
  BY MarkDoneDoes
<1>2. FreshInv(i)
  BY DEF StartInv
<1>3. inst'[i].running \cup inst'[i].done = inst[i].running \cup inst[i].done
  BY <1>1
<1>4. Launching => HasOwn(i)'
  BY <1>1, <1>2, <1>3 DEF FreshInv, LaunchInv, HasOwn
<1>. QED
  BY <1>1, <1>4, QuietStart

LEMMA MarkAbortedStart ==
    ASSUME IInv, StartInv, NEW i \in Instances, MarkAborted(i)
    PROVE  StartInv'
<1>1. /\ Alone(i) /\ gen' = gen
      /\ req'[i] = req[i] /\ resp'[i] = resp[i]
      /\ inst[i].roll = "process"
      /\ inst'[i].roll \in {"wait", "process", "notify"}
      /\ \E g \in inst[i].running : gen[g] = "aborted"
  BY MarkAbortedDoes
<1>2. inst[i].running \subseteq Groups
  BY DEF IInv, TypeOK, InstanceStates
<1>3. ~Launching
  BY <1>1, <1>2 DEF StartInv
<1>. QED
  BY <1>1, <1>3, QuietStart

LEMMA NotifiedStart ==
    ASSUME IInv, StartInv, NEW i \in Instances, Notified(i)
    PROVE  StartInv'
<1>1. /\ Alone(i) /\ gen' = gen
      /\ req'[i] = req[i] /\ resp'[i] = resp[i]
      /\ inst[i].roll = "notify" /\ inst[i].event
      /\ inst'[i].running = inst[i].running
      /\ \/ /\ inst[i].running # {} /\ inst'[i].roll = "wait"
            /\ inst'[i].done = inst[i].done /\ inst'[i].aborted = inst[i].aborted
         \/ /\ inst[i].running = {} /\ inst'[i].roll = "offload"
            /\ inst'[i].done = {} /\ inst'[i].aborted = <<>>
  BY NotifiedDoes
<1>2. FreshInv(i)
  BY DEF StartInv
<1>3. Launching => inst[i].running # {}
  BY <1>1, WhileLaunching DEF Stays
<1>4. inst'[i].roll \in {"offload", "end"} => Fresh(i)'
  BY <1>1 DEF Fresh
<1>5. Launching => HasOwn(i)'
  BY <1>1, <1>2, <1>3 DEF FreshInv, LaunchInv, HasOwn
<1>. QED
  BY <1>1, <1>4, <1>5, QuietStart

LEMMA OffloadStart ==
    ASSUME IInv, StartInv, NEW i \in Instances, Offload(i)
    PROVE  StartInv'
<1>1. /\ Alone(i) /\ gen' = gen /\ ~Stays(i)
      /\ inst[i].roll = "offload" /\ inst'[i].roll = "end"
      /\ inst'[i].running = inst[i].running /\ inst'[i].done = inst[i].done
      /\ inst'[i].aborted = inst[i].aborted
  BY OffloadDoes
<1>2. ~Launching /\ ~Launching'
  BY <1>1, WhileLaunching DEF Alone, Launching
<1>3. FreshInv(i)
  BY DEF StartInv
<1>4. FreshInv(i)'
  BY <1>1, <1>2, <1>3 DEF FreshInv, Fresh
<1>. QED
  BY <1>1, <1>2, <1>4, AloneStart

LEMMA GenerateStart ==
    ASSUME IInv, StartInv, NEW g \in Groups, Generate(g)
    PROVE  StartInv'
<1>1. UNCHANGED <<spc, iter, cur, awaited, inst, req, resp>>
  BY DEF Generate, schedVars
<1>2. PICK i \in Instances : TRUE
  BY ConfigAssumption DEF Instances
<1>3. Alone(i)
  BY <1>1 DEF Alone
<1>4. FreshInv(i)'
  BY <1>1 DEF StartInv, FreshInv, Launching, LaunchInv, Fresh, HasOwn
<1>5. gen \in [Groups -> {"new", "gen", "completed", "aborted"}]
  BY DEF IInv, TypeOK
<1>6. Launching => \A h \in Groups : gen'[h] # "aborted"
  BY <1>5 DEF StartInv, Generate
<1>. QED
  BY <1>3, <1>4, <1>6, AloneStart

LEMMA GetReportStart ==
    ASSUME IInv, StartInv, NEW i \in Instances,
           MainLoopGet(i), Head(req[i]).action = "Report",
           resp' = [resp EXCEPT ![i] = Append(@, Report(i))], inst' = inst, gen' = gen
    PROVE  StartInv'
<1>1. /\ Alone(i) /\ req'[i] = <<>> /\ resp'[i][1] = Report(i)
  BY GetReportDoes
<1>2. FreshInv(i)
  BY DEF StartInv
<1>3. ASSUME Launching PROVE LaunchInv(i)'
  <2>1. Report(i).total = Cardinality(inst[i].running \cup inst[i].done)
    BY DEF Report
  <2>2. inst[i].roll = "idle" => Report(i).total = 0
    <3>1. Cardinality({}) = 0
      BY FS_EmptySet
    <3>. QED
      BY <1>2, <2>1, <3>1 DEF FreshInv, Fresh
  <2>3. inst[i].roll # "idle" => Report(i).total = Cardinality(Requests[i])
    BY <1>2, <1>3, <2>1 DEF FreshInv, LaunchInv, HasOwn
  <2>4. Cardinality(Requests[i]) \in Nat
    BY RequestsAssumption, FS_Subset, FS_CardinalityType
  <2>5. Report(i).total <= Cardinality(Requests[i])
    BY <2>2, <2>3, <2>4
  <2>6. inst[i].roll # "idle" => HasOwn(i)'
    BY <1>2, <1>3 DEF FreshInv, LaunchInv, HasOwn
  <2>. QED
    BY <1>1, <2>2, <2>5, <2>6 DEF LaunchInv
<1>4. FreshInv(i)'
  <2>1. (Launching' <=> Launching) /\ (Fresh(i)' <=> Fresh(i))
    BY <1>1 DEF Alone, Launching, Fresh
  <2>. QED
    BY <1>2, <1>3, <2>1 DEF FreshInv
<1>5. Launching => \A g \in Groups : gen'[g] # "aborted"
  BY DEF StartInv
<1>. QED
  BY <1>1, <1>4, <1>5, AloneStart

(* The other requests are not made while groups are being launched.        *)
LEMMA LaterStart ==
    ASSUME StartInv, NEW i \in Instances, Alone(i), ~Launching, Stays(i),
           inst'[i].roll = inst[i].roll
    PROVE  StartInv'
<1>1. ~Launching'
  BY DEF Alone, Launching
<1>2. FreshInv(i)
  BY DEF StartInv
<1>3. FreshInv(i)'
  BY <1>1, <1>2 DEF FreshInv, Stays
<1>. QED
  BY <1>3, AloneStart

LEMMA MainLoopStart ==
    ASSUME IInv, StartInv, NEW i \in Instances, MainLoop(i)
    PROVE  StartInv'
<1>1. CASE MainLoopGet(i)
  <2>1. CASE /\ Head(req[i]).action = "Report"
             /\ resp' = [resp EXCEPT ![i] = Append(@, Report(i))]
             /\ UNCHANGED <<inst, gen>>
    BY <1>1, <2>1, GetReportStart
  <2>2. CASE /\ Head(req[i]).action = "Migrate_In"
             /\ MigrateIn(i, Head(req[i]).data)
             /\ UNCHANGED resp
    <3>1. /\ Alone(i) /\ Stays(i) /\ req[i] # <<>> /\ req[i][1].action = "Migrate_In"
          /\ inst'[i].roll = inst[i].roll
      BY <1>1, <2>2, GetMigrateInDoes
    <3>2. ~Launching
      BY <3>1 DEF StartInv, FreshInv, LaunchInv
    <3>. QED
      BY <3>1, <3>2, LaterStart
  <2>3. CASE /\ Head(req[i]).action = "Migrate_Out"
             /\ Abort(i)
             /\ inst' = [inst EXCEPT ![i].loop = "migrate_out"]
             /\ UNCHANGED resp
    <3>1. /\ Alone(i) /\ Stays(i) /\ Due(i) = {"Migrate_Out"}
          /\ inst'[i].roll = inst[i].roll
      BY <1>1, <2>3, GetMigrateOutDoes
    <3>2. ~Launching
      BY <3>1, WhileLaunching
    <3>. QED
      BY <3>1, <3>2, LaterStart
  <2>4. CASE /\ Head(req[i]).action \in {"Finish", "Wait_For_Finish"}
             /\ inst' = [inst EXCEPT ![i].loop = "finish"]
             /\ UNCHANGED <<gen, resp>>
    <3>1. /\ Alone(i) /\ Stays(i) /\ Due(i) = {"Finish", "Wait_For_Finish"}
          /\ inst'[i].roll = inst[i].roll
      BY <1>1, <2>4, GetFinishDoes
    <3>2. ~Launching
      BY <3>1, WhileLaunching
    <3>. QED
      BY <3>1, <3>2, LaterStart
  <2>. QED
    BY <1>1, <2>1, <2>2, <2>3, <2>4, Zenon DEF MainLoopGet
<1>2. CASE MigratedOut(i)
  <2>1. /\ Alone(i) /\ Stays(i) /\ Due(i) = {"Migrate_Out"}
        /\ inst'[i].roll = inst[i].roll
    BY <1>2, MigratedOutDoes
  <2>2. ~Launching
    BY <2>1, WhileLaunching
  <2>. QED
    BY <2>1, <2>2, LaterStart
<1>3. CASE NotifyFinish(i)
  <2>1. /\ Alone(i) /\ Stays(i) /\ Due(i) = {"Finish", "Wait_For_Finish"}
        /\ inst'[i].roll = inst[i].roll
    BY <1>3, NotifyFinishDoes
  <2>2. ~Launching
    BY <2>1, WhileLaunching
  <2>. QED
    BY <2>1, <2>2, LaterStart
<1>. QED
  BY <1>1, <1>2, <1>3 DEF MainLoop

(* The actor's and the inference's steps, and stuttering.                  *)
LEMMA ElsewhereStart ==
    ASSUME StartInv, UNCHANGED <<spc, iter, inst, gen, req, resp>>
    PROVE  StartInv'
  BY DEF StartInv, FreshInv, Launching, LaunchInv, Fresh, HasOwn

(* When the global step is over every instance has left, with nothing.     *)
LEMMA AllLeft ==
    ASSUME IInv, spc = "done", NEW i \in Instances
    PROVE  Left(i)
<1>1. TypeOK /\ BooksInv /\ InstanceInv(i)
  BY DEF IInv, TalkInv
<1>2. ~Takes(i)
  BY <1>1, ConfigAssumption DEF BooksInv, Takes, Alive, Offset, Instances
<1>. QED
  BY <1>1, <1>2 DEF InstanceInv, Talk

LEMMA NextRoundDoes ==
    ASSUME IInv, NextRound, NEW i \in Instances
    PROVE  /\ Left(i) /\ req'[i] = <<>> /\ resp'[i] = <<>>
           /\ inst'[i].roll = "idle" /\ inst'[i].running = inst[i].running
           /\ inst'[i].done = inst[i].done /\ inst'[i].aborted = inst[i].aborted
           /\ inst'[i].loop = "get"
<1>1. Left(i)
  BY AllLeft DEF NextRound
<1>2. inst[i] \in InstanceStates
  BY DEF IInv, TypeOK
<1>3. /\ inst'[i] = [inst[i] EXCEPT !.roll = "idle"] /\ req' = req /\ resp' = resp
  BY DEF NextRound
<1>4. /\ inst'[i].roll = "idle" /\ inst'[i].running = inst[i].running
      /\ inst'[i].done = inst[i].done /\ inst'[i].aborted = inst[i].aborted
      /\ inst'[i].loop = inst[i].loop
  BY <1>2, <1>3 DEF InstanceStates
<1>. QED
  BY <1>1, <1>3, <1>4 DEF Left

LEMMA NextRoundStart ==
    ASSUME IInv, StartInv, NextRound
    PROVE  StartInv'
<1>1. spc' = "pre_process" /\ gen' = [g \in Groups |-> "new"]
  BY DEF NextRound
<1>2. Launching' /\ \A g \in Groups : gen'[g] # "aborted"
  BY <1>1 DEF Launching
<1>3. ASSUME NEW i \in Instances PROVE FreshInv(i)'
  <2>1. /\ Left(i) /\ req'[i] = <<>> /\ resp'[i] = <<>>
        /\ inst'[i].roll = "idle" /\ inst'[i].running = inst[i].running
        /\ inst'[i].done = inst[i].done /\ inst'[i].aborted = inst[i].aborted
    BY NextRoundDoes
  <2>2. FreshInv(i)
    BY DEF StartInv
  <2>3. Fresh(i)'
    BY <2>1, <2>2 DEF FreshInv, Left, Fresh
  <2>. QED
    BY <1>2, <2>1, <2>3 DEF FreshInv, LaunchInv
<1>. QED
  BY <1>2, <1>3 DEF StartInv

(* Once the groups have been launched the scheduler's steps leave StartInv *)
(* alone.                                                                  *)
LEMMA LaunchedStart ==
    ASSUME StartInv, ~Launching, ~Launching', inst' = inst
    PROVE  StartInv'
  BY DEF StartInv, FreshInv, Fresh

LEMMA RolloutPreProcessStart ==
    ASSUME UsePreProcess, IInv, StartInv, RolloutPreProcess
    PROVE  StartInv'
<1>1. /\ spc = "pre_process" /\ spc' = "report" /\ UNCHANGED <<iter, resp, inst, gen>>
      /\ req' = [i \in Instances |-> Append(req[i], [action |-> "Report"])]
  BY DEF RolloutPreProcess, instVars
<1>2. iter = -1
  BY <1>1 DEF IInv, BooksInv
<1>3. Launching /\ Launching'
  BY <1>1, <1>2 DEF Launching
<1>4. ASSUME NEW i \in Instances PROVE FreshInv(i)'
  <2>1. FreshInv(i) /\ LaunchInv(i)
    BY <1>3 DEF StartInv, FreshInv
  <2>2. req[i] = <<>>
    BY <1>1, <1>3, <2>1, WhileLaunching DEF LaunchInv
  <2>3. req'[i] = Append(<<>>, [action |-> "Report"])
    BY <1>1, <2>2
  <2>4. req'[i][1].action = "Report"
    BY <2>3
  <2>5. (Fresh(i)' <=> Fresh(i)) /\ (HasOwn(i)' <=> HasOwn(i))
    BY <1>1 DEF Fresh, HasOwn
  <2>. QED
    BY <1>1, <1>3, <2>1, <2>4, <2>5 DEF FreshInv, LaunchInv
<1>. QED
  BY <1>1, <1>3, <1>4 DEF StartInv

(* Reported totals that are each at most the instance's share, and one of  *)
(* them 0, do not add up to all groups.                                    *)
LEMMA NotAllTasks ==
    ASSUME NEW f, \A i \in Instances : f[i] \in Nat /\ f[i] <= Cardinality(Requests[i]),
           NEW j \in Instances, f[j] = 0
    PROVE  Sum(Instances, f) < Cardinality(Groups)
<1> DEFINE U == UNION {{i} \X (1..f[i]) : i \in Instances}
           Rest == Groups \ Requests[j]
           size(i) == Cardinality(Requests[i])
           b == [i \in Instances |-> CHOOSE h : h \in Bijection(1..size(i), Requests[i])]
           m == [u \in U |-> b[u[1]][u[2]]]
<1>1. ASSUME NEW i \in Instances
      PROVE  /\ b[i] \in [1..size(i) -> Requests[i]] /\ size(i) \in Nat
             /\ \A k, l \in 1..size(i) : b[i][k] = b[i][l] => k = l
  <2>1. IsFiniteSet(Requests[i])
    BY RequestsAssumption, FS_Subset
  <2>2. size(i) \in Nat /\ ExistsBijection(1..size(i), Requests[i])
    BY <2>1, FS_CardinalityType
  <2>3. PICK h : h \in Bijection(1..size(i), Requests[i])
    BY <2>2 DEF ExistsBijection
  <2>4. b[i] \in Bijection(1..size(i), Requests[i])
    BY <2>3
  <2> HIDE DEF b, size
  <2>. QED
    BY <2>2, <2>4, Fun_BijectionProperties
<1>2. ASSUME NEW u \in U
      PROVE  \E i \in Instances : \E k \in 1..f[i] : u = <<i, k>> /\ i # j
                                                     /\ k \in 1..size(i)
  <2>1. PICK i \in Instances : u \in {i} \X (1..f[i])
    OBVIOUS
  <2>2. PICK k \in 1..f[i] : u = <<i, k>>
    BY <2>1
  <2>3. size(i) \in Nat
    BY <1>1
  <2>4. i # j /\ k \in 1..size(i)
    <3>1. f[i] \in Nat /\ f[i] <= size(i)
      OBVIOUS
    <3> HIDE DEF size
    <3>. QED
      BY <2>2, <2>3, <3>1
  <2>. QED
    BY <2>2, <2>4
<1> HIDE DEF U, b, size
<1>3. m \in [U -> Rest]
  <2>1. ASSUME NEW u \in U PROVE b[u[1]][u[2]] \in Rest
    <3>1. PICK i \in Instances : \E k \in 1..f[i] : u = <<i, k>> /\ i # j /\ k \in 1..size(i)
      BY <1>2
    <3>2. PICK k \in 1..f[i] : u = <<i, k>> /\ i # j /\ k \in 1..size(i)
      BY <3>1
    <3>3. b[i][k] \in Requests[i]
      BY <1>1, <3>2
    <3>4. Requests[i] \subseteq Groups /\ Requests[i] \cap Requests[j] = {}
      BY <3>2, RequestsAssumption
    <3>. QED
      BY <3>2, <3>3, <3>4
  <2>. QED
    BY <2>1
<1>4. ASSUME NEW u \in U, NEW v \in U, m[u] = m[v] PROVE u = v
  <2>1. PICK i \in Instances : \E k \in 1..f[i] : u = <<i, k>> /\ i # j /\ k \in 1..size(i)
    BY <1>2
  <2>2. PICK k \in 1..f[i] : u = <<i, k>> /\ i # j /\ k \in 1..size(i)
    BY <2>1
  <2>3. PICK n \in Instances : \E l \in 1..f[n] : v = <<n, l>> /\ n # j /\ l \in 1..size(n)
    BY <1>2
  <2>4. PICK l \in 1..f[n] : v = <<n, l>> /\ n # j /\ l \in 1..size(n)
    BY <2>3
  <2>5. b[i][k] = b[n][l]
    BY <1>4, <2>2, <2>4
  <2>6. b[i][k] \in Requests[i] /\ b[n][l] \in Requests[n]
    BY <1>1, <2>2, <2>4
  <2>7. i = n
    BY <2>5, <2>6, RequestsAssumption
  <2>8. k = l
    BY <1>1, <2>2, <2>4, <2>5, <2>7
  <2>. QED
    BY <2>2, <2>4, <2>7, <2>8
<1> HIDE DEF m
<1>5. m \in Injection(U, Rest)
  BY <1>3, <1>4, Fun_IsInj
<1>6. /\ IsFiniteSet(Rest) /\ Cardinality(Rest) <= Cardinality(Groups)
      /\ Cardinality(Groups) = Cardinality(Rest) => Groups = Rest
  BY RequestsAssumption, FS_Subset
<1>7. Groups # Rest
  BY RequestsAssumption
<1>8. IsFiniteSet(U) /\ Cardinality(U) <= Cardinality(Rest)
  BY <1>5, <1>6, FS_Injection
<1>9. Cardinality(U) \in Nat /\ Cardinality(Rest) \in Nat /\ Cardinality(Groups) \in Nat
  BY <1>6, <1>8, RequestsAssumption, FS_CardinalityType
<1>10. Sum(Instances, f) = Cardinality(U)
  BY DEF Sum, U
<1> HIDE DEF Rest
<1>. QED
  BY <1>6, <1>7, <1>8, <1>9, <1>10

(* So when the totals add up, every instance has launched its groups.      *)
LEMMA AllLaunched ==
    ASSUME IInv, StartInv, spc = "report", iter = -1, Answered(Alive),
           PreReady(TotalTasks, RunningTasks), NEW j \in Instances
    PROVE  inst[j].roll # "idle"
<1> SUFFICES ASSUME inst[j].roll = "idle" PROVE FALSE
  OBVIOUS
<1>1. Alive = Instances
  BY AliveShape DEF IInv, BooksInv
<1> DEFINE f == [i \in Instances |-> Head(resp[i]).total]
<1>2. ASSUME NEW i \in Instances
      PROVE  /\ f[i] \in Nat /\ f[i] <= Cardinality(Requests[i])
             /\ inst[i].roll = "idle" => f[i] = 0
  <2>1. Due(i) = {"Report"} /\ resp[i] # <<>>
    BY <1>1 DEF Due, Answered
  <2>2. Head(resp[i]) \in Responses /\ Head(resp[i]).action = "Report"
    BY <2>1, HasAnswered
  <2>3. Head(resp[i]).total \in Nat
    BY <2>2 DEF Responses
  <2>4. Head(resp[i]) = resp[i][1]
    BY <2>1 DEF IInv, TypeOK
  <2>5. LaunchInv(i)
    BY DEF StartInv, FreshInv, Launching
  <2>. QED
    BY <2>1, <2>3, <2>4, <2>5 DEF LaunchInv
<1>3. TotalTasks = Sum(Instances, f)
  BY <1>1 DEF TotalTasks
<1> HIDE DEF f
<1>4. Sum(Instances, f) < Cardinality(Groups)
  BY <1>2, NotAllTasks
<1>5. Cardinality(Groups) \in Nat
  BY RequestsAssumption, FS_CardinalityType
<1>. QED
  BY <1>3, <1>4, <1>5 DEF PreReady

LEMMA PreReportsStart ==
    ASSUME IInv, StartInv, PreReports
    PROVE  StartInv'
<1>1. /\ spc = "report" /\ iter = -1 /\ Answered(Alive) /\ Gather(Alive)
      /\ UNCHANGED <<iter, inst, gen>>
  BY DEF PreReports, instVars
<1>2. Launching
  BY <1>1 DEF Launching
<1>3. CASE PreReady(TotalTasks, RunningTasks)
  <2>1. spc' = "migrate_out"
    BY <1>3 DEF PreReports, Migrate
  <2>2. ~Launching'
    BY <2>1 DEF Launching
  <2>3. \A i \in Instances : inst[i].roll # "idle"
    BY <1>1, <1>3, AllLaunched
  <2>. QED
    BY <1>1, <2>2, <2>3 DEF StartInv, FreshInv, Fresh
<1>4. CASE ~PreReady(TotalTasks, RunningTasks)
  <2>1. spc' = "report" /\ Scatter(Alive, "Report")
    BY <1>4 DEF PreReports, AskReports
  <2>2. Launching'
    BY <1>1, <2>1 DEF Launching
  <2>3. Alive = Instances
    BY <1>1, AliveShape DEF IInv, BooksInv
  <2>4. ASSUME NEW i \in Instances PROVE FreshInv(i)'
    <3>1. Due(i) = {"Report"} /\ resp[i] # <<>>
      BY <1>1, <2>3 DEF Due, Answered
    <3>2. Tail(resp[i]) = <<>> /\ req[i] = <<>>
      BY <3>1, HasAnswered
    <3>3. resp'[i] = <<>>
      BY <1>1, <2>3, <3>2 DEF Gather
    <3>4. req'[i] = Append(<<>>, [action |-> "Report"])
      BY <2>1, <2>3, <3>2 DEF Scatter
    <3>5. req'[i][1].action = "Report"
      BY <3>4
    <3>6. FreshInv(i) /\ (Fresh(i)' <=> Fresh(i)) /\ (HasOwn(i)' <=> HasOwn(i))
      BY <1>1 DEF StartInv, Fresh, HasOwn
    <3>. QED
      BY <1>1, <1>2, <2>2, <3>3, <3>5, <3>6 DEF FreshInv, LaunchInv
  <2>. QED
    BY <1>1, <1>2, <2>2, <2>4 DEF StartInv
<1>. QED
  BY <1>3, <1>4

LEMMA SchedulerStart ==
    ASSUME UsePreProcess, IInv, StartInv, Scheduler
    PROVE  StartInv'
<1>0. iter \in -1..(NMinibatches - 1) /\ NMinibatches \in Nat \ {0}
  BY ConfigAssumption DEF IInv, TypeOK
<1>1. CASE RolloutPreProcess
  BY <1>1, RolloutPreProcessStart
<1>2. CASE PreReports
  BY <1>2, PreReportsStart
<1>3. CASE WaitActor
  <2>1. /\ spc = "wait_actor" /\ spc' # "pre_process" /\ inst' = inst /\ iter' = iter
        /\ iter >= 0
    BY <1>3 DEF WaitActor, Finish, AskReports, instVars, IInv, BooksInv
  <2>2. ~Launching /\ ~Launching'
    BY <1>0, <2>1 DEF Launching
  <2>. QED
    BY <2>1, <2>2, LaunchedStart
<1>4. CASE MainReports
  <2>1. spc = "report" /\ inst' = inst /\ iter' = iter /\ iter >= 0
    BY <1>4 DEF MainReports, instVars
  <2>2. spc' # "pre_process"
    BY <1>4, Zenon DEF MainReports, Finish, Migrate
  <2>3. ~Launching /\ ~Launching'
    BY <1>0, <2>1, <2>2 DEF Launching
  <2>. QED
    BY <2>1, <2>3, LaunchedStart
<1>5. CASE Migrated
  <2>1. spc = "migrate_out" /\ spc' = "finish" /\ inst' = inst
    BY <1>5 DEF Migrated, instVars
  <2>. QED
    BY <2>1, LaunchedStart DEF Launching
<1>6. CASE Finished
  <2>1. spc = "finish" /\ inst' = inst
    BY <1>6 DEF Finished, instVars
  <2>2. spc' \in {"wait_actor", "inference"}
    BY <1>6 DEF Finished, EndPreProcess
  <2>. QED
    BY <2>1, <2>2, LaunchedStart DEF Launching
<1>7. CASE InferenceTurn
  <2>1. spc = "inference" /\ spc' = "actor" /\ inst' = inst
    BY <1>7 DEF InferenceTurn, instVars
  <2>. QED
    BY <2>1, LaunchedStart DEF Launching
<1>8. CASE ActorTurn
  <2>1. spc = "actor" /\ spc' \in {"done", "wait_actor"} /\ inst' = inst
    BY <1>8 DEF ActorTurn, instVars
  <2>. QED
    BY <2>1, LaunchedStart DEF Launching
<1>. QED
  BY <1>1, <1>2, <1>3, <1>4, <1>5, <1>6, <1>7, <1>8 DEF Scheduler

LEMMA NextStart ==
    ASSUME UsePreProcess, IInv, StartInv, [Next]_vars
    PROVE  StartInv'
<1>1. CASE Scheduler
  BY <1>1, SchedulerStart
<1>2. ASSUME NEW i \in Instances, RolloutCoroutine(i) PROVE StartInv'
  BY <1>2, StartRolloutStart, WaitReturnsStart, PutResultStart, MarkDoneStart,
     MarkAbortedStart, NotifiedStart, OffloadStart DEF RolloutCoroutine
<1>3. ASSUME NEW i \in Instances, MainLoop(i) PROVE StartInv'
  BY <1>3, MainLoopStart
<1>4. ASSUME NEW g \in Groups, Generate(g) PROVE StartInv'
  BY <1>4, GenerateStart
<1>5. CASE Actor
  <2>1. UNCHANGED <<spc, iter, inst, gen, req, resp>>
    BY <1>5 DEF Actor, ActorPreProcess, ActorTrain, ActorScale, schedVars, instVars
  <2>. QED
    BY <2>1, ElsewhereStart
<1>6. CASE InferenceFinishes
  <2>1. UNCHANGED <<spc, iter, inst, gen, req, resp>>
    BY <1>6 DEF InferenceFinishes, schedVars, instVars
  <2>. QED
    BY <2>1, ElsewhereStart
<1>7. CASE NextRound
  BY <1>7, NextRoundStart
<1>8. CASE UNCHANGED vars
  <2>1. UNCHANGED <<spc, iter, inst, gen, req, resp>>
    BY <1>8 DEF vars, schedVars, instVars
  <2>. QED
    BY <2>1, ElsewhereStart
<1>. QED
  BY <1>1, <1>2, <1>3, <1>4, <1>5, <1>6, <1>7, <1>8 DEF Next

LEMMA InitStart ==
    ASSUME Init
    PROVE  StartInv
<1>1. Launching /\ \A g \in Groups : gen[g] = "new"
  BY DEF Init, Launching
<1>2. ASSUME NEW i \in Instances PROVE FreshInv(i)
  <2>1. inst[i] = IdleInstance /\ req[i] = <<>> /\ resp[i] = <<>>
    BY DEF Init
  <2>2. /\ inst[i].roll = "idle" /\ inst[i].running = {} /\ inst[i].done = {}
        /\ inst[i].aborted = <<>>
    BY <2>1 DEF IdleInstance
  <2>. QED
    BY <1>1, <2>1, <2>2 DEF FreshInv, Fresh, LaunchInv
<1>. QED
  BY <1>1, <1>2 DEF StartInv

LEMMA StartInvariant ==
    ASSUME UsePreProcess
    PROVE  Spec => [](IInv /\ StartInv)
<1>1. Init => IInv /\ StartInv
  BY InitIInv, InitStart
<1>2. IInv /\ StartInv /\ [Next]_vars => (IInv /\ StartInv)'
  BY NextIInv, NextStart
<1>. QED
  BY <1>1, <1>2, PTL DEF Spec

(* rollout() never finds a group of an earlier step, or one that has been  *)
(* migrated in before it starts, so that its assertion never fails: as     *)
(* long as the scheduler counts the launched groups before it lets any be  *)
(* migrated (scheduler_pre_process), for any number of instances, groups   *)
(* and train steps.                                                        *)
THEOREM StartEmpty ==
    ASSUME UsePreProcess
    PROVE  Spec => []StartsEmpty
<1>1. StartInv => StartsEmpty
  BY DEF StartInv, FreshInv, StartsEmpty
<1>. QED
  BY <1>1, StartInvariant, PTL

-----------------------------------------------------------------------------
(* Where a group is, instance by instance.                                 *)

(* A response is the only one in its queue, and a Migrate_In the first.    *)
LEMMA FirstOfQueue ==
    ASSUME IInv, NEW i \in Instances
    PROVE  /\ \A l \in 1..Len(resp[i]) : l = 1 /\ resp[i] # <<>>
           /\ \A l \in 1..Len(req[i]) :
                 req[i] # <<>> /\ (req[i][l].action = "Migrate_In" => l = 1)
           /\ resp[i] # <<>> => 1 \in 1..Len(resp[i])
           /\ req[i] # <<>> => 1 \in 1..Len(req[i])
<1>1. InstanceInv(i) /\ resp[i] \in Seq(Responses) /\ req[i] \in Seq(Messages)
  BY DEF IInv, TypeOK, TalkInv
<1>2. resp[i] = <<>> \/ Len(resp[i]) = 1
  BY <1>1 DEF InstanceInv, Talk, Left, Told
<1>3. "Migrate_In" \notin Due(i)
  BY DEF Due
<1>4. \/ req[i] = <<>> \/ Len(req[i]) = 1
      \/ Len(req[i]) = 2 /\ req[i][2].action # "Migrate_In"
  BY <1>1, <1>3 DEF InstanceInv, Talk, Left, Told, Asked, Unasked
<1>5. Len(resp[i]) \in Nat /\ (resp[i] # <<>> => Len(resp[i]) > 0)
      /\ (resp[i] = <<>> => Len(resp[i]) = 0)
  BY <1>1
<1>6. Len(req[i]) \in Nat /\ (req[i] # <<>> => Len(req[i]) > 0)
      /\ (req[i] = <<>> => Len(req[i]) = 0)
  BY <1>1
<1>7. ASSUME NEW l \in 1..Len(resp[i]) PROVE l = 1 /\ resp[i] # <<>>
  <2>1. l \in Int /\ l >= 1 /\ l <= Len(resp[i])
    BY <1>5
  <2>2. resp[i] # <<>>
    BY <1>5, <2>1
  <2>3. Len(resp[i]) = 1
    BY <1>2, <2>2
  <2>. QED
    BY <2>1, <2>2, <2>3
<1>8. ASSUME NEW l \in 1..Len(req[i]), req[i][l].action = "Migrate_In" PROVE l = 1
  <2>1. l \in Int /\ l >= 1 /\ l <= Len(req[i])
    BY <1>6
  <2>2. req[i] # <<>>
    BY <1>6, <2>1
  <2>3. CASE Len(req[i]) = 1
    BY <2>1, <2>3
  <2>4. CASE Len(req[i]) = 2 /\ req[i][2].action # "Migrate_In"
    <3>1. l # 2
      BY <1>8, <2>4
    <3>. QED
      BY <2>1, <2>4, <3>1
  <2>. QED
    BY <1>4, <2>2, <2>3, <2>4
<1>9. req[i] = <<>> => 1..Len(req[i]) = {}
  BY <1>6
<1>. QED
  BY <1>5, <1>6, <1>7, <1>8, <1>9

(* How Places calls it that instance i has a group in the way k.           *)
Place(k, i) == IF k \in {"response", "request"} THEN <<k, i, 1>> ELSE <<k, i>>

LEMMA PlacesAre ==
    ASSUME IInv, NEW g \in Groups
    PROVE  /\ \A k \in Kinds, i \in Instances : Has(k, i, g) => Place(k, i) \in Places(g)
           /\ \A p \in Places(g) :
                 \/ \E k \in Kinds, i \in Instances : Has(k, i, g) /\ p = Place(k, i)
                 \/ /\ p = <<"delivered", output[g]>> /\ output[g] > 0
                    /\ \A i \in Instances : ~Has("running", i, g)
           /\ output[g] > 0 /\ (\A i \in Instances : ~Has("running", i, g))
                 => <<"delivered", output[g]>> \in Places(g)
<1> DEFINE N == {<<"new", i>> : i \in {j \in Instances : inst[j].roll = "idle"
                                                        /\ g \in Requests[j]}}
           R == {<<"running", i>> : i \in {j \in Instances : g \in inst[j].running}}
           A == {<<"aborted", i>> : i \in {j \in Instances :
                     inst[j].loop = "migrate_out" /\ Contains(inst[j].aborted, g)}}
           S == UNION {{<<"response", i, k>> : k \in {l \in 1..Len(resp[i]) :
                     resp[i][l].action = "Migrate_Out" /\ Contains(resp[i][l].data, g)}}
                     : i \in Instances}
           Q == UNION {{<<"request", i, k>> : k \in {l \in 1..Len(req[i]) :
                     req[i][l].action = "Migrate_In" /\ Contains(req[i][l].data, g)}}
                     : i \in Instances}
           D == IF output[g] > 0 /\ \A i \in Instances : g \notin inst[i].running
                THEN {<<"delivered", output[g]>>} ELSE {}
<1>1. Places(g) = N \cup R \cup A \cup S \cup Q \cup D
  BY Zenon DEF Places
<1>2. ASSUME NEW k \in Kinds, NEW i \in Instances, Has(k, i, g)
      PROVE  Place(k, i) \in N \cup R \cup A \cup S \cup Q
  <2>1. CASE k = "new"
    BY <1>2, <2>1 DEF Has, Place
  <2>2. CASE k = "running"
    BY <1>2, <2>2 DEF Has, Place
  <2>3. CASE k = "aborted"
    BY <1>2, <2>3 DEF Has, Place
  <2>4. CASE k = "response"
    <3>1. /\ resp[i] # <<>> /\ resp[i][1].action = "Migrate_Out"
          /\ Contains(resp[i][1].data, g)
      BY <1>2, <2>4 DEF Has
    <3>2. 1 \in 1..Len(resp[i])
      BY <3>1, FirstOfQueue
    <3>3. <<"response", i, 1>> \in S
      BY <3>1, <3>2
    <3>. QED
      BY <2>4, <3>3 DEF Place
  <2>5. CASE k = "request"
    <3>1. /\ req[i] # <<>> /\ req[i][1].action = "Migrate_In"
          /\ Contains(req[i][1].data, g)
      BY <1>2, <2>5 DEF Has
    <3>2. 1 \in 1..Len(req[i])
      BY <3>1, FirstOfQueue
    <3>3. <<"request", i, 1>> \in Q
      BY <3>1, <3>2
    <3>. QED
      BY <2>5, <3>3 DEF Place
  <2>. QED
    BY <2>1, <2>2, <2>3, <2>4, <2>5 DEF Kinds
<1>3. ASSUME NEW p \in N \cup R \cup A \cup S \cup Q
      PROVE  \E k \in Kinds, i \in Instances : Has(k, i, g) /\ p = Place(k, i)
  <2>1. CASE p \in N
    <3>1. PICK i \in Instances : /\ p = <<"new", i>> /\ inst[i].roll = "idle"
                                 /\ g \in Requests[i]
      BY <2>1
    <3>2. Has("new", i, g) /\ p = Place("new", i) /\ "new" \in Kinds
      BY <3>1 DEF Has, Place, Kinds
    <3>. QED
      BY <3>2
  <2>2. CASE p \in R
    <3>1. PICK i \in Instances : p = <<"running", i>> /\ g \in inst[i].running
      BY <2>2
    <3>2. Has("running", i, g) /\ p = Place("running", i) /\ "running" \in Kinds
      BY <3>1 DEF Has, Place, Kinds
    <3>. QED
      BY <3>2
  <2>3. CASE p \in A
    <3>1. PICK i \in Instances : /\ p = <<"aborted", i>> /\ inst[i].loop = "migrate_out"
                                 /\ Contains(inst[i].aborted, g)
      BY <2>3
    <3>2. Has("aborted", i, g) /\ p = Place("aborted", i) /\ "aborted" \in Kinds
      BY <3>1 DEF Has, Place, Kinds
    <3>. QED
      BY <3>2
  <2>4. CASE p \in S
    <3>1. PICK i \in Instances : p \in {<<"response", i, k>> : k \in {l \in 1..Len(resp[i]) :
              resp[i][l].action = "Migrate_Out" /\ Contains(resp[i][l].data, g)}}
      BY <2>4
    <3>2. PICK l \in 1..Len(resp[i]) :
              /\ p = <<"response", i, l>> /\ resp[i][l].action = "Migrate_Out"
              /\ Contains(resp[i][l].data, g)
      BY <3>1
    <3>3. l = 1 /\ resp[i] # <<>>
      BY FirstOfQueue
    <3>4. Has("response", i, g) /\ p = Place("response", i) /\ "response" \in Kinds
      BY <3>2, <3>3 DEF Has, Place, Kinds
    <3>. QED
      BY <3>4
  <2>5. CASE p \in Q
    <3>1. PICK i \in Instances : p \in {<<"request", i, k>> : k \in {l \in 1..Len(req[i]) :
              req[i][l].action = "Migrate_In" /\ Contains(req[i][l].data, g)}}
      BY <2>5
    <3>2. PICK l \in 1..Len(req[i]) :
              /\ p = <<"request", i, l>> /\ req[i][l].action = "Migrate_In"
              /\ Contains(req[i][l].data, g)
      BY <3>1
    <3>3. l = 1 /\ req[i] # <<>>
      BY <3>2, FirstOfQueue
    <3>4. Has("request", i, g) /\ p = Place("request", i) /\ "request" \in Kinds
      BY <3>2, <3>3 DEF Has, Place, Kinds
    <3>. QED
      BY <3>4
  <2>. QED
    BY <2>1, <2>2, <2>3, <2>4, <2>5
<1>4. (\A i \in Instances : g \notin inst[i].running)
          <=> (\A i \in Instances : ~Has("running", i, g))
  BY DEF Has
<1> HIDE DEF N, R, A, S, Q
<1>5. ASSUME NEW p \in Places(g), p \notin N \cup R \cup A \cup S \cup Q
      PROVE  /\ p = <<"delivered", output[g]>> /\ output[g] > 0
             /\ \A i \in Instances : ~Has("running", i, g)
  BY <1>1, <1>4, <1>5
<1>6. output[g] > 0 /\ (\A i \in Instances : ~Has("running", i, g))
          => <<"delivered", output[g]>> \in D
  BY <1>4
<1> HIDE DEF D
<1>. QED
  BY <1>1, <1>2, <1>3, <1>5, <1>6

LEMMA WhereaboutsOnePlace ==
    ASSUME IInv, NEW g \in Groups, Whereabouts(g)
    PROVE  Cardinality(Places(g)) = 1 /\ output[g] <= 1
<1>1. output[g] \in Nat
  BY DEF IInv, TypeOK
<1>2. output[g] <= 1
  BY <1>1 DEF Whereabouts
<1>3. \E p : Places(g) = {p}
  <2>1. CASE \E k \in Kinds, i \in Instances : Has(k, i, g)
    <3>1. PICK k \in Kinds, i \in Instances : Has(k, i, g)
      BY <2>1
    <3>2. output[g] > 0 => Has("running", i, g)
      BY <3>1 DEF Whereabouts
    <3>3. ASSUME NEW l \in Kinds, NEW j \in Instances, Has(l, j, g)
          PROVE  Place(l, j) = Place(k, i)
      BY <3>1, <3>3 DEF Whereabouts, OneHolder
    <3>4. Place(k, i) \in Places(g)
      BY <3>1, PlacesAre
    <3>5. \A p \in Places(g) :
            \E l \in Kinds, j \in Instances : Has(l, j, g) /\ p = Place(l, j)
      BY <3>2, PlacesAre
    <3>6. \A p \in Places(g) : p = Place(k, i)
      BY <3>3, <3>5
    <3>7. Places(g) = {Place(k, i)}
      BY <3>4, <3>6
    <3>. QED
      BY <3>7
  <2>2. CASE ~\E k \in Kinds, i \in Instances : Has(k, i, g)
    <3>1. output[g] > 0
      BY <1>1, <2>2 DEF Whereabouts
    <3>2. \A i \in Instances : ~Has("running", i, g)
      BY <2>2 DEF Kinds
    <3>3. Places(g) = {<<"delivered", output[g]>>}
      BY <2>2, <3>1, <3>2, PlacesAre
    <3>. QED
      BY <3>3
  <2>. QED
    BY <2>1, <2>2
<1>. QED
  BY <1>2, <1>3, FS_Singleton

-----------------------------------------------------------------------------
(* How a step changes the whereabouts of a group: not at all, it moves     *)
(* from one holder to the next, or it is marked done.                      *)
LEMMA SamePlace ==
    ASSUME NEW g \in Groups, Whereabouts(g), output'[g] = output[g],
           output[g] > 0 => gen'[g] = gen[g],
           \A m \in Kinds, n \in Instances : Has(m, n, g)' <=> Has(m, n, g)
    PROVE  Whereabouts(g)'
  BY DEF Whereabouts, OneHolder

LEMMA MovedPlace ==
    ASSUME NEW g \in Groups, output'[g] = 0,
           NEW l \in Kinds, NEW j \in Instances,
           \A m \in Kinds, n \in Instances : Has(m, n, g)' <=> m = l /\ n = j
    PROVE  Whereabouts(g)'
<1>1. OneHolder(g)'
  BY DEF OneHolder
<1>. QED
  BY <1>1 DEF Whereabouts

LEMMA DonePlace ==
    ASSUME NEW g \in Groups, Whereabouts(g), output'[g] = output[g], output[g] > 0,
           gen'[g] = gen[g],
           \A m \in Kinds, n \in Instances : ~Has(m, n, g)'
    PROVE  Whereabouts(g)'
<1>1. OneHolder(g)'
  BY DEF OneHolder
<1>2. output'[g] # 0
  BY DEF Whereabouts
<1>. QED
  BY <1>1, <1>2 DEF Whereabouts

LEMMA HasFrame ==
    ASSUME NEW n \in Instances, inst'[n] = inst[n], req'[n] = req[n], resp'[n] = resp[n],
           NEW m \in Kinds, NEW g \in Groups
    PROVE  Has(m, n, g)' <=> Has(m, n, g)
  BY DEF Has

(* A step of instance i concerns the groups that it takes or gives away;   *)
(* the engine aborts only groups that are running on i.                    *)
LEMMA AlonePlace ==
    ASSUME PlaceInv, NEW i \in Instances, Alone(i), AbortsInv(i)',
           \A g \in Groups : gen'[g] = "aborted" => gen[g] = "aborted" \/ g \in inst[i].running,
           \A g \in Groups : Whereabouts(g)', TypeOK
    PROVE  PlaceInv'
<1>1. ASSUME NEW j \in Instances, j # i PROVE AbortsInv(j)'
  <2>1. AbortsInv(j) /\ UNCHANGED <<spc, awaited>>
    BY DEF PlaceInv, Alone
  <2>2. inst'[j] = inst[j] /\ req'[j] = req[j] /\ resp'[j] = resp[j]
    BY <1>1 DEF Alone
  <2>3. ASSUME NEW g \in inst[j].running, gen'[g] = "aborted"
        PROVE  inst[j].loop = "migrate_out"
    <3>1. g \in Groups
      BY DEF TypeOK, InstanceStates
    <3>2. Has("running", j, g) /\ (g \in inst[i].running => Has("running", i, g))
          /\ "running" \in Kinds
      BY DEF Has, Kinds
    <3>3. g \notin inst[i].running
      BY <1>1, <3>1, <3>2 DEF PlaceInv, Whereabouts, OneHolder
    <3>4. gen[g] = "aborted"
      BY <2>3, <3>1, <3>3
    <3>. QED
      BY <2>1, <3>4 DEF AbortsInv
  <2>. QED
    BY <2>1, <2>2, <2>3 DEF AbortsInv
<1>. QED
  BY <1>1 DEF PlaceInv

(* A step that moves no group.                                             *)
LEMMA StillPlace ==
    ASSUME PlaceInv, TypeOK, NEW i \in Instances, Alone(i), output' = output,
           gen' = gen, AbortsInv(i)',
           \A g \in Groups, m \in Kinds : Has(m, i, g)' <=> Has(m, i, g)
    PROVE  PlaceInv'
<1>1. ASSUME NEW g \in Groups PROVE Whereabouts(g)'
  <2>1. \A m \in Kinds, n \in Instances : Has(m, n, g)' <=> Has(m, n, g)
    BY HasFrame DEF Alone
  <2>. QED
    BY <2>1, SamePlace DEF PlaceInv
<1>. QED
  BY <1>1, AlonePlace

LEMMA NoGroupIn ==
    /\ IsInjective(<<>>)
    /\ \A g : ~Contains(<<>>, g)
  BY DEF Contains, IsInjective

LEMMA StartRolloutPlace ==
    ASSUME IInv, StartInv, PlaceInv, NEW i \in Instances, StartRollout(i)
    PROVE  PlaceInv'
<1>1. Fresh(i) /\ TypeOK /\ AbortsInv(i)
  BY DEF StartInv, FreshInv, StartRollout, IInv, PlaceInv
<1>2. /\ Alone(i) /\ output' = output /\ req'[i] = req[i] /\ resp'[i] = resp[i]
      /\ inst[i].roll = "idle"
      /\ inst'[i].roll = "wait" /\ inst'[i].running = Requests[i]
      /\ inst'[i].aborted = <<>> /\ inst'[i].loop = inst[i].loop
      /\ gen' = [g \in Groups |-> IF g \in Requests[i] THEN "gen" ELSE gen[g]]
  BY <1>1, StartRolloutDoes
<1>3. Requests[i] \subseteq Groups
  BY RequestsAssumption
<1>4. AbortsInv(i)'
  BY <1>1, <1>2, <1>3, NoGroupIn DEF AbortsInv
<1>5. ASSUME NEW g \in Groups PROVE Whereabouts(g)'
  <2>1. Whereabouts(g)
    BY DEF PlaceInv
  <2>2. CASE g \in Requests[i]
    <3>1. Has("new", i, g) /\ "new" \in Kinds /\ "running" \in Kinds
      BY <1>2, <2>2 DEF Has, Kinds
    <3>2. \A m \in Kinds, n \in Instances : Has(m, n, g) => m = "new" /\ n = i
      BY <2>1, <3>1 DEF Whereabouts, OneHolder
    <3>3. output'[g] = 0
      <4>1. output[g] \in Nat
        BY <1>1 DEF TypeOK
      <4>. QED
        BY <1>2, <2>1, <3>1, <4>1 DEF Whereabouts
    <3>4. ASSUME NEW m \in Kinds PROVE Has(m, i, g)' <=> m = "running"
      <4>1. ~Has("response", i, g) /\ ~Has("request", i, g)
        BY <3>2 DEF Kinds
      <4>2. ~Has("response", i, g)' /\ ~Has("request", i, g)'
        BY <1>2, <4>1 DEF Has
      <4>3. ~Has("new", i, g)' /\ ~Has("aborted", i, g)' /\ Has("running", i, g)'
        BY <1>2, <2>2, NoGroupIn DEF Has
      <4>. QED
        BY <4>2, <4>3 DEF Kinds
    <3>5. ASSUME NEW m \in Kinds, NEW n \in Instances, n # i PROVE ~Has(m, n, g)'
      BY <1>2, <3>2, <3>5, HasFrame DEF Alone
    <3>6. \A m \in Kinds, n \in Instances : Has(m, n, g)' <=> m = "running" /\ n = i
      BY <3>4, <3>5
    <3>. QED
      BY <3>1, <3>3, <3>6, MovedPlace
  <2>3. CASE g \notin Requests[i]
    <3>1. ASSUME NEW m \in Kinds PROVE Has(m, i, g)' <=> Has(m, i, g)
      BY <1>1, <1>2, <2>3, NoGroupIn DEF Has, Kinds, Fresh
    <3>2. \A m \in Kinds, n \in Instances : Has(m, n, g)' <=> Has(m, n, g)
      BY <1>2, <3>1, HasFrame DEF Alone
    <3>. QED
      BY <1>2, <2>1, <2>3, <3>2, SamePlace
  <2>. QED
    BY <2>2, <2>3
<1>6. \A g \in Groups : gen'[g] = "aborted" => gen[g] = "aborted"
  BY <1>2
<1>. QED
  BY <1>1, <1>2, <1>4, <1>5, <1>6, AlonePlace

LEMMA WaitReturnsPlace ==
    ASSUME IInv, PlaceInv, NEW i \in Instances, WaitReturns(i)
    PROVE  PlaceInv'
<1>1. /\ Alone(i) /\ output' = output /\ gen' = gen
      /\ req'[i] = req[i] /\ resp'[i] = resp[i]
      /\ inst[i].roll = "wait" /\ inst'[i].roll = "process"
      /\ inst'[i].running = inst[i].running
      /\ inst'[i].aborted = inst[i].aborted /\ inst'[i].loop = inst[i].loop
  BY WaitReturnsDoes
<1>2. AbortsInv(i)'
  BY <1>1 DEF PlaceInv, AbortsInv, Alone
<1>3. \A g \in Groups, m \in Kinds : Has(m, i, g)' <=> Has(m, i, g)
  BY <1>1 DEF Has
<1>. QED
  BY <1>1, <1>2, <1>3, StillPlace DEF IInv

LEMMA PutResultPlace ==
    ASSUME IInv, PlaceInv, NEW i \in Instances, PutResult(i)
    PROVE  PlaceInv'
<1>1. Alone(i) /\ inst' = inst /\ gen' = gen /\ req' = req /\ resp' = resp
  BY PutResultDoes
<1>2. PICK g \in inst[i].running :
          /\ gen[g] = "completed" /\ output' = [output EXCEPT ![g] = 1]
  BY PutResultDoes
<1>3. g \in Groups /\ output \in [Groups -> Nat]
  BY DEF IInv, TypeOK, InstanceStates
<1>4. AbortsInv(i)'
  BY <1>1 DEF PlaceInv, AbortsInv, Alone
<1>5. ASSUME NEW h \in Groups, NEW m \in Kinds, NEW n \in Instances
      PROVE  Has(m, n, h)' <=> Has(m, n, h)
  BY <1>1 DEF Has
<1>6. ASSUME NEW h \in Groups PROVE Whereabouts(h)'
  <2>1. Whereabouts(h)
    BY DEF PlaceInv
  <2>2. CASE h = g
    <3>1. Has("running", i, g) /\ "running" \in Kinds
      BY DEF Has, Kinds
    <3>2. \A m \in Kinds, n \in Instances : Has(m, n, g) => m = "running"
      BY <2>1, <2>2, <3>1 DEF Whereabouts, OneHolder
    <3>3. OneHolder(h)'
      BY <1>5, <2>1 DEF Whereabouts, OneHolder
    <3>4. output'[g] = 1
      BY <1>2, <1>3
    <3>5. \A m \in Kinds, n \in Instances : Has(m, n, h)' => m = "running"
      BY <1>5, <2>2, <3>2
    <3>. QED
      BY <1>1, <1>2, <2>2, <3>3, <3>4, <3>5 DEF Whereabouts
  <2>3. CASE h # g
    <3>1. output'[h] = output[h]
      BY <1>2, <1>3, <2>3
    <3>. QED
      BY <1>1, <1>5, <2>1, <3>1, SamePlace
  <2>. QED
    BY <2>2, <2>3
<1>. QED
  BY <1>1, <1>4, <1>6, AlonePlace DEF IInv

LEMMA MarkDonePlace ==
    ASSUME IInv, PlaceInv, NEW i \in Instances, MarkDone(i)
    PROVE  PlaceInv'
<1>1. /\ Alone(i) /\ output' = output /\ gen' = gen
      /\ req'[i] = req[i] /\ resp'[i] = resp[i]
      /\ inst[i].roll = "process"
      /\ inst'[i].roll \in {"wait", "process", "notify"}
      /\ inst'[i].aborted = inst[i].aborted /\ inst'[i].loop = inst[i].loop
  BY MarkDoneDoes
<1>2. PICK g \in inst[i].running :
          output[g] > 0 /\ inst'[i].running = inst[i].running \ {g}
  BY MarkDoneDoes
<1>3. g \in Groups
  BY DEF IInv, TypeOK, InstanceStates
<1>4. AbortsInv(i)'
  BY <1>1, <1>2 DEF PlaceInv, AbortsInv, Alone
<1>5. ASSUME NEW h \in Groups PROVE Whereabouts(h)'
  <2>1. Whereabouts(h)
    BY DEF PlaceInv
  <2>2. CASE h = g
    <3>1. Has("running", i, g) /\ "running" \in Kinds
      BY DEF Has, Kinds
    <3>2. \A m \in Kinds, n \in Instances : Has(m, n, g) => m = "running" /\ n = i
      BY <2>1, <2>2, <3>1 DEF Whereabouts, OneHolder
    <3>3. ASSUME NEW m \in Kinds PROVE ~Has(m, i, g)'
      <4>1. m # "running" => ~Has(m, i, g)
        BY <3>2
      <4>2. ~Has("running", i, g)'
        BY <1>2 DEF Has
      <4>3. m # "running" /\ Has(m, i, g)' => Has(m, i, g)
        BY <1>1 DEF Has
      <4>. QED
        BY <4>1, <4>2, <4>3
    <3>4. \A m \in Kinds, n \in Instances : n # i => ~Has(m, n, g)'
      BY <1>1, <1>3, <3>2, HasFrame DEF Alone
    <3>5. \A m \in Kinds, n \in Instances : ~Has(m, n, h)'
      BY <2>2, <3>3, <3>4
    <3>. QED
      BY <1>1, <1>2, <2>1, <2>2, <3>5, DonePlace
  <2>3. CASE h # g
    <3>1. \A m \in Kinds : Has(m, i, h)' <=> Has(m, i, h)
      BY <1>1, <1>2, <2>3 DEF Has, Kinds
    <3>2. \A m \in Kinds, n \in Instances : Has(m, n, h)' <=> Has(m, n, h)
      BY <1>1, <3>1, HasFrame DEF Alone
    <3>. QED
      BY <1>1, <2>1, <3>2, SamePlace
  <2>. QED
    BY <2>2, <2>3
<1>. QED
  BY <1>1, <1>4, <1>5, AlonePlace DEF IInv

(* Appending a group to a list that does not hold it.                      *)
LEMMA AppendGroup ==
    ASSUME NEW s \in Seq(Groups), NEW g \in Groups
    PROVE  /\ \A h \in Groups : Contains(Append(s, g), h) <=> Contains(s, h) \/ h = g
           /\ IsInjective(s) /\ ~Contains(s, g) => IsInjective(Append(s, g))
           /\ Append(s, g) # <<>>
<1> DEFINE t == Append(s, g)
<1>1. /\ Len(s) \in Nat /\ Len(t) = Len(s) + 1 /\ t[Len(s) + 1] = g
      /\ \A k \in 1..Len(s) : t[k] = s[k]
      /\ DOMAIN s = 1..Len(s) /\ DOMAIN t = 1..Len(t) /\ t # <<>>
  OBVIOUS
<1> HIDE DEF t
<1>2. \A k \in 1..Len(t) : k \in 1..Len(s) \/ k = Len(s) + 1
  BY <1>1
<1>3. \A k \in 1..Len(s) : k \in 1..Len(t)
  BY <1>1
<1>4. Len(s) + 1 \in 1..Len(t)
  BY <1>1
<1>5. \A h \in Groups : Contains(t, h) <=> Contains(s, h) \/ h = g
  BY <1>1, <1>2, <1>3, <1>4 DEF Contains
<1>6. ASSUME IsInjective(s), ~Contains(s, g) PROVE IsInjective(t)
  <2>1. \A k, l \in 1..Len(s) : s[k] = s[l] => k = l
    BY <1>1, <1>6 DEF IsInjective
  <2>2. \A k \in 1..Len(s) : s[k] # g
    BY <1>6 DEF Contains
  <2>3. \A k, l \in 1..Len(t) : t[k] = t[l] => k = l
    BY <1>1, <1>2, <2>1, <2>2
  <2>. QED
    BY <1>1, <2>3 DEF IsInjective
<1>. QED
  BY <1>1, <1>5, <1>6 DEF t

LEMMA MarkAbortedPlace ==
    ASSUME IInv, PlaceInv, NEW i \in Instances, MarkAborted(i)
    PROVE  PlaceInv'
<1>1. /\ Alone(i) /\ output' = output /\ gen' = gen
      /\ req'[i] = req[i] /\ resp'[i] = resp[i]
      /\ inst[i].roll = "process"
      /\ inst'[i].roll \in {"wait", "process", "notify"}
      /\ inst'[i].loop = inst[i].loop
  BY MarkAbortedDoes
<1>2. PICK g \in inst[i].running :
          /\ gen[g] = "aborted" /\ inst'[i].running = inst[i].running \ {g}
          /\ inst'[i].aborted = Append(inst[i].aborted, g)
  BY MarkAbortedDoes
<1>3. g \in Groups /\ inst[i].aborted \in Seq(Groups)
  BY DEF IInv, TypeOK, InstanceStates
<1>4. AbortsInv(i) /\ inst[i].loop = "migrate_out"
  BY <1>2 DEF PlaceInv, AbortsInv
<1>5. Has("running", i, g) /\ "running" \in Kinds /\ "aborted" \in Kinds
  BY DEF Has, Kinds
<1>6. \A m \in Kinds, n \in Instances : Has(m, n, g) => m = "running" /\ n = i
  BY <1>3, <1>5 DEF PlaceInv, Whereabouts, OneHolder
<1>7. ~Contains(inst[i].aborted, g)
  BY <1>4, <1>5, <1>6 DEF Has
<1>8. AbortsInv(i)'
  <2>1. IsInjective(inst'[i].aborted)
    BY <1>2, <1>3, <1>4, <1>7, AppendGroup DEF AbortsInv
  <2>. QED
    BY <1>1, <1>2, <1>4, <2>1 DEF AbortsInv
<1>9. ASSUME NEW h \in Groups PROVE Whereabouts(h)'
  <2>1. Whereabouts(h)
    BY DEF PlaceInv
  <2>2. CASE h = g
    <3>1. output'[h] = 0
      <4>1. output[g] \in Nat
        BY <1>3 DEF IInv, TypeOK
      <4>. QED
        BY <1>1, <1>2, <2>1, <2>2, <4>1 DEF Whereabouts
    <3>2. ASSUME NEW m \in Kinds PROVE Has(m, i, g)' <=> m = "aborted"
      <4>1. m \notin {"running", "aborted"} => ~Has(m, i, g)
        BY <1>6
      <4>2. ~Has("running", i, g)'
        BY <1>2 DEF Has
      <4>3. Has("aborted", i, g)'
        BY <1>1, <1>2, <1>3, <1>4, AppendGroup DEF Has
      <4>4. m \notin {"running", "aborted"} /\ Has(m, i, g)' => Has(m, i, g)
        BY <1>1 DEF Has
      <4>. QED
        BY <4>1, <4>2, <4>3, <4>4
    <3>3. \A m \in Kinds, n \in Instances : n # i => ~Has(m, n, g)'
      BY <1>1, <1>3, <1>6, HasFrame DEF Alone
    <3>4. \A m \in Kinds, n \in Instances : Has(m, n, h)' <=> m = "aborted" /\ n = i
      BY <2>2, <3>2, <3>3
    <3>. QED
      BY <1>5, <3>1, <3>4, MovedPlace
  <2>3. CASE h # g
    <3>1. Contains(inst'[i].aborted, h) <=> Contains(inst[i].aborted, h)
      BY <1>2, <1>3, <2>3, AppendGroup
    <3>2. \A m \in Kinds : Has(m, i, h)' <=> Has(m, i, h)
      BY <1>1, <1>2, <2>3, <3>1 DEF Has, Kinds
    <3>3. \A m \in Kinds, n \in Instances : Has(m, n, h)' <=> Has(m, n, h)
      BY <1>1, <3>2, HasFrame DEF Alone
    <3>. QED
      BY <1>1, <2>1, <3>3, SamePlace
  <2>. QED
    BY <2>2, <2>3
<1>. QED
  BY <1>1, <1>8, <1>9, AlonePlace DEF IInv

LEMMA NotifiedPlace ==
    ASSUME IInv, PlaceInv, NEW i \in Instances, Notified(i)
    PROVE  PlaceInv'
<1>1. /\ Alone(i) /\ output' = output /\ gen' = gen
      /\ req'[i] = req[i] /\ resp'[i] = resp[i]
      /\ inst[i].roll = "notify" /\ inst[i].event
      /\ inst'[i].running = inst[i].running /\ inst'[i].loop = inst[i].loop
      /\ \/ /\ inst[i].running # {} /\ inst'[i].roll = "wait"
            /\ inst'[i].aborted = inst[i].aborted
         \/ /\ inst[i].running = {} /\ inst'[i].roll = "offload"
            /\ inst'[i].aborted = <<>>
  BY NotifiedDoes
<1>2. AbortsInv(i) /\ InstanceInv(i)
  BY DEF PlaceInv, IInv, TalkInv
<1>3. inst[i].running = {} => inst[i].loop = "get"
  BY <1>1, <1>2 DEF InstanceInv, Talk, Stays, Left, Told
<1>4. AbortsInv(i)'
  BY <1>1, <1>2, <1>3 DEF AbortsInv, Alone
<1>5. \A g \in Groups, m \in Kinds : Has(m, i, g)' <=> Has(m, i, g)
  BY <1>1, <1>3 DEF Has, Kinds
<1>. QED
  BY <1>1, <1>4, <1>5, StillPlace DEF IInv

LEMMA OffloadPlace ==
    ASSUME IInv, PlaceInv, NEW i \in Instances, Offload(i)
    PROVE  PlaceInv'
<1>1. /\ Alone(i) /\ output' = output /\ gen' = gen /\ req'[i] = req[i]
      /\ resp'[i] # <<>> /\ resp'[i][1].action = "Offloaded"
      /\ inst[i].roll = "offload" /\ inst'[i].roll = "end"
      /\ inst'[i].running = inst[i].running
      /\ inst'[i].aborted = inst[i].aborted /\ inst'[i].loop = inst[i].loop
      /\ resp[i] = <<>>
  BY OffloadDoes
<1>2. AbortsInv(i)'
  BY <1>1 DEF PlaceInv, AbortsInv, Alone
<1>3. \A g \in Groups, m \in Kinds : Has(m, i, g)' <=> Has(m, i, g)
  BY <1>1 DEF Has, Kinds
<1>. QED
  BY <1>1, <1>2, <1>3, StillPlace DEF IInv

LEMMA GeneratePlace ==
    ASSUME IInv, PlaceInv, NEW g \in Groups, Generate(g)
    PROVE  PlaceInv'
<1>1. /\ UNCHANGED <<spc, iter, cur, awaited, inst, req, resp, output>>
      /\ gen[g] = "gen" /\ gen' = [gen EXCEPT ![g] = "completed"]
  BY DEF Generate, schedVars
<1>2. gen \in [Groups -> {"new", "gen", "completed", "aborted"}] /\ TypeOK
  BY DEF IInv, TypeOK
<1>3. PICK i \in Instances : TRUE
  BY ConfigAssumption DEF Instances
<1>4. Alone(i)
  BY <1>1 DEF Alone
<1>5. \A h \in Groups : gen'[h] = "aborted" => gen[h] = "aborted"
  BY <1>1, <1>2
<1>6. inst[i].running \subseteq Groups
  BY <1>2 DEF TypeOK, InstanceStates
<1>7. AbortsInv(i)'
  BY <1>1, <1>5, <1>6 DEF PlaceInv, AbortsInv
<1>8. ASSUME NEW h \in Groups PROVE Whereabouts(h)'
  <2>1. Whereabouts(h)
    BY DEF PlaceInv
  <2>2. output[h] > 0 => gen'[h] = gen[h]
    BY <1>1, <1>2, <2>1 DEF Whereabouts
  <2>3. \A m \in Kinds, n \in Instances : Has(m, n, h)' <=> Has(m, n, h)
    BY <1>1 DEF Has
  <2>. QED
    BY <1>1, <2>1, <2>2, <2>3, SamePlace
<1>. QED
  BY <1>2, <1>4, <1>5, <1>7, <1>8, AlonePlace

-----------------------------------------------------------------------------
(* The steps of main_loop.                                                 *)

(* What an instance that has been asked to migrate out or to finish, or    *)
(* that is doing so, says about the scheduler.                             *)
LEMMA DueSays ==
    ASSUME NEW i \in Instances
    PROVE  /\ Due(i) = {"Report"} => spc = "report"
           /\ Due(i) = {"Migrate_Out"} => spc = "migrate_out" /\ i \in awaited
           /\ Due(i) = {"Finish", "Wait_For_Finish"} => spc = "finish" /\ i \in awaited
  BY DEF Due

LEMMA GetReportPlace ==
    ASSUME IInv, PlaceInv, NEW i \in Instances,
           MainLoopGet(i), Head(req[i]).action = "Report",
           resp' = [resp EXCEPT ![i] = Append(@, Report(i))], inst' = inst, gen' = gen
    PROVE  PlaceInv'
<1>1. /\ Alone(i) /\ output' = output /\ Due(i) = {"Report"}
      /\ req[i] # <<>> /\ req[i][1].action = "Report" /\ req'[i] = <<>>
      /\ resp[i] = <<>> /\ resp'[i] # <<>> /\ resp'[i][1] = Report(i)
  BY GetReportDoes
<1>2. Report(i).action = "Report" /\ inst[i].loop = "get" /\ spc = "report"
  BY <1>1, DueSays DEF Report, MainLoopGet
<1>3. AbortsInv(i)'
  BY <1>1, <1>2 DEF PlaceInv, AbortsInv, Alone
<1>4. \A g \in Groups, m \in Kinds : Has(m, i, g)' <=> Has(m, i, g)
  BY <1>1, <1>2 DEF Has
<1>. QED
  BY <1>1, <1>3, <1>4, StillPlace DEF IInv

LEMMA GetMigrateInPlace ==
    ASSUME IInv, PlaceInv, NEW i \in Instances,
           MainLoopGet(i), Head(req[i]).action = "Migrate_In",
           MigrateIn(i, Head(req[i]).data), resp' = resp
    PROVE  PlaceInv'
<1> DEFINE data == ToSet(req[i][1].data)
<1>1. /\ Alone(i) /\ output' = output /\ inst[i].loop = "get"
      /\ req[i] # <<>> /\ req[i][1].action = "Migrate_In"
      /\ req[i][1].data \in Seq(Groups)
      /\ req'[i] # <<>> => req'[i][1].action # "Migrate_In"
      /\ resp'[i] = resp[i] /\ resp[i] = <<>>
      /\ inst'[i].running = inst[i].running \cup data
      /\ inst'[i].roll = inst[i].roll
      /\ inst'[i].aborted = inst[i].aborted /\ inst'[i].loop = inst[i].loop
      /\ gen' = [g \in Groups |-> IF g \in data THEN "gen" ELSE gen[g]]
  BY GetMigrateInDoes
<1>2. data \subseteq Groups /\ \A g : g \in data <=> Contains(req[i][1].data, g)
  BY <1>1 DEF ToSet, Contains
<1> HIDE DEF data
<1>3. TypeOK /\ inst[i].running \subseteq Groups
  BY DEF IInv, TypeOK, InstanceStates
<1>4. AbortsInv(i)'
  <2>1. AbortsInv(i)
    BY DEF PlaceInv
  <2>2. ASSUME NEW g \in inst'[i].running PROVE gen'[g] # "aborted"
    BY <1>1, <1>2, <1>3, <2>1 DEF AbortsInv
  <2>3. inst[i].aborted # <<>> => spc = "finish" /\ i \in awaited
    BY <1>1, <2>1 DEF AbortsInv
  <2>. QED
    BY <1>1, <2>2, <2>3 DEF AbortsInv, Alone
<1>5. ASSUME NEW g \in Groups PROVE Whereabouts(g)'
  <2>1. Whereabouts(g)
    BY DEF PlaceInv
  <2>2. CASE g \in data
    <3>1. Has("request", i, g) /\ "request" \in Kinds /\ "running" \in Kinds
      BY <1>1, <1>2, <2>2 DEF Has, Kinds
    <3>2. \A m \in Kinds, n \in Instances : Has(m, n, g) => m = "request" /\ n = i
      BY <2>1, <3>1 DEF Whereabouts, OneHolder
    <3>3. output'[g] = 0
      <4>1. output[g] \in Nat
        BY <1>3 DEF TypeOK
      <4>. QED
        BY <1>1, <2>1, <3>1, <4>1 DEF Whereabouts
    <3>4. ASSUME NEW m \in Kinds PROVE Has(m, i, g)' <=> m = "running"
      <4>1. m # "request" => ~Has(m, i, g)
        BY <3>2
      <4>2. ~Has("request", i, g)' /\ Has("running", i, g)'
        BY <1>1, <2>2 DEF Has
      <4>3. m \notin {"request", "running"} /\ Has(m, i, g)' => Has(m, i, g)
        BY <1>1 DEF Has
      <4>. QED
        BY <4>1, <4>2, <4>3
    <3>5. \A m \in Kinds, n \in Instances : n # i => ~Has(m, n, g)'
      BY <1>1, <3>2, HasFrame DEF Alone
    <3>6. \A m \in Kinds, n \in Instances : Has(m, n, g)' <=> m = "running" /\ n = i
      BY <3>4, <3>5
    <3>. QED
      BY <3>1, <3>3, <3>6, MovedPlace
  <2>3. CASE g \notin data
    <3>1. ASSUME NEW m \in Kinds PROVE Has(m, i, g)' <=> Has(m, i, g)
      <4>1. ~Has("request", i, g)' /\ ~Has("request", i, g)
        BY <1>1, <1>2, <2>3 DEF Has
      <4>2. m # "request" => (Has(m, i, g)' <=> Has(m, i, g))
        BY <1>1, <2>3 DEF Has
      <4>. QED
        BY <4>1, <4>2
    <3>2. \A m \in Kinds, n \in Instances : Has(m, n, g)' <=> Has(m, n, g)
      BY <1>1, <3>1, HasFrame DEF Alone
    <3>. QED
      BY <1>1, <2>1, <2>3, <3>2, SamePlace
  <2>. QED
    BY <2>2, <2>3
<1>6. \A g \in Groups : gen'[g] = "aborted" => gen[g] = "aborted"
  BY <1>1
<1>. QED
  BY <1>1, <1>3, <1>4, <1>5, <1>6, AlonePlace

LEMMA GetMigrateOutPlace ==
    ASSUME IInv, PlaceInv, NEW i \in Instances,
           MainLoopGet(i), Head(req[i]).action = "Migrate_Out",
           Abort(i), inst' = [inst EXCEPT ![i].loop = "migrate_out"], resp' = resp
    PROVE  PlaceInv'
<1>1. /\ Alone(i) /\ output' = output /\ Due(i) = {"Migrate_Out"} /\ inst[i].loop = "get"
      /\ req[i] # <<>> /\ req[i][1].action # "Migrate_In" /\ req'[i] = <<>>
      /\ resp'[i] = resp[i] /\ resp[i] = <<>>
      /\ inst'[i].running = inst[i].running
      /\ inst'[i].roll = inst[i].roll
      /\ inst'[i].aborted = inst[i].aborted /\ inst'[i].loop = "migrate_out"
  BY GetMigrateOutDoes
<1>2. spc = "migrate_out" /\ AbortsInv(i) /\ TypeOK
  BY <1>1, DueSays DEF PlaceInv, IInv
<1>3. inst[i].aborted = <<>>
  BY <1>1, <1>2 DEF AbortsInv
<1>4. AbortsInv(i)'
  BY <1>1, <1>3, NoGroupIn DEF AbortsInv
<1>5. \A g \in Groups : /\ gen'[g] = "aborted" => gen[g] = "aborted" \/ g \in inst[i].running
                        /\ gen[g] = "completed" => gen'[g] = gen[g]
  BY DEF Abort
<1>6. \A g \in Groups, m \in Kinds : Has(m, i, g)' <=> Has(m, i, g)
  BY <1>1, <1>3, NoGroupIn DEF Has
<1>7. ASSUME NEW g \in Groups PROVE Whereabouts(g)'
  <2>1. \A m \in Kinds, n \in Instances : Has(m, n, g)' <=> Has(m, n, g)
    BY <1>1, <1>6, HasFrame DEF Alone
  <2>2. Whereabouts(g)
    BY DEF PlaceInv
  <2>3. output[g] > 0 => gen'[g] = gen[g]
    BY <1>5, <2>2 DEF Whereabouts
  <2>. QED
    BY <1>1, <2>1, <2>2, <2>3, SamePlace
<1>. QED
  BY <1>1, <1>2, <1>4, <1>5, <1>7, AlonePlace

LEMMA GetFinishPlace ==
    ASSUME IInv, PlaceInv, NEW i \in Instances, MainLoopGet(i),
           Head(req[i]).action \in {"Finish", "Wait_For_Finish"},
           inst' = [inst EXCEPT ![i].loop = "finish"], gen' = gen, resp' = resp
    PROVE  PlaceInv'
<1>1. /\ Alone(i) /\ output' = output /\ Due(i) = {"Finish", "Wait_For_Finish"}
      /\ inst[i].loop = "get"
      /\ req[i] # <<>> /\ req[i][1].action # "Migrate_In" /\ req'[i] = <<>>
      /\ resp'[i] = resp[i] /\ resp[i] = <<>>
      /\ inst'[i].running = inst[i].running
      /\ inst'[i].roll = inst[i].roll
      /\ inst'[i].aborted = inst[i].aborted /\ inst'[i].loop = "finish"
  BY GetFinishDoes
<1>2. spc = "finish" /\ i \in awaited
  BY <1>1, DueSays
<1>3. AbortsInv(i)'
  BY <1>1, <1>2 DEF PlaceInv, AbortsInv, Alone
<1>4. \A g \in Groups, m \in Kinds : Has(m, i, g)' <=> Has(m, i, g)
  BY <1>1 DEF Has
<1>. QED
  BY <1>1, <1>3, <1>4, StillPlace DEF IInv

LEMMA MigratedOutPlace ==
    ASSUME IInv, PlaceInv, NEW i \in Instances, MigratedOut(i)
    PROVE  PlaceInv'
<1>1. /\ Alone(i) /\ output' = output /\ gen' = gen /\ Due(i) = {"Migrate_Out"}
      /\ inst[i].loop = "migrate_out" /\ inst'[i].loop = "get"
      /\ req'[i] = req[i] /\ req[i] = <<>> /\ resp[i] = <<>>
      /\ resp'[i] # <<>> /\ resp'[i][1].action = "Migrate_Out"
      /\ resp'[i][1].data = inst[i].aborted
      /\ inst[i].running = {} /\ inst'[i].running = {}
      /\ inst'[i].roll = inst[i].roll
      /\ inst'[i].aborted = inst[i].aborted
  BY MigratedOutDoes
<1>2. spc = "migrate_out" /\ i \in awaited /\ AbortsInv(i) /\ TypeOK
  BY <1>1, DueSays DEF PlaceInv, IInv
<1>3. AbortsInv(i)'
  BY <1>1, <1>2 DEF AbortsInv, Alone
<1>4. ASSUME NEW g \in Groups PROVE Whereabouts(g)'
  <2>1. Whereabouts(g)
    BY DEF PlaceInv
  <2>2. CASE Contains(inst[i].aborted, g)
    <3>1. Has("aborted", i, g) /\ "aborted" \in Kinds /\ "response" \in Kinds
      BY <1>1, <2>2 DEF Has, Kinds
    <3>2. \A m \in Kinds, n \in Instances : Has(m, n, g) => m = "aborted" /\ n = i
      BY <2>1, <3>1 DEF Whereabouts, OneHolder
    <3>3. output'[g] = 0
      <4>1. output[g] \in Nat
        BY <1>2 DEF TypeOK
      <4>. QED
        BY <1>1, <2>1, <3>1, <4>1 DEF Whereabouts
    <3>4. ASSUME NEW m \in Kinds PROVE Has(m, i, g)' <=> m = "response"
      <4>1. m # "aborted" => ~Has(m, i, g)
        BY <3>2
      <4>2. ~Has("aborted", i, g)' /\ Has("response", i, g)'
        BY <1>1, <2>2 DEF Has
      <4>3. m \notin {"aborted", "response"} /\ Has(m, i, g)' => Has(m, i, g)
        BY <1>1 DEF Has
      <4>. QED
        BY <4>1, <4>2, <4>3
    <3>5. \A m \in Kinds, n \in Instances : n # i => ~Has(m, n, g)'
      BY <1>1, <3>2, HasFrame DEF Alone
    <3>6. \A m \in Kinds, n \in Instances : Has(m, n, g)' <=> m = "response" /\ n = i
      BY <3>4, <3>5
    <3>. QED
      BY <3>1, <3>3, <3>6, MovedPlace
  <2>3. CASE ~Contains(inst[i].aborted, g)
    <3>1. ASSUME NEW m \in Kinds PROVE Has(m, i, g)' <=> Has(m, i, g)
      BY <1>1, <2>3 DEF Has
    <3>2. \A m \in Kinds, n \in Instances : Has(m, n, g)' <=> Has(m, n, g)
      BY <1>1, <3>1, HasFrame DEF Alone
    <3>. QED
      BY <1>1, <2>1, <3>2, SamePlace
  <2>. QED
    BY <2>2, <2>3
<1>. QED
  BY <1>1, <1>2, <1>3, <1>4, AlonePlace

LEMMA NotifyFinishPlace ==
    ASSUME IInv, PlaceInv, NEW i \in Instances, NotifyFinish(i)
    PROVE  PlaceInv'
<1>1. /\ Alone(i) /\ output' = output /\ gen' = gen
      /\ Due(i) = {"Finish", "Wait_For_Finish"}
      /\ inst[i].loop = "finish" /\ inst'[i].loop = "get"
      /\ req'[i] = req[i] /\ req[i] = <<>> /\ resp'[i] = resp[i]
      /\ inst'[i].running = inst[i].running
      /\ inst'[i].roll = inst[i].roll
      /\ inst'[i].aborted = inst[i].aborted
  BY NotifyFinishDoes
<1>2. spc = "finish" /\ i \in awaited
  BY <1>1, DueSays
<1>3. AbortsInv(i)'
  BY <1>1, <1>2 DEF PlaceInv, AbortsInv, Alone
<1>4. \A g \in Groups, m \in Kinds : Has(m, i, g)' <=> Has(m, i, g)
  BY <1>1 DEF Has
<1>. QED
  BY <1>1, <1>3, <1>4, StillPlace DEF IInv

LEMMA MainLoopPlace ==
    ASSUME IInv, PlaceInv, NEW i \in Instances, MainLoop(i)
    PROVE  PlaceInv'
<1>1. CASE MainLoopGet(i)
  <2>1. CASE /\ Head(req[i]).action = "Report"
             /\ resp' = [resp EXCEPT ![i] = Append(@, Report(i))]
             /\ UNCHANGED <<inst, gen>>
    BY <1>1, <2>1, GetReportPlace
  <2>2. CASE /\ Head(req[i]).action = "Migrate_In"
             /\ MigrateIn(i, Head(req[i]).data)
             /\ UNCHANGED resp
    BY <1>1, <2>2, GetMigrateInPlace
  <2>3. CASE /\ Head(req[i]).action = "Migrate_Out"
             /\ Abort(i)
             /\ inst' = [inst EXCEPT ![i].loop = "migrate_out"]
             /\ UNCHANGED resp
    BY <1>1, <2>3, GetMigrateOutPlace
  <2>4. CASE /\ Head(req[i]).action \in {"Finish", "Wait_For_Finish"}
             /\ inst' = [inst EXCEPT ![i].loop = "finish"]
             /\ UNCHANGED <<gen, resp>>
    BY <1>1, <2>4, GetFinishPlace
  <2>. QED
    BY <1>1, <2>1, <2>2, <2>3, <2>4, Zenon DEF MainLoopGet
<1>. QED
  BY <1>1, MigratedOutPlace, NotifyFinishPlace DEF MainLoop

-----------------------------------------------------------------------------
(* The start of a global step, and the steps that do not concern rollout.  *)

(* Before the instances start, each group is in exactly one one's share.   *)
LEMMA AllNew ==
    ASSUME NEW g \in Groups, output'[g] = 0,
           \A m \in Kinds, n \in Instances : Has(m, n, g)' <=> m = "new" /\ g \in Requests[n]
    PROVE  Whereabouts(g)'
<1>1. PICK i \in Instances : g \in Requests[i]
  BY RequestsAssumption
<1>2. \A n \in Instances : g \in Requests[n] => n = i
  BY <1>1, RequestsAssumption
<1>3. \A m \in Kinds, n \in Instances : Has(m, n, g)' <=> m = "new" /\ n = i
  BY <1>1, <1>2
<1>4. "new" \in Kinds
  BY DEF Kinds
<1>. QED
  BY <1>3, <1>4, MovedPlace

LEMMA NextRoundPlace ==
    ASSUME IInv, StartInv, NextRound
    PROVE  PlaceInv'
<1>1. ASSUME NEW i \in Instances
      PROVE  /\ req'[i] = <<>> /\ resp'[i] = <<>>
             /\ inst'[i].roll = "idle" /\ inst'[i].running = {}
             /\ inst'[i].aborted = <<>> /\ inst'[i].loop = "get"
  <2>1. /\ Left(i) /\ req'[i] = <<>> /\ resp'[i] = <<>>
        /\ inst'[i].roll = "idle" /\ inst'[i].running = inst[i].running
        /\ inst'[i].aborted = inst[i].aborted /\ inst'[i].loop = "get"
    BY NextRoundDoes
  <2>2. Fresh(i)
    BY <2>1 DEF StartInv, FreshInv, Left
  <2>. QED
    BY <2>1, <2>2 DEF Fresh
<1>2. ASSUME NEW i \in Instances PROVE AbortsInv(i)'
  BY <1>1 DEF AbortsInv
<1>3. ASSUME NEW g \in Groups PROVE Whereabouts(g)'
  <2>1. output'[g] = 0
    BY DEF NextRound
  <2>2. \A m \in Kinds, n \in Instances : Has(m, n, g)' <=> m = "new" /\ g \in Requests[n]
    BY <1>1 DEF Has
  <2>. QED
    BY <2>1, <2>2, AllNew
<1>. QED
  BY <1>2, <1>3 DEF PlaceInv

LEMMA InitPlace ==
    ASSUME Init
    PROVE  PlaceInv
<1>1. ASSUME NEW i \in Instances
      PROVE  /\ req[i] = <<>> /\ resp[i] = <<>>
             /\ inst[i].roll = "idle" /\ inst[i].running = {}
             /\ inst[i].aborted = <<>> /\ inst[i].loop = "get"
  BY DEF Init, IdleInstance
<1>2. ASSUME NEW i \in Instances PROVE AbortsInv(i)
  BY <1>1 DEF AbortsInv
<1>3. ASSUME NEW g \in Groups PROVE Whereabouts(g)
  <2>1. output[g] = 0
    BY DEF Init
  <2>2. \A m \in Kinds, n \in Instances : Has(m, n, g) <=> m = "new" /\ g \in Requests[n]
    BY <1>1 DEF Has
  <2>3. PICK i \in Instances : g \in Requests[i]
    BY RequestsAssumption
  <2>4. \A n \in Instances : g \in Requests[n] => n = i
    BY <2>3, RequestsAssumption
  <2>5. \A m \in Kinds, n \in Instances : Has(m, n, g) <=> m = "new" /\ n = i
    BY <2>2, <2>3, <2>4
  <2>6. OneHolder(g)
    BY <2>5 DEF OneHolder
  <2>7. "new" \in Kinds
    BY DEF Kinds
  <2>. QED
    BY <2>1, <2>5, <2>6, <2>7 DEF Whereabouts
<1>. QED
  BY <1>2, <1>3 DEF PlaceInv

LEMMA ElsewherePlace ==
    ASSUME PlaceInv, UNCHANGED <<spc, awaited, inst, gen, output, req, resp>>
    PROVE  PlaceInv'
<1>1. ASSUME NEW i \in Instances PROVE AbortsInv(i)'
  BY DEF PlaceInv, AbortsInv
<1>2. ASSUME NEW g \in Groups PROVE Whereabouts(g)'
  <2>1. \A m \in Kinds, n \in Instances : Has(m, n, g)' <=> Has(m, n, g)
    BY DEF Has
  <2>. QED
    BY <2>1, SamePlace DEF PlaceInv
<1>. QED
  BY <1>1, <1>2 DEF PlaceInv

-----------------------------------------------------------------------------
(* The scheduler's steps.                                                  *)

(* Unless instances are asked to migrate out or to finish, none is doing   *)
(* so, and none has aborted groups.                                        *)
LEMMA LoopSays ==
    ASSUME IInv, NEW i \in Instances, inst[i].loop = "migrate_out"
    PROVE  spc = "migrate_out" /\ i \in awaited
<1>1. InstanceInv(i)
  BY DEF IInv, TalkInv
<1>2. Due(i) = {"Migrate_Out"}
  BY <1>1 DEF InstanceInv, Talk, Left, Told
<1>. QED
  BY <1>2, DueSays

LEMMA NoAborts ==
    ASSUME IInv, PlaceInv, spc \notin {"migrate_out", "finish"}, NEW i \in Instances
    PROVE  inst[i].aborted = <<>> /\ inst[i].loop # "migrate_out"
  BY LoopSays DEF PlaceInv, AbortsInv

(* A step of the scheduler that takes no group from an instance and hands  *)
(* none to one, while no instance has aborted groups.                      *)
LEMMA SchedulerPlace ==
    ASSUME IInv, PlaceInv, UNCHANGED <<inst, gen, output>>,
           \A i \in Instances : inst[i].aborted = <<>> /\ inst[i].loop # "migrate_out",
           \A i \in Instances :
              \/ resp'[i] = resp[i]
              \/ /\ resp[i] # <<>> /\ resp[i][1].action # "Migrate_Out"
                 /\ resp'[i] = <<>>,
           \A i \in Instances :
              \/ req'[i] = req[i]
              \/ \E m \in Messages : m.action # "Migrate_In" /\ req'[i] = Append(req[i], m)
    PROVE  PlaceInv'
<1>1. ASSUME NEW i \in Instances PROVE AbortsInv(i)'
  BY DEF PlaceInv, AbortsInv
<1>2. ASSUME NEW i \in Instances, NEW g \in Groups
      PROVE  Has("request", i, g)' <=> Has("request", i, g)
  <2>1. CASE req'[i] = req[i]
    BY <2>1 DEF Has
  <2>2. CASE \E m \in Messages : m.action # "Migrate_In" /\ req'[i] = Append(req[i], m)
    <3>1. PICK m \in Messages : m.action # "Migrate_In" /\ req'[i] = Append(req[i], m)
      BY <2>2
    <3>2. req[i] \in Seq(Messages)
      BY DEF IInv, TypeOK
    <3>3. req'[i] # <<>> /\ req'[i][1] = IF req[i] = <<>> THEN m ELSE req[i][1]
      <4>1. CASE req[i] = <<>>
        BY <3>1, <3>2, <4>1
      <4>2. CASE req[i] # <<>>
        BY <3>1, <3>2, <4>2
      <4>. QED
        BY <4>1, <4>2
    <3>. QED
      BY <3>1, <3>3 DEF Has
  <2>. QED
    BY <2>1, <2>2
<1>3. ASSUME NEW i \in Instances, NEW g \in Groups
      PROVE  Has("response", i, g)' <=> Has("response", i, g)
  BY DEF Has
<1>4. ASSUME NEW g \in Groups PROVE Whereabouts(g)'
  <2>1. ASSUME NEW m \in Kinds, NEW n \in Instances PROVE Has(m, n, g)' <=> Has(m, n, g)
    <3>1. m \notin {"request", "response"} => (Has(m, n, g)' <=> Has(m, n, g))
      BY DEF Has
    <3>. QED
      BY <1>2, <1>3, <3>1
  <2>. QED
    BY <2>1, SamePlace DEF PlaceInv
<1>. QED
  BY <1>1, <1>4 DEF PlaceInv

(* What a scatter and a gather of reports do to the queues.                *)
LEMMA ScatterPlace ==
    ASSUME TypeOK, NEW ids,
           NEW action \in {"Report", "Migrate_Out", "Finish", "Wait_For_Finish"},
           Scatter(ids, action), NEW i \in Instances
    PROVE  \/ req'[i] = req[i]
           \/ \E m \in Messages : m.action # "Migrate_In" /\ req'[i] = Append(req[i], m)
<1>1. [action |-> action] \in Messages /\ [action |-> action].action # "Migrate_In"
  BY DEF Messages
<1>2. req'[i] = IF i \in ids THEN Append(req[i], [action |-> action]) ELSE req[i]
  BY ScatterType
<1>. QED
  BY <1>1, <1>2

LEMMA GatherReports ==
    ASSUME IInv, spc = "report", Answered(Alive), Gather(Alive), NEW i \in Instances
    PROVE  \/ resp'[i] = resp[i]
           \/ /\ resp[i] # <<>> /\ resp[i][1].action # "Migrate_Out"
              /\ resp'[i] = <<>>
<1>1. CASE i \in Alive
  <2>1. Due(i) = {"Report"} /\ resp[i] # <<>>
    BY <1>1 DEF Due, Answered
  <2>2. Head(resp[i]).action = "Report" /\ Tail(resp[i]) = <<>>
    BY <2>1, HasAnswered
  <2>3. Head(resp[i]) = resp[i][1]
    BY <2>1 DEF IInv, TypeOK
  <2>. QED
    BY <1>1, <2>1, <2>2, <2>3 DEF Gather
<1>2. CASE i \notin Alive
  BY <1>2 DEF Gather
<1>. QED
  BY <1>1, <1>2

LEMMA RolloutPreProcessPlace ==
    ASSUME IInv, PlaceInv, RolloutPreProcess
    PROVE  PlaceInv'
<1>1. spc = "pre_process" /\ UNCHANGED <<inst, gen, output, resp>>
  BY DEF RolloutPreProcess, instVars
<1>2. \A i \in Instances : inst[i].aborted = <<>> /\ inst[i].loop # "migrate_out"
  BY <1>1, NoAborts
<1>3. ASSUME NEW i \in Instances
      PROVE  \/ req'[i] = req[i]
             \/ \E m \in Messages : m.action # "Migrate_In" /\ req'[i] = Append(req[i], m)
  <2>1. [action |-> "Report"] \in Messages /\ [action |-> "Report"].action # "Migrate_In"
    BY DEF Messages
  <2>. QED
    BY <2>1 DEF RolloutPreProcess
<1>. QED
  BY <1>1, <1>2, <1>3, SchedulerPlace

LEMMA PreReportsPlace ==
    ASSUME IInv, PlaceInv, PreReports
    PROVE  PlaceInv'
<1>1. /\ spc = "report" /\ Answered(Alive) /\ Gather(Alive)
      /\ UNCHANGED <<inst, gen, output>>
  BY DEF PreReports, instVars
<1>2. \A i \in Instances : inst[i].aborted = <<>> /\ inst[i].loop # "migrate_out"
  BY <1>1, NoAborts
<1>3. Scatter(LowestAlive(PreRelease), "Migrate_Out") \/ Scatter(Alive, "Report")
  BY DEF PreReports, Migrate, AskReports
<1>4. ASSUME NEW i \in Instances
      PROVE  \/ req'[i] = req[i]
             \/ \E m \in Messages : m.action # "Migrate_In" /\ req'[i] = Append(req[i], m)
  BY <1>3, ScatterPlace DEF IInv
<1>. QED
  BY <1>1, <1>2, <1>4, GatherReports, SchedulerPlace

LEMMA MainReportsPlace ==
    ASSUME IInv, PlaceInv, MainReports
    PROVE  PlaceInv'
<1>1. /\ spc = "report" /\ Answered(Alive) /\ Gather(Alive)
      /\ UNCHANGED <<inst, gen, output>>
  BY DEF MainReports, instVars
<1>2. \A i \in Instances : inst[i].aborted = <<>> /\ inst[i].loop # "migrate_out"
  BY <1>1, NoAborts
<1> DEFINE n == MigratePolicy(cur["rollout"], cur["actor"], RunningTasks)
<1>3. \/ req' = req
      \/ Scatter(Alive, "Finish") \/ Scatter(Alive, "Wait_For_Finish")
      \/ Scatter(LowestAlive(n), "Migrate_Out")
  BY Zenon DEF MainReports, Migrate, Finish
<1> HIDE DEF n
<1>4. ASSUME NEW i \in Instances
      PROVE  \/ req'[i] = req[i]
             \/ \E m \in Messages : m.action # "Migrate_In" /\ req'[i] = Append(req[i], m)
  BY <1>3, ScatterPlace DEF IInv
<1>. QED
  BY <1>1, <1>2, <1>4, GatherReports, SchedulerPlace

LEMMA WaitActorPlace ==
    ASSUME IInv, PlaceInv, WaitActor
    PROVE  PlaceInv'
<1>1. spc = "wait_actor" /\ UNCHANGED <<inst, gen, output, resp>>
  BY DEF WaitActor, instVars
<1>2. \A i \in Instances : inst[i].aborted = <<>> /\ inst[i].loop # "migrate_out"
  BY <1>1, NoAborts
<1>3. \/ req' = req
      \/ \E action \in {"Finish", "Report"} : Scatter(Alive, action)
  BY DEF WaitActor, AskReports, Finish
<1>4. ASSUME NEW i \in Instances
      PROVE  \/ req'[i] = req[i]
             \/ \E m \in Messages : m.action # "Migrate_In" /\ req'[i] = Append(req[i], m)
  BY <1>3, ScatterPlace DEF IInv
<1>. QED
  BY <1>1, <1>2, <1>4, SchedulerPlace

(* An instance that has offloaded has nothing left.                        *)
LEMMA FinishedPlace ==
    ASSUME IInv, StartInv, PlaceInv, Finished
    PROVE  PlaceInv'
<1>1. /\ spc = "finish" /\ Answered(awaited) /\ Gather(awaited)
      /\ UNCHANGED <<inst, gen, output, req>>
  BY DEF Finished, instVars
<1>2. ASSUME NEW i \in awaited
      PROVE  /\ inst[i].roll = "end" /\ resp[i] # <<>>
             /\ resp[i][1].action = "Offloaded" /\ Tail(resp[i]) = <<>>
  <2>1. i \in Instances /\ InstanceInv(i) /\ resp[i] # <<>> /\ resp[i] \in Seq(Responses)
    BY <1>1 DEF IInv, TypeOK, TalkInv, Answered
  <2>2. Due(i) = {"Finish", "Wait_For_Finish"}
    BY <1>1 DEF Due
  <2>3. inst[i].roll = "end" /\ Len(resp[i]) = 1 /\ resp[i][1].action = "Offloaded"
    BY <2>1, <2>2 DEF InstanceInv, Talk, Left, Told
  <2>4. Tail(resp[i]) \in Seq(Responses) /\ Len(Tail(resp[i])) = 0
    BY <2>1, <2>3
  <2>5. \A t \in Seq(Responses) : Len(t) = 0 => t = <<>>
    OBVIOUS
  <2>. QED
    BY <2>1, <2>3, <2>4, <2>5
<1>3. ASSUME NEW i \in Instances
      PROVE  inst[i].aborted = <<>> /\ inst[i].loop # "migrate_out"
  <2>1. inst[i].loop # "migrate_out"
    BY <1>1, LoopSays
  <2>2. CASE i \in awaited
    BY <1>2, <2>1, <2>2 DEF StartInv, FreshInv, Fresh
  <2>3. CASE i \notin awaited
    BY <1>1, <2>1, <2>3 DEF PlaceInv, AbortsInv
  <2>. QED
    BY <2>1, <2>2, <2>3
<1>4. ASSUME NEW i \in Instances
      PROVE  \/ resp'[i] = resp[i]
             \/ /\ resp[i] # <<>> /\ resp[i][1].action # "Migrate_Out"
                /\ resp'[i] = <<>>
  BY <1>1, <1>2 DEF Gather
<1>. QED
  BY <1>1, <1>3, <1>4, SchedulerPlace

(* The inference's and the actor's turn ask the instances for nothing.     *)
LEMMA TurnsPlace ==
    ASSUME IInv, PlaceInv, InferenceTurn \/ ActorTurn
    PROVE  PlaceInv'
<1>1. spc \in {"inference", "actor"} /\ UNCHANGED <<inst, gen, output, req, resp>>
  BY DEF InferenceTurn, ActorTurn, instVars
<1>2. \A i \in Instances : inst[i].aborted = <<>> /\ inst[i].loop # "migrate_out"
  BY <1>1, NoAborts
<1>. QED
  BY <1>1, <1>2, SchedulerPlace

-----------------------------------------------------------------------------
(* Handing over groups: what the instances give back is put together, and  *)
(* every position of it is in exactly one share.                           *)

LEMMA ConcatDisjoint ==
    ASSUME NEW S, NEW a \in Seq(S), NEW b \in Seq(S)
    PROVE  /\ \A x : Contains(a \o b, x) <=> Contains(a, x) \/ Contains(b, x)
           /\ IsInjective(a) /\ IsInjective(b)
                /\ (\A x \in S : ~(Contains(a, x) /\ Contains(b, x))) => IsInjective(a \o b)
<1> DEFINE c == a \o b
<1>1. /\ Len(a) \in Nat /\ Len(b) \in Nat /\ Len(c) = Len(a) + Len(b)
      /\ \A i \in 1..(Len(a) + Len(b)) : c[i] = IF i <= Len(a) THEN a[i] ELSE b[i - Len(a)]
      /\ c \in Seq(S)
  BY ConcatProperties
<1>2. /\ DOMAIN a = 1..Len(a) /\ DOMAIN b = 1..Len(b) /\ DOMAIN c = 1..Len(c)
      /\ \A i \in 1..Len(a) : a[i] \in S
  BY <1>1
<1> HIDE DEF c
<1>3. \A i \in 1..Len(a) : i \in 1..Len(c) /\ c[i] = a[i]
  BY <1>1
<1>4. ASSUME NEW i \in 1..Len(b) PROVE i + Len(a) \in 1..Len(c) /\ c[i + Len(a)] = b[i]
  <2>1. /\ i + Len(a) \in 1..(Len(a) + Len(b)) /\ ~(i + Len(a) <= Len(a))
        /\ (i + Len(a)) - Len(a) = i
    BY <1>1
  <2>2. c[i + Len(a)] = b[(i + Len(a)) - Len(a)]
    BY <1>1, <2>1
  <2>. QED
    BY <1>1, <2>1, <2>2
<1>5. ASSUME NEW i \in 1..Len(c)
      PROVE  \/ i \in 1..Len(a)
             \/ i - Len(a) \in 1..Len(b) /\ c[i] = b[i - Len(a)] /\ i > Len(a)
  <2>1. i \in 1..(Len(a) + Len(b)) /\ i \in Int
    BY <1>1
  <2>2. c[i] = IF i <= Len(a) THEN a[i] ELSE b[i - Len(a)]
    BY <1>1, <2>1
  <2>3. i \in 1..Len(a) \/ (i > Len(a) /\ i - Len(a) \in 1..Len(b))
    BY <1>1, <2>1
  <2>. QED
    BY <1>1, <2>1, <2>2, <2>3
<1>6. ASSUME NEW x PROVE Contains(c, x) <=> Contains(a, x) \/ Contains(b, x)
  BY <1>3, <1>4, <1>5 DEF Contains
<1>7. ASSUME IsInjective(a), IsInjective(b), \A x \in S : ~(Contains(a, x) /\ Contains(b, x))
      PROVE  IsInjective(c)
  <2> SUFFICES ASSUME NEW i \in 1..Len(c), NEW j \in 1..Len(c), c[i] = c[j] PROVE i = j
    BY <1>2 DEF IsInjective
  <2>1. ASSUME NEW k \in 1..Len(a), NEW l \in 1..Len(b), a[k] = b[l] PROVE FALSE
    BY <1>2, <1>7, <2>1 DEF Contains
  <2>2. CASE i \in 1..Len(a) /\ j \in 1..Len(a)
    BY <1>2, <1>3, <1>7, <2>2 DEF IsInjective
  <2>3. CASE i \notin 1..Len(a) /\ j \notin 1..Len(a)
    <3>1. i - Len(a) = j - Len(a)
      BY <1>2, <1>5, <1>7, <2>3 DEF IsInjective
    <3>. QED
      BY <1>1, <3>1
  <2>4. CASE i \in 1..Len(a) /\ j \notin 1..Len(a)
    BY <1>3, <1>5, <2>1, <2>4
  <2>5. CASE i \notin 1..Len(a) /\ j \in 1..Len(a)
    BY <1>3, <1>5, <2>1, <2>5
  <2>. QED
    BY <2>2, <2>3, <2>4, <2>5
<1>. QED
  BY <1>6, <1>7 DEF c

LEMMA FlattenDisjoint ==
    ASSUME NEW S, NEW ss \in Seq(Seq(S)),
           \A k \in 1..Len(ss) : IsInjective(ss[k]),
           \A k, l \in 1..Len(ss) : \A x \in S :
              Contains(ss[k], x) /\ Contains(ss[l], x) => k = l
    PROVE  /\ IsInjective(FlattenSeq(ss))
           /\ \A x \in S : Contains(FlattenSeq(ss), x)
                              <=> \E k \in 1..Len(ss) : Contains(ss[k], x)
<1> DEFINE n == Len(ss)
<1>1. n \in Nat /\ \A k \in 1..n : ss[k] \in Seq(S)
  BY ElementOfSeq
<1>2. PICK f \in [1..n -> Seq(S)] :
        /\ \A k \in 1..n : f[k] = IF k = 1 THEN ss[k] ELSE f[k - 1] \o ss[k]
        /\ FlattenSeq(ss) = IF n = 0 THEN <<>> ELSE f[n]
  BY FlattenIs
<1> HIDE DEF n
<1> DEFINE Good(m) == /\ IsInjective(f[m])
                      /\ \A x \in S : Contains(f[m], x)
                                         <=> \E k \in 1..m : Contains(ss[k], x)
           M == {m \in Nat : m \in 1..n => Good(m)}
<1>3. 0 \in M
  OBVIOUS
<1>4. ASSUME NEW m \in Nat, m \in M, m + 1 \in 1..n PROVE Good(m + 1)
  <2>1. CASE m = 0
    <3>0. m + 1 = 1 /\ 1 \in 1..n /\ 1..1 = {1}
      BY <1>4, <2>1
    <3>1. f[m + 1] = ss[1] /\ 1..(m + 1) = {1} /\ 1 \in 1..n
      BY <1>2, <3>0
    <3>2. IsInjective(ss[1])
      BY <3>1 DEF n
    <3>. QED
      BY <3>1, <3>2
  <2>2. CASE m # 0
    <3>1. m \in 1..n /\ m + 1 # 1 /\ (m + 1) - 1 = m
      BY <1>1, <1>4, <2>2
    <3>2. f[m + 1] = f[m] \o ss[m + 1] /\ f[m] \in Seq(S) /\ ss[m + 1] \in Seq(S)
      BY <1>1, <1>2, <1>4, <3>1
    <3>3. Good(m)
      BY <1>4, <3>1
    <3>4. IsInjective(ss[m + 1])
      BY <1>4 DEF n
    <3>5. ASSUME NEW x \in S PROVE ~(Contains(f[m], x) /\ Contains(ss[m + 1], x))
      <4> SUFFICES ASSUME Contains(f[m], x), Contains(ss[m + 1], x) PROVE FALSE
        OBVIOUS
      <4>1. PICK k \in 1..m : Contains(ss[k], x)
        BY <3>3
      <4>2. k \in 1..n /\ k # m + 1
        BY <1>1, <3>1
      <4>. QED
        BY <1>4, <4>1, <4>2 DEF n
    <3>6. IsInjective(f[m + 1])
      BY <3>2, <3>3, <3>4, <3>5, ConcatDisjoint
    <3>7. ASSUME NEW x \in S
          PROVE  Contains(f[m + 1], x) <=> \E k \in 1..(m + 1) : Contains(ss[k], x)
      <4>1. Contains(f[m + 1], x) <=> Contains(f[m], x) \/ Contains(ss[m + 1], x)
        BY <3>2, ConcatDisjoint
      <4>2. \A k : k \in 1..(m + 1) <=> k \in 1..m \/ k = m + 1
        BY <3>1
      <4>. QED
        BY <3>3, <4>1, <4>2
    <3>. QED
      BY <3>6, <3>7
  <2>. QED
    BY <2>1, <2>2
<1>5. n \in M
  <2>1. \A m \in Nat : m \in M => m + 1 \in M
    <3>1. ASSUME NEW m \in Nat, m \in M PROVE m + 1 \in M
      <4> HIDE DEF Good
      <4>. QED
        BY <1>4, <3>1
    <3>. QED
      BY <3>1
  <2> HIDE DEF M
  <2>. QED
    BY <1>1, <1>3, <2>1, Induction
<1>6. CASE n = 0
  <2>1. FlattenSeq(ss) = <<>> /\ 1..n = {}
    BY <1>2, <1>6
  <2>. QED
    BY <2>1, NoGroupIn DEF n
<1>7. CASE n # 0
  <2>1. n \in 1..n /\ FlattenSeq(ss) = f[n]
    BY <1>1, <1>2, <1>7
  <2>2. Good(n)
    <3> HIDE DEF Good
    <3>. QED
      BY <1>5, <2>1
  <2>. QED
    BY <2>1, <2>2 DEF n
<1>. QED
  BY <1>6, <1>7

(* How many are gone once i has its share: none at first, no fewer than    *)
(* once an earlier instance has its share, and in the end all.             *)
LEMMA AssignedGrows ==
    ASSUME NEW batches \in Seq(Groups), NEW first \in Nat, first < RolloutInstances,
           reports \in [Instances -> Nat]
    PROVE  /\ Assigned(first, first - 1, batches) = 0
           /\ Assigned(first, RolloutInstances - 1, batches) = Len(batches)
           /\ \A i \in (first - 1)..(RolloutInstances - 1) :
                 Assigned(first, i, batches) \in 0..Len(batches)
           /\ \A i, j \in (first - 1)..(RolloutInstances - 1) :
                 i <= j => Assigned(first, i, batches) <= Assigned(first, j, batches)
<1>1. RolloutInstances \in Nat \ {0} /\ Len(batches) \in Nat
  BY ConfigAssumption, LenProperties
<1> DEFINE expected == Sum(Instances, reports) \div (RolloutInstances - first)
           room == [j \in Instances |->
                       IF reports[j] < expected THEN expected - reports[j] ELSE 0]
           gone(k) == Sum(first..k, room)
<1>2. expected \in Nat
  <2>1. IsFiniteSet(Instances)
    <3>1. 0 \in Int /\ RolloutInstances - 1 \in Int
      BY <1>1
    <3>. QED
      BY <3>1, FS_Interval DEF Instances
  <2>2. Sum(Instances, reports) \in Nat
    BY <2>1, SumType
  <2>3. RolloutInstances - first \in Nat \ {0}
    BY <1>1
  <2>4. \A x \in Nat : \A y \in Nat \ {0} : x \div y \in Nat
    BY Z3
  <2>. QED
    BY <2>2, <2>3, <2>4
<1>3. \A k : Assigned(first, k, batches) =
                IF k = RolloutInstances - 1 \/ gone(k) > Len(batches)
                THEN Len(batches) ELSE gone(k)
  BY DEF Assigned
<1> HIDE DEF expected
<1>4. \A j \in Instances : room[j] \in Nat
  BY <1>2
<1> HIDE DEF room
<1>5. ASSUME NEW k \in (first - 1)..(RolloutInstances - 1)
      PROVE  /\ IsFiniteSet(first..k) /\ first..k \subseteq Instances
             /\ k \in Int /\ gone(k) \in Nat
  <2>1. k \in Int /\ IsFiniteSet(first..k) /\ first..k \subseteq Instances
    <3>1. k \in Int
      BY <1>1
    <3>2. first..k \subseteq Instances
      BY <1>1 DEF Instances
    <3>. QED
      BY <3>1, <3>2, FS_Interval
  <2>2. gone(k) \in Nat
    BY <1>4, <2>1, SumType
  <2>. QED
    BY <2>1, <2>2
<1>6. ASSUME NEW i \in (first - 1)..(RolloutInstances - 1),
             NEW j \in (first - 1)..(RolloutInstances - 1), i <= j
      PROVE  gone(i) <= gone(j)
  <2>1. first..i \in SUBSET (first..j)
    BY <1>5, <1>6
  <2>2. \A k \in first..j : room[k] \in Nat
    BY <1>4, <1>5
  <2>. QED
    BY <1>5, <2>1, <2>2, SumMonotone
<1>7. gone(first - 1) = 0
  <2>1. first..(first - 1) = {}
    OBVIOUS
  <2>. QED
    BY <2>1, SumNone
<1> HIDE DEF gone
<1>8. first - 1 \in (first - 1)..(RolloutInstances - 1) /\ first - 1 # RolloutInstances - 1
      /\ RolloutInstances - 1 \in (first - 1)..(RolloutInstances - 1)
  BY <1>1
<1>9. Assigned(first, first - 1, batches) = 0
  BY <1>1, <1>3, <1>7, <1>8
<1>10. Assigned(first, RolloutInstances - 1, batches) = Len(batches)
  BY <1>3
<1>11. ASSUME NEW i \in (first - 1)..(RolloutInstances - 1)
       PROVE  Assigned(first, i, batches) \in 0..Len(batches)
  BY <1>1, <1>3, <1>5
<1>12. ASSUME NEW i \in (first - 1)..(RolloutInstances - 1),
              NEW j \in (first - 1)..(RolloutInstances - 1), i <= j
       PROVE  Assigned(first, i, batches) <= Assigned(first, j, batches)
  <2>1. gone(i) \in Nat /\ gone(j) \in Nat /\ gone(i) <= gone(j) /\ i \in Int /\ j \in Int
    BY <1>5, <1>6, <1>12
  <2>2. i = RolloutInstances - 1 => j = RolloutInstances - 1
    BY <1>1, <1>12, <2>1
  <2>. QED
    BY <1>1, <1>3, <2>1, <2>2
<1>. QED
  BY <1>9, <1>10, <1>11, <1>12

(* What a share holds: the batches from one such number to the next.       *)
LEMMA ShareHolds ==
    ASSUME NEW batches \in Seq(Groups), NEW first \in Nat, first < RolloutInstances,
           reports \in [Instances -> Nat], NEW i \in first..(RolloutInstances - 1), NEW x
    PROVE  Contains(Share(first, i, batches), x)
              <=> \E p \in 1..Len(batches) :
                     /\ Assigned(first, i - 1, batches) < p
                     /\ p <= Assigned(first, i, batches)
                     /\ batches[p] = x
<1> DEFINE a == Assigned(first, i - 1, batches)
           b == Assigned(first, i, batches)
           s == SubSeq(batches, a + 1, b)
<1>1. RolloutInstances \in Nat \ {0} /\ Len(batches) \in Nat
  BY ConfigAssumption, LenProperties
<1>2. i \in Int /\ i - 1 \in (first - 1)..(RolloutInstances - 1)
      /\ i \in (first - 1)..(RolloutInstances - 1)
  BY <1>1
<1>3. a \in 0..Len(batches) /\ b \in 0..Len(batches)
  BY <1>2, AssignedGrows
<1>4. Share(first, i, batches) = s
  BY DEF Share
<1> HIDE DEF a, b
<1>5. /\ Len(s) = IF a + 1 <= b THEN b - (a + 1) + 1 ELSE 0
      /\ \A k \in 1..(b - (a + 1) + 1) : s[k] = batches[(a + 1) + k - 1]
  <2>1. a + 1 \in Int /\ b \in Int
    BY <1>1, <1>3
  <2>2. \A k \in (a + 1)..b : batches[k] \in Groups
    BY <1>1, <1>3
  <2>. QED
    BY <2>1, <2>2, SubSeqProperties
<1> HIDE DEF s
<1>6. ASSUME NEW k \in 1..Len(s), s[k] = x
      PROVE  \E p \in 1..Len(batches) : a < p /\ p <= b /\ batches[p] = x
  <2>1. a + 1 <= b /\ k \in 1..(b - (a + 1) + 1)
    BY <1>1, <1>3, <1>5
  <2>2. s[k] = batches[(a + 1) + k - 1] /\ (a + 1) + k - 1 = a + k
    BY <1>1, <1>3, <1>5, <2>1
  <2>3. a + k \in 1..Len(batches) /\ a < a + k /\ a + k <= b
    BY <1>1, <1>3, <2>1
  <2>. QED
    BY <1>6, <2>2, <2>3
<1>7. ASSUME NEW p \in 1..Len(batches), a < p, p <= b, batches[p] = x
      PROVE  \E k \in 1..Len(s) : s[k] = x
  <2>1. /\ p - a \in 1..Len(s) /\ p - a \in 1..(b - (a + 1) + 1)
        /\ (a + 1) + (p - a) - 1 = p
    BY <1>1, <1>3, <1>5, <1>7
  <2>2. s[p - a] = batches[p]
    BY <1>5, <2>1
  <2>. QED
    BY <1>7, <2>1, <2>2
<1>. QED
  BY <1>4, <1>6, <1>7 DEF Contains, a, b

(* So each of the batches, if they are distinct, is in exactly one share.  *)
LEMMA SharesSplit ==
    ASSUME NEW batches \in Seq(Groups), IsInjective(batches),
           NEW first \in Nat, first < RolloutInstances, reports \in [Instances -> Nat], NEW x
    PROVE  /\ \A i \in first..(RolloutInstances - 1) :
                 Contains(Share(first, i, batches), x) => Contains(batches, x)
           /\ Contains(batches, x) =>
                 \E i \in first..(RolloutInstances - 1) :
                    \A j \in first..(RolloutInstances - 1) :
                       Contains(Share(first, j, batches), x) <=> j = i
<1> DEFINE A(k) == Assigned(first, k, batches)
           R == RolloutInstances
           In(k, p) == A(k - 1) < p /\ p <= A(k)
<1>1. R \in Nat \ {0} /\ Len(batches) \in Nat
  BY ConfigAssumption, LenProperties
<1>2. /\ A(first - 1) = 0 /\ A(R - 1) = Len(batches)
      /\ \A i \in (first - 1)..(R - 1) : A(i) \in 0..Len(batches)
      /\ \A i, j \in (first - 1)..(R - 1) : i <= j => A(i) <= A(j)
  BY AssignedGrows
<1>3. \A i \in first..(R - 1) :
        Contains(Share(first, i, batches), x)
           <=> \E p \in 1..Len(batches) : In(i, p) /\ batches[p] = x
  BY ShareHolds
<1>4. \A i \in first..(R - 1) : Contains(Share(first, i, batches), x) => Contains(batches, x)
  BY <1>3 DEF Contains
<1> HIDE DEF A, R
<1>5. ASSUME Contains(batches, x)
      PROVE  \E i \in first..(R - 1) : \A j \in first..(R - 1) :
                Contains(Share(first, j, batches), x) <=> j = i
  <2>1. PICK p \in 1..Len(batches) : batches[p] = x
    BY <1>5 DEF Contains
  <2>2. \A q \in 1..Len(batches) : batches[q] = x => q = p
    BY <2>1 DEF IsInjective
  <2>3. \E i \in first..(R - 1) : In(i, p)
    <3> SUFFICES ASSUME \A i \in first..(R - 1) : ~In(i, p) PROVE FALSE
      OBVIOUS
    <3> DEFINE M == {m \in Nat : first - 1 + m <= R - 1 => A(first - 1 + m) < p}
    <3>1. 0 \in M
      BY <1>1, <1>2, <2>1
    <3>2. ASSUME NEW m \in Nat, m \in M PROVE m + 1 \in M
      <4> SUFFICES ASSUME first - 1 + (m + 1) <= R - 1 PROVE A(first - 1 + (m + 1)) < p
        OBVIOUS
      <4> DEFINE k == first + m
      <4>1. /\ first - 1 + (m + 1) = k /\ first - 1 + m = k - 1
            /\ k \in first..(R - 1) /\ k \in (first - 1)..(R - 1)
        BY <1>1
      <4>2. A(k - 1) < p
        BY <1>1, <3>2, <4>1
      <4>3. A(k) \in Int
        BY <1>2, <4>1
      <4> HIDE DEF k
      <4>4. ~(p <= A(k))
        BY <4>1, <4>2
      <4>. QED
        BY <2>1, <4>1, <4>3, <4>4
    <3>3. R - first \in Nat
      BY <1>1 DEF R
    <3>4. R - first \in M
      <4> HIDE DEF M
      <4>. QED
        BY <3>1, <3>2, <3>3, Induction
    <3>5. first - 1 + (R - first) = R - 1
      BY <1>1
    <3>6. A(R - 1) < p
      BY <1>1, <3>3, <3>4, <3>5
    <3>. QED
      BY <1>1, <1>2, <3>6
  <2>4. PICK i \in first..(R - 1) : In(i, p)
    BY <2>3
  <2>5. ASSUME NEW j \in first..(R - 1), In(j, p) PROVE j = i
    <3>1. /\ i \in Int /\ j \in Int
          /\ i \in (first - 1)..(R - 1) /\ i - 1 \in (first - 1)..(R - 1)
          /\ j \in (first - 1)..(R - 1) /\ j - 1 \in (first - 1)..(R - 1)
      BY <1>1
    <3>2. A(i) \in Int /\ A(i - 1) \in Int /\ A(j) \in Int /\ A(j - 1) \in Int
      BY <1>2, <3>1
    <3>3. ~(i < j)
      <4> SUFFICES ASSUME i < j PROVE FALSE
        OBVIOUS
      <4>1. A(i) <= A(j - 1)
        BY <1>2, <3>1
      <4>. QED
        BY <2>1, <2>4, <2>5, <3>2, <4>1
    <3>4. ~(j < i)
      <4> SUFFICES ASSUME j < i PROVE FALSE
        OBVIOUS
      <4>1. A(j) <= A(i - 1)
        BY <1>2, <3>1
      <4>. QED
        BY <2>1, <2>4, <2>5, <3>2, <4>1
    <3>. QED
      BY <3>1, <3>3, <3>4
  <2>6. \A j \in first..(R - 1) :
          (\E q \in 1..Len(batches) : In(j, q) /\ batches[q] = x) <=> j = i
    BY <2>1, <2>2, <2>4, <2>5
  <2>. QED
    BY <1>3, <2>6
<1>. QED
  BY <1>4, <1>5 DEF R

(* What the instances that migrate out have given back holds each of their *)
(* groups once, and nothing else.                                          *)
LEMMA BatchesHold ==
    ASSUME IInv, PlaceInv, spc = "migrate_out", Answered(awaited)
    PROVE  /\ IsInjective(MigrateOutBatches)
           /\ \A g \in Groups : Contains(MigrateOutBatches, g)
                                   <=> \E i \in awaited : Has("response", i, g)
<1>1. TypeOK /\ BooksInv
  BY DEF IInv
<1>2. /\ Offset \in Nat /\ Offset + cur["rollout"] = RolloutInstances
      /\ cur["rollout"] \in Nat /\ Alive \subseteq Instances
  BY <1>1, AliveShape
<1>3. PICK n \in 0..cur["rollout"] : awaited = LowestAlive(n) /\ n < cur["rollout"]
  BY <1>1, AwaitedShape
<1>4. awaited = Offset..(Offset + n - 1) /\ Cardinality(awaited) = n /\ n \in Nat
  BY <1>1, <1>2, <1>3, AliveShape
<1>5. awaited \subseteq Instances
  BY <1>1 DEF TypeOK
<1> DEFINE given == [k \in 1..n |-> Head(resp[Offset + k - 1]).data]
<1>6. ASSUME NEW k \in 1..n
      PROVE  /\ Offset + k - 1 \in awaited /\ given[k] \in Seq(Groups)
             /\ IsInjective(given[k])
             /\ \A g : Contains(given[k], g) <=> Has("response", Offset + k - 1, g)
  <2> DEFINE i == Offset + k - 1
  <2>1. i \in awaited
    BY <1>2, <1>4
  <2>2. given[k] = Head(resp[i]).data
    OBVIOUS
  <2> HIDE DEF i, given
  <2>3. Due(i) = {"Migrate_Out"} /\ resp[i] # <<>> /\ i \in Instances
    BY <1>5, <2>1 DEF Due, Answered
  <2>4. Head(resp[i]) \in Responses /\ Head(resp[i]).action = "Migrate_Out"
    BY <2>3, HasAnswered
  <2>5. Head(resp[i]) = resp[i][1]
    BY <1>1, <2>3 DEF TypeOK
  <2>6. Head(resp[i]).data \in Seq(Groups)
    BY <2>4 DEF Responses
  <2>7. IsInjective(resp[i][1].data)
    BY <2>3, <2>4, <2>5 DEF PlaceInv, AbortsInv
  <2>8. \A g : Contains(resp[i][1].data, g) <=> Has("response", i, g)
    BY <2>3, <2>4, <2>5 DEF Has
  <2>. QED
    BY <2>1, <2>2, <2>5, <2>6, <2>7, <2>8 DEF i
<1>7. given \in Seq(Seq(Groups)) /\ Len(given) = n
  <2>1. \A k \in 1..n : Head(resp[Offset + k - 1]).data \in Seq(Groups)
    BY <1>6
  <2>. QED
    BY <1>4, <2>1, IsASeq
<1>8. MigrateOutBatches = FlattenSeq(given)
  BY <1>4 DEF MigrateOutBatches
<1> HIDE DEF given
<1>9. ASSUME NEW k \in 1..n, NEW l \in 1..n, NEW g \in Groups,
             Contains(given[k], g), Contains(given[l], g)
      PROVE  k = l
  <2>1. Has("response", Offset + k - 1, g) /\ Has("response", Offset + l - 1, g)
    BY <1>6, <1>9
  <2>2. Offset + k - 1 \in Instances /\ Offset + l - 1 \in Instances
    BY <1>5, <1>6
  <2>3. "response" \in Kinds /\ OneHolder(g)
    BY DEF Kinds, PlaceInv, Whereabouts
  <2>4. Offset + k - 1 = Offset + l - 1
    BY <2>1, <2>2, <2>3 DEF OneHolder
  <2>. QED
    BY <1>2, <2>4
<1>10. /\ IsInjective(FlattenSeq(given))
       /\ \A g \in Groups : Contains(FlattenSeq(given), g)
                               <=> \E k \in 1..n : Contains(given[k], g)
  <2>1. \A k \in 1..Len(given) : IsInjective(given[k])
    BY <1>6, <1>7
  <2>2. \A k, l \in 1..Len(given) : \A g \in Groups :
            Contains(given[k], g) /\ Contains(given[l], g) => k = l
    BY <1>7, <1>9
  <2>. QED
    BY <1>7, <2>1, <2>2, FlattenDisjoint
<1>11. ASSUME NEW i \in awaited PROVE i - Offset + 1 \in 1..n /\ Offset + (i - Offset + 1) - 1 = i
  BY <1>2, <1>4
<1>12. ASSUME NEW g \in Groups
       PROVE  (\E k \in 1..n : Contains(given[k], g))
                 <=> \E i \in awaited : Has("response", i, g)
  <2>1. ASSUME NEW k \in 1..n, Contains(given[k], g)
        PROVE  \E i \in awaited : Has("response", i, g)
    BY <1>6, <2>1
  <2>2. ASSUME NEW i \in awaited, Has("response", i, g)
        PROVE  \E k \in 1..n : Contains(given[k], g)
    <3>1. i - Offset + 1 \in 1..n /\ Has("response", Offset + (i - Offset + 1) - 1, g)
      BY <1>11, <2>2
    <3>2. Contains(given[i - Offset + 1], g)
      BY <1>6, <3>1
    <3>. QED
      BY <3>1, <3>2
  <2>. QED
    BY <2>1, <2>2
<1>. QED
  BY <1>8, <1>10, <1>12

(* What migrate does to the queues: the answers are taken, and an instance *)
(* that stays is handed its share.                                         *)
LEMMA MigratedDoes ==
    ASSUME IInv, Migrated, NEW i \in Instances
    PROVE  /\ i \in awaited => /\ resp'[i] = <<>> /\ req[i] = <<>>
                               /\ req'[i] # <<>> /\ req'[i][1].action = "Finish"
           /\ i \notin awaited => resp'[i] = resp[i]
           /\ i \in (Offset + Cardinality(awaited))..(RolloutInstances - 1) =>
                 /\ i \notin awaited /\ req[i] = <<>>
                 /\ \A g : Has("request", i, g)' <=>
                       Contains(Share(Offset + Cardinality(awaited), i, MigrateOutBatches), g)
           /\ i \notin awaited /\ i \notin (Offset + Cardinality(awaited))..(RolloutInstances - 1)
                 => req'[i] = req[i]
<1>1. /\ TypeOK /\ BooksInv /\ spc = "migrate_out" /\ InstanceInv(i)
      /\ Answered(awaited) /\ Gather(awaited)
  BY DEF IInv, TalkInv, Migrated
<1>2. /\ Offset \in Nat /\ Offset + cur["rollout"] = RolloutInstances
      /\ cur["rollout"] \in Nat /\ Alive \subseteq Instances
  BY <1>1, AliveShape
<1>3. PICK n \in 0..cur["rollout"] : awaited = LowestAlive(n) /\ n < cur["rollout"]
  BY <1>1, AwaitedShape
<1>4. awaited = Offset..(Offset + n - 1) /\ Cardinality(awaited) = n /\ n \in Nat
  BY <1>1, <1>2, <1>3, AliveShape
<1> DEFINE first == Offset + Cardinality(awaited)
           ShareOf(j) == Share(first, j, MigrateOutBatches)
<1>5. req' = [j \in Instances |->
                IF j \in awaited
                THEN Append(req[j], [action |-> "Finish"])
                ELSE IF j \in Alive /\ ShareOf(j) # <<>>
                THEN Append(req[j], [action |-> "Migrate_In", data |-> ShareOf(j)])
                ELSE req[j]]
  BY DEF Migrated
<1>6. /\ i \in first..(RolloutInstances - 1) <=> i \in Alive /\ i \notin awaited
      /\ i \in awaited => i \in Alive
  <2>1. first = Offset + n /\ i \in Int
    BY <1>4 DEF Instances
  <2> HIDE DEF first
  <2>. QED
    BY <1>2, <1>3, <1>4, <2>1 DEF Alive
<1> HIDE DEF first, ShareOf
<1>7. ASSUME i \in awaited
      PROVE  /\ resp'[i] = <<>> /\ req[i] = <<>>
             /\ req'[i] # <<>> /\ req'[i][1].action = "Finish"
  <2>1. Due(i) = {"Migrate_Out"} /\ resp[i] # <<>>
    BY <1>1, <1>7 DEF Due, Answered
  <2>2. req[i] = <<>> /\ Tail(resp[i]) = <<>>
    BY <2>1, HasAnswered
  <2>3. req'[i] = Append(<<>>, [action |-> "Finish"])
    BY <1>5, <1>7, <2>2
  <2>4. req'[i] # <<>> /\ req'[i][1] = [action |-> "Finish"]
    BY <2>3
  <2>. QED
    BY <1>1, <1>7, <2>2, <2>4 DEF Gather
<1>8. i \notin awaited => resp'[i] = resp[i]
  BY <1>1 DEF Gather
<1>9. ASSUME i \in first..(RolloutInstances - 1)
      PROVE  /\ i \notin awaited /\ req[i] = <<>>
             /\ \A g : Has("request", i, g)' <=> Contains(ShareOf(i), g)
  <2>1. i \in Alive /\ i \notin awaited /\ Takes(i) /\ Due(i) = {}
    BY <1>1, <1>6, <1>9 DEF Takes, Due
  <2>2. req[i] = <<>>
    BY <1>1, <2>1 DEF InstanceInv, Talk, Unasked, Asked
  <2>3. CASE ShareOf(i) = <<>>
    <3>1. req'[i] = <<>>
      BY <1>5, <2>1, <2>2, <2>3
    <3>. QED
      BY <2>1, <2>2, <2>3, <3>1, NoGroupIn DEF Has
  <2>4. CASE ShareOf(i) # <<>>
    <3> DEFINE m == [action |-> "Migrate_In", data |-> ShareOf(i)]
    <3>1. req'[i] = Append(<<>>, m)
      BY <1>5, <2>1, <2>2, <2>4
    <3>2. m.action = "Migrate_In" /\ m.data = ShareOf(i)
      OBVIOUS
    <3> HIDE DEF m
    <3>3. req'[i] # <<>> /\ req'[i][1] = m
      BY <3>1
    <3>. QED
      BY <2>1, <2>2, <3>2, <3>3 DEF Has
  <2>. QED
    BY <2>3, <2>4
<1>10. i \notin awaited /\ i \notin first..(RolloutInstances - 1) => req'[i] = req[i]
  BY <1>5, <1>6
<1>. QED
  BY <1>7, <1>8, <1>9, <1>10 DEF first, ShareOf

LEMMA MigratedPlace ==
    ASSUME IInv, PlaceInv, Migrated
    PROVE  PlaceInv'
<1> DEFINE batches == MigrateOutBatches
           first == Offset + Cardinality(awaited)
           stay == first..(RolloutInstances - 1)
<1>1. /\ TypeOK /\ spc = "migrate_out" /\ spc' = "finish" /\ Answered(awaited)
      /\ UNCHANGED <<inst, gen, output, awaited>>
  BY DEF IInv, Migrated, instVars
<1>2. /\ batches \in Seq(Groups) /\ first \in Nat /\ first < RolloutInstances
      /\ awaited \subseteq Instances /\ stay \subseteq Instances
      /\ reports \in [Instances -> Nat]
  <2>1. batches \in Seq(Groups) /\ first \in Nat /\ first < RolloutInstances
    BY <1>1, BatchesType
  <2> HIDE DEF first
  <2>. QED
    BY <1>1, <2>1 DEF TypeOK, Instances
<1>3. /\ IsInjective(batches)
      /\ \A g \in Groups : Contains(batches, g) <=> \E i \in awaited : Has("response", i, g)
  BY <1>1, BatchesHold
<1>4. ASSUME NEW i \in Instances
      PROVE  /\ i \in awaited => /\ resp'[i] = <<>> /\ req[i] = <<>>
                                 /\ req'[i] # <<>> /\ req'[i][1].action = "Finish"
             /\ i \notin awaited => resp'[i] = resp[i]
             /\ i \in stay => /\ i \notin awaited /\ req[i] = <<>>
                              /\ \A g : Has("request", i, g)'
                                           <=> Contains(Share(first, i, batches), g)
             /\ i \notin awaited /\ i \notin stay => req'[i] = req[i]
  BY MigratedDoes
<1> HIDE DEF batches, first
<1>5. ASSUME NEW i \in Instances PROVE AbortsInv(i)'
  <2>1. AbortsInv(i)
    BY DEF PlaceInv
  <2>2. inst[i].aborted # <<>> => inst[i].loop = "migrate_out" \/ i \in awaited
    BY <1>1, <2>1 DEF AbortsInv
  <2>3. resp'[i] # <<>> => resp'[i] = resp[i]
    BY <1>4
  <2>. QED
    BY <1>1, <2>1, <2>2, <2>3 DEF AbortsInv
<1>6. \A g \in Groups, m \in Kinds, n \in Instances :
        m \notin {"response", "request"} => (Has(m, n, g)' <=> Has(m, n, g))
  BY <1>1 DEF Has
<1>7. \A g \in Groups, n \in Instances :
        Has("response", n, g)' <=> Has("response", n, g) /\ n \notin awaited
  BY <1>4 DEF Has
<1>8. \A g \in Groups, n \in Instances : n \notin stay =>
        (Has("request", n, g)' <=> Has("request", n, g))
  BY <1>4 DEF Has
<1>9. \A g \in Groups, n \in Instances : n \in stay =>
        /\ ~Has("request", n, g)
        /\ Has("request", n, g)' <=> Contains(Share(first, n, batches), g)
  BY <1>4 DEF Has
<1>10. ASSUME NEW g \in Groups PROVE Whereabouts(g)'
  <2>1. Whereabouts(g) /\ "response" \in Kinds /\ "request" \in Kinds
    BY DEF PlaceInv, Kinds
  <2>2. CASE Contains(batches, g)
    <3>1. PICK i \in awaited : Has("response", i, g)
      BY <1>3, <2>2
    <3>2. \A m \in Kinds, n \in Instances : Has(m, n, g) => m = "response" /\ n = i
      BY <1>2, <2>1, <3>1 DEF Whereabouts, OneHolder
    <3>3. PICK j \in stay :
            \A n \in stay : Contains(Share(first, n, batches), g) <=> n = j
      BY <1>2, <1>3, <2>2, SharesSplit
    <3>4. output'[g] = 0
      <4>1. output[g] \in Nat
        BY <1>1 DEF TypeOK
      <4>. QED
        BY <1>1, <1>2, <2>1, <3>1, <4>1 DEF Whereabouts
    <3>5. ASSUME NEW m \in Kinds, NEW n \in Instances
          PROVE  Has(m, n, g)' <=> m = "request" /\ n = j
      <4>1. CASE m \notin {"response", "request"}
        BY <1>6, <3>2, <4>1
      <4>2. CASE m = "response"
        BY <1>7, <3>1, <3>2, <4>2
      <4>3. CASE m = "request"
        BY <1>8, <1>9, <3>2, <3>3, <4>3
      <4>. QED
        BY <4>1, <4>2, <4>3
    <3>6. j \in Instances
      BY <1>2
    <3>. QED
      BY <2>1, <3>4, <3>5, <3>6, MovedPlace
  <2>3. CASE ~Contains(batches, g)
    <3>1. \A n \in awaited : ~Has("response", n, g)
      BY <1>3, <2>3
    <3>2. \A n \in stay : ~Contains(Share(first, n, batches), g)
      BY <1>2, <1>3, <2>3, SharesSplit
    <3>3. ASSUME NEW m \in Kinds, NEW n \in Instances
          PROVE  Has(m, n, g)' <=> Has(m, n, g)
      <4>1. CASE m \notin {"response", "request"}
        BY <1>6, <4>1
      <4>2. CASE m = "response"
        BY <1>7, <3>1, <4>2
      <4>3. CASE m = "request"
        BY <1>8, <1>9, <3>2, <4>3
      <4>. QED
        BY <4>1, <4>2, <4>3
    <3>. QED
      BY <1>1, <2>1, <3>3, SamePlace
  <2>. QED
    BY <2>2, <2>3
<1>. QED
  BY <1>5, <1>10 DEF PlaceInv

LEMMA NextPlace ==
    ASSUME IInv, StartInv, PlaceInv, [Next]_vars
    PROVE  PlaceInv'
<1>1. CASE Scheduler
  BY <1>1, RolloutPreProcessPlace, PreReportsPlace, WaitActorPlace, MainReportsPlace,
     MigratedPlace, FinishedPlace, TurnsPlace DEF Scheduler
<1>2. ASSUME NEW i \in Instances, RolloutCoroutine(i) PROVE PlaceInv'
  BY <1>2, StartRolloutPlace, WaitReturnsPlace, PutResultPlace, MarkDonePlace,
     MarkAbortedPlace, NotifiedPlace, OffloadPlace DEF RolloutCoroutine
<1>3. ASSUME NEW i \in Instances, MainLoop(i) PROVE PlaceInv'
  BY <1>3, MainLoopPlace
<1>4. ASSUME NEW g \in Groups, Generate(g) PROVE PlaceInv'
  BY <1>4, GeneratePlace
<1>5. CASE Actor
  <2>1. UNCHANGED <<spc, awaited, inst, gen, output, req, resp>>
    BY <1>5 DEF Actor, ActorPreProcess, ActorTrain, ActorScale, schedVars, instVars
  <2>. QED
    BY <2>1, ElsewherePlace
<1>6. CASE InferenceFinishes
  <2>1. UNCHANGED <<spc, awaited, inst, gen, output, req, resp>>
    BY <1>6 DEF InferenceFinishes, schedVars, instVars
  <2>. QED
    BY <2>1, ElsewherePlace
<1>7. CASE NextRound
  BY <1>7, NextRoundPlace
<1>8. CASE UNCHANGED vars
  <2>1. UNCHANGED <<spc, awaited, inst, gen, output, req, resp>>
    BY <1>8 DEF vars, schedVars, instVars
  <2>. QED
    BY <2>1, ElsewherePlace
<1>. QED
  BY <1>1, <1>2, <1>3, <1>4, <1>5, <1>6, <1>7, <1>8 DEF Next

LEMMA PlaceInvariant ==
    ASSUME UsePreProcess
    PROVE  Spec => [](IInv /\ StartInv /\ PlaceInv)
<1>1. Init => PlaceInv
  BY InitPlace
<1>2. IInv /\ StartInv /\ PlaceInv /\ [Next]_vars => PlaceInv'
  BY NextPlace
<1>3. Spec => [](IInv /\ StartInv)
  BY StartInvariant
<1>. QED
  BY <1>1, <1>2, <1>3, PTL DEF Spec

(* Migration neither loses nor duplicates a sequence group: under the same *)
(* condition every group is at any time in exactly one place, and is put   *)
(* on the output channel at most once, whatever the reports say and        *)
(* however the groups are split among instances.                           *)
THEOREM EachInOnePlace ==
    ASSUME UsePreProcess
    PROVE  Spec => []OnePlace
<1>1. IInv /\ PlaceInv => OnePlace
  BY WhereaboutsOnePlace DEF PlaceInv, OnePlace
<1>. QED
  BY <1>1, PlaceInvariant, PTL

=============================================================================
