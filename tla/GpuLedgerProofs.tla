--------------------------- MODULE GpuLedgerProofs ---------------------------
(***************************************************************************)
(* For every cluster, model-parallel sizes and number of train steps, the  *)
(* scheduler's books balance and try_allocate's assertion cannot fail.     *)
(***************************************************************************)
EXTENDS GpuLedger, WellFoundedInduction, TLAPS

(* A non-empty set of naturals with an upper bound has a largest element.  *)
LEMMA LargestExists ==
    ASSUME NEW S \in SUBSET Nat, S # {}, NEW b \in Nat, \A e \in S : e <= b
    PROVE  /\ Largest(S) \in S
           /\ \A e \in S : e <= Largest(S)
<1> DEFINE T == {b - e : e \in S}
<1>1. T \subseteq Nat /\ T # {}
  <2>1. \A e \in S : e \in Nat /\ b - e \in Nat
    OBVIOUS
  <2>2. PICK e \in S : TRUE
    OBVIOUS
  <2>3. b - e \in T
    OBVIOUS
  <2> QED BY <2>1, <2>3
<1>2. PICK x \in T : \A y \in T : ~(<<y, x>> \in OpToRel(<, Nat))
  <2> HIDE DEF T
  <2> QED BY <1>1, NatLessThanWellFounded, WFMin
<1>3. \A y \in T : ~(y < x)
  <2>1. \A y \in T : <<y, x>> \in Nat \X Nat
    BY <1>1
  <2>2. \A y \in T : <<y, x>> \in OpToRel(<, Nat) <=> y < x
    BY <2>1 DEF OpToRel
  <2> QED BY <1>2, <2>2
<1>4. PICK d \in S : x = b - d
  OBVIOUS
<1>5. \A e \in S : e <= d
  <2> TAKE e \in S
  <2>1. b - e \in T
    OBVIOUS
  <2>2. ~(b - e < x)
    BY <1>3, <2>1
  <2> QED BY <1>4, <2>2
<1> QED BY <1>5 DEF Largest

(* Multiplying by a natural is monotone and distributes over differences.  *)
LEMMA Multiply ==
    ASSUME NEW a \in Nat, NEW c \in Nat, NEW b \in Nat
    PROVE  /\ a * b \in Nat
           /\ (a + c) * b = a * b + c * b
           /\ c <= a => (a - c) * b = a * b - c * b
           /\ c <= a => c * b <= a * b
<1>1. a * b \in Nat /\ c * b \in Nat /\ (a + c) * b = a * b + c * b
  OBVIOUS
<1>2. ASSUME c <= a PROVE (a - c) * b = a * b - c * b /\ (a - c) * b \in Nat
  BY <1>2
<1> QED BY <1>1, <1>2

(* What CeilDiv and \div return, for the naturals the managers divide.     *)
LEMMA Divide ==
    ASSUME NEW x \in Nat, NEW b \in Nat \ {0}, NEW m \in Nat
    PROVE  /\ (m * b) \div b = m
           /\ x \div b \in Nat
           /\ CeilDiv(x, b) \in Nat
           /\ x <= m * b => CeilDiv(x, b) <= m
<1>1. m * b \in Nat
  OBVIOUS
<1>2. (m * b) \div b = m
  BY <1>1
<1>3. x \div b \in Nat /\ CeilDiv(x, b) \in Nat
  BY DEF CeilDiv
<1>4. ASSUME x <= m * b PROVE CeilDiv(x, b) <= m
  <2> DEFINE q == CeilDiv(x, b)
  <2>1. q * b <= x + b - 1
    BY DEF CeilDiv
  <2>2. ~(q >= m + 1)
    <3> SUFFICES ASSUME q >= m + 1 PROVE FALSE
      OBVIOUS
    <3> q \in Nat
      BY <1>3
    <3> HIDE DEF q
    <3>1. (m + 1) * b <= q * b
      BY Multiply
    <3>2. (m + 1) * b = m * b + b
      OBVIOUS
    <3>3. q * b \in Nat
      OBVIOUS
    <3> QED BY <1>1, <1>4, <2>1, <3>1, <3>2, <3>3
  <2> QED BY <1>3, <2>2
<1> QED BY <1>2, <1>3, <1>4

(* The sizes of the cluster are naturals, and every valid data-parallel    *)
(* size fits in it.                                                        *)
LEMMA ClusterTypes ==
    /\ ActorGpus \in Nat
    /\ RolloutBase \in Nat
    /\ RolloutInstances * RolloutMP \in Nat
    /\ InferenceInstances * InferenceMP \in Nat
    /\ TotalGpus \in Nat
    /\ TotalGpus \div ActorMP \in Nat
    /\ PreRelease \in Nat
    /\ ValidDpSizes \subseteq Nat \ {0}
    /\ \A d \in ValidDpSizes : d <= TotalGpus \div ActorMP
<1>1. ActorGpus \in Nat
  BY ConfigAssumption, Multiply DEF ActorGpus
<1>2. RolloutBase \in Nat
  BY <1>1 DEF RolloutBase
<1>3. RolloutInstances * RolloutMP \in Nat /\ InferenceInstances * InferenceMP \in Nat
  BY ConfigAssumption, Multiply
<1>4. TotalGpus \in Nat
  BY <1>2, <1>3 DEF TotalGpus, InferenceBase
<1>5. TotalGpus \div ActorMP \in Nat /\ PreRelease \in Nat
  BY <1>1, <1>4, ConfigAssumption, Divide DEF PreRelease
<1> QED BY <1>1, <1>2, <1>3, <1>4, <1>5 DEF ValidDpSizes

(* try_allocate never takes more than there is, takes whole actor          *)
(* instances, and leaves the actor at a valid size.                        *)
LEMMA IncrementFits ==
    ASSUME NEW actor \in Nat, NEW gpus \in Nat
    PROVE  \E n \in Nat : /\ Increment(actor, gpus) = n * ActorMP
                          /\ n * ActorMP \in Nat
                          /\ n * ActorMP <= gpus
                          /\ n = 0 \/ actor + n \in ValidDpSizes
<1> DEFINE S == Affordable(actor, gpus)
<1>1. CASE S = {}
  <2>1. Increment(actor, gpus) = 0 * ActorMP
    BY <1>1, ConfigAssumption DEF Increment
  <2> QED BY <2>1, ConfigAssumption
<1>2. CASE S # {}
  <2>1. /\ S \in SUBSET Nat
        /\ \A e \in S : e <= TotalGpus \div ActorMP
    BY ClusterTypes DEF Affordable
  <2>2. Largest(S) \in S
    BY <1>2, <2>1, ClusterTypes, LargestExists
  <2> DEFINE n == Largest(S) - actor
  <2>3. /\ n \in Nat /\ n * ActorMP <= gpus
        /\ actor + n \in ValidDpSizes
    <3> DEFINE d == Largest(S)
    <3>1. /\ d \in ValidDpSizes /\ d \in Nat /\ d > actor
          /\ (d - actor) * ActorMP <= gpus
      BY <2>2, ClusterTypes DEF Affordable
    <3> HIDE DEF d
    <3>2. d - actor \in Nat /\ actor + (d - actor) = d
      BY <3>1
    <3> QED BY <3>1, <3>2 DEF d
  <2>4. Increment(actor, gpus) = n * ActorMP
    BY <1>2 DEF Increment
  <2>5. n * ActorMP \in Nat
    BY <2>3, ConfigAssumption, Multiply
  <2> QED BY <2>3, <2>4, <2>5
<1> QED BY <1>1, <1>2

(* find_release_instance_num_needed's own assertion: it never asks for     *)
(* more instances than it was allowed.                                     *)
LEMMA ReleaseFits ==
    ASSUME NEW most \in Nat, NEW actor \in Nat
    PROVE  ReleaseNeeded(most, actor) \in 0..most
<1>1. most * RolloutMP \in Nat
  BY ConfigAssumption, Multiply
<1>2. Increment(actor, most * RolloutMP) \in 0..(most * RolloutMP)
  <2> DEFINE g == most * RolloutMP
  <2>1. g \in Nat
    BY <1>1
  <2> HIDE DEF g
  <2>2. PICK n \in Nat : /\ Increment(actor, g) = n * ActorMP
                         /\ n * ActorMP \in Nat
                         /\ n * ActorMP <= g
    BY <2>1, IncrementFits
  <2>3. Increment(actor, g) \in 0..g
    BY <2>1, <2>2
  <2> QED BY <2>3 DEF g
<1> DEFINE x == Increment(actor, most * RolloutMP)
<1>3. x \in Nat /\ x <= most * RolloutMP
  BY <1>1, <1>2
<1> HIDE DEF x
<1>4. CeilDiv(x, RolloutMP) \in 0..most
  BY <1>3, ConfigAssumption, Divide
<1> QED BY <1>4 DEF ReleaseNeeded, x

-----------------------------------------------------------------------------
(* The books balance only together with the types and with the actor being *)
(* at a valid size, which is what try_allocate's next call starts from.    *)
IInv == TypeOK /\ ActorSizeValid /\ GpusConserved

(* The inductive invariant holds initially: the components of the AUTO     *)
(* placement cover the cluster, apart from the GPUs the rollout borrows.   *)
LEMMA InitIInv == Init => IInv
<1> SUFFICES ASSUME Init PROVE IInv
  OBVIOUS
<1>1. TypeOK
  BY ConfigAssumption DEF Init, InitCur, TypeOK, Components
<1>2. ActorSizeValid
  BY PlacementAssumption DEF Init, InitCur, ActorSizeValid, Components
<1>3. GpusConserved
  BY ConfigAssumption DEF Init, GpusConserved
<1> QED BY <1>1, <1>2, <1>3 DEF IInv

(* The pre-process policy gives the actor its GPUs back, whole instances   *)
(* of them, so that the books start balanced.                              *)
LEMMA PreProcessIInv == IInv /\ PreProcess => IInv'
<1> SUFFICES ASSUME IInv, PreProcess PROVE IInv'
  OBVIOUS
<1> USE ConfigAssumption, PlacementAssumption, ClusterTypes DEF IInv, PreProcess
<1> DEFINE n == IF UsePreProcess THEN PreRelease ELSE 0
<1>1. n \in Nat /\ n <= RolloutInstances
  OBVIOUS
<1>2. /\ cur' \in [Components -> Nat]
      /\ cur'["rollout"] = RolloutInstances - n
      /\ cur'["inference"] = InferenceInstances
      /\ cur'["actor"] = ActorInstances
  BY <1>1 DEF InitCur, Components
<1>3. TypeOK' /\ ActorSizeValid'
  BY <1>2 DEF TypeOK, ActorSizeValid
<1>4. (RolloutInstances - n) * RolloutMP = RolloutInstances * RolloutMP - n * RolloutMP
  <2> HIDE DEF n
  <2> QED BY <1>1, Multiply
<1>5. n * RolloutMP = IF UsePreProcess THEN ActorGpus ELSE 0
  OBVIOUS
<1>6. GpusOwned' = TotalGpus
  <2> HIDE DEF n
  <2> QED BY <1>2, <1>4, <1>5 DEF GpusOwned, TotalGpus, InferenceBase, RolloutBase, ActorGpus
<1>7. GpusConserved'
  BY <1>6 DEF GpusConserved
<1> QED BY <1>3, <1>7

(* Releasing n instances of size b moves n * b GPUs from a component's     *)
(* account to available_gpu_num.                                           *)
LEMMA ReleaseMoves ==
    ASSUME NEW a \in Nat, NEW n \in 0..a, NEW b \in Nat
    PROVE  /\ a - n \in Nat
           /\ a * b \in Nat /\ n * b \in Nat
           /\ (a - n) * b = a * b - n * b
<1>1. n \in Nat /\ n <= a
  OBVIOUS
<1> QED BY <1>1, Multiply

(* The rollout's turn: what it releases is counted as available.           *)
LEMMA RolloutTurnIInv == IInv /\ RolloutTurn => IInv'
<1> SUFFICES ASSUME IInv, RolloutTurn PROVE IInv'
  OBVIOUS
<1> USE ConfigAssumption
<1>1. cur["rollout"] \in Nat /\ cur["actor"] \in Nat /\ cur["inference"] \in Nat
  BY DEF IInv, TypeOK, Components
<1>2. CASE LastIter
  <2>1. TypeOK' /\ ActorSizeValid'
    BY <1>2 DEF IInv, RolloutTurn, TypeOK, ActorSizeValid, Components
  <2>2. GpusConserved'
    BY <1>2 DEF IInv, RolloutTurn, TypeOK, GpusConserved, LastIter
  <2> QED BY <2>1, <2>2 DEF IInv
<1>3. CASE ~LastIter
  <2>1. PICK n \in RolloutReleases :
            /\ cur' = [cur EXCEPT !["rollout"] = @ - n]
            /\ available' = available + n * RolloutMP
    BY <1>3 DEF RolloutTurn
  <2>2. n \in 0..cur["rollout"]
    <3>1. CASE n \in {0, cur["rollout"]}
      BY <1>1, <3>1
    <3>2. CASE \E most \in 1..(cur["rollout"] - 1) : n = ReleaseNeeded(most, cur["actor"])
      <4>1. PICK most \in 1..(cur["rollout"] - 1) : n = ReleaseNeeded(most, cur["actor"])
        BY <3>2
      <4>2. most \in Nat /\ most <= cur["rollout"]
        BY <1>1, <4>1
      <4>3. n \in 0..most
        BY <1>1, <4>1, <4>2, ReleaseFits
      <4> QED BY <1>1, <4>2, <4>3
    <3> QED BY <2>1, <3>1, <3>2 DEF RolloutReleases
  <2>3. /\ cur["rollout"] - n \in Nat
        /\ cur["rollout"] * RolloutMP \in Nat /\ n * RolloutMP \in Nat
        /\ (cur["rollout"] - n) * RolloutMP = cur["rollout"] * RolloutMP - n * RolloutMP
    BY <1>1, <2>2, ReleaseMoves
  <2>4. /\ cur'["rollout"] = cur["rollout"] - n
        /\ cur'["inference"] = cur["inference"]
        /\ cur'["actor"] = cur["actor"]
    BY <2>1 DEF IInv, TypeOK, Components
  <2>5. TypeOK' /\ ActorSizeValid'
    <3>1. cur' \in [Components -> Nat]
      BY <2>1, <2>3 DEF IInv, TypeOK
    <3>2. available' \in Nat
      BY <2>1, <2>3 DEF IInv, TypeOK
    <3>3. iter' = iter
      BY DEF IInv, RolloutTurn
    <3>4. TypeOK'
      BY <3>1, <3>2, <3>3 DEF IInv, RolloutTurn, TypeOK
    <3> QED BY <2>4, <3>3, <3>4 DEF IInv, ActorSizeValid
  <2>6. GpusOwned + available = TotalGpus
    BY <1>3 DEF IInv, RolloutTurn, GpusConserved
  <2>7. cur["inference"] * InferenceMP \in Nat /\ cur["actor"] * ActorMP \in Nat
    BY <1>1, Multiply
  <2>8. GpusOwned' + available' = TotalGpus
    BY <2>1, <2>3, <2>4, <2>6, <2>7 DEF GpusOwned, IInv, TypeOK
  <2>9. GpusConserved'
    BY <2>8, ClusterTypes DEF GpusConserved
  <2> QED BY <2>5, <2>9 DEF IInv
<1> QED BY <1>2, <1>3

(* The inference's turn: all of its GPUs become available, or none.        *)
LEMMA InferenceTurnIInv == IInv /\ InferenceTurn => IInv'
<1> SUFFICES ASSUME IInv, InferenceTurn PROVE IInv'
  OBVIOUS
<1> USE ConfigAssumption
<1>1. cur["rollout"] \in Nat /\ cur["actor"] \in Nat /\ cur["inference"] \in Nat
  BY DEF IInv, TypeOK, Components
<1>2. CASE LastIter
  <2>1. TypeOK' /\ ActorSizeValid'
    BY <1>2 DEF IInv, InferenceTurn, TypeOK, ActorSizeValid, Components
  <2>2. GpusConserved'
    BY <1>2 DEF IInv, InferenceTurn, TypeOK, GpusConserved, LastIter
  <2> QED BY <2>1, <2>2 DEF IInv
<1>3. CASE ~LastIter
  <2>1. PICK n \in {0, cur["inference"]} :
            /\ cur' = [cur EXCEPT !["inference"] = @ - n]
            /\ available' = available + n * InferenceMP
    BY <1>3 DEF InferenceTurn
  <2>2. n \in 0..cur["inference"]
    BY <1>1, <2>1
  <2>3. /\ cur["inference"] - n \in Nat
        /\ cur["inference"] * InferenceMP \in Nat /\ n * InferenceMP \in Nat
        /\ (cur["inference"] - n) * InferenceMP
              = cur["inference"] * InferenceMP - n * InferenceMP
    BY <1>1, <2>2, ReleaseMoves
  <2>4. /\ cur'["inference"] = cur["inference"] - n
        /\ cur'["rollout"] = cur["rollout"]
        /\ cur'["actor"] = cur["actor"]
    BY <2>1 DEF IInv, TypeOK, Components
  <2>5. TypeOK' /\ ActorSizeValid'
    <3>1. cur' \in [Components -> Nat]
      BY <2>1, <2>3 DEF IInv, TypeOK
    <3>2. available' \in Nat
      BY <2>1, <2>3 DEF IInv, TypeOK
    <3>3. iter' = iter
      BY DEF IInv, InferenceTurn
    <3>4. TypeOK'
      BY <3>1, <3>2, <3>3 DEF IInv, InferenceTurn, TypeOK
    <3> QED BY <2>4, <3>3, <3>4 DEF IInv, ActorSizeValid
  <2>6. GpusOwned + available = TotalGpus
    BY <1>3 DEF IInv, InferenceTurn, GpusConserved
  <2>7. cur["rollout"] * RolloutMP \in Nat /\ cur["actor"] * ActorMP \in Nat
    BY <1>1, Multiply
  <2>8. GpusOwned' + available' = TotalGpus
    BY <2>1, <2>3, <2>4, <2>6, <2>7 DEF GpusOwned, IInv, TypeOK
  <2>9. GpusConserved'
    BY <2>8, ClusterTypes DEF GpusConserved
  <2> QED BY <2>5, <2>9 DEF IInv
<1> QED BY <1>2, <1>3

(* The actor's turn: it grows by what Increment takes from available, to a *)
(* valid size, or goes back to its first one.                              *)
LEMMA ActorTurnIInv == IInv /\ ActorTurn => IInv'
<1> SUFFICES ASSUME IInv, ActorTurn PROVE IInv'
  OBVIOUS
<1> USE ConfigAssumption
<1>1. /\ cur["rollout"] \in Nat /\ cur["actor"] \in Nat /\ cur["inference"] \in Nat
      /\ available \in Nat /\ iter \in 0..(NMinibatches - 1)
  BY DEF IInv, TypeOK, Components
<1>2. CASE LastIter
  <2>1. TypeOK'
    BY <1>1, <1>2 DEF IInv, ActorTurn, TypeOK, LastIter, Components
  <2>2. ActorSizeValid' /\ GpusConserved'
    BY <1>2, PlacementAssumption
    DEF IInv, ActorTurn, TypeOK, ActorSizeValid, GpusConserved, Components
  <2> QED BY <2>1, <2>2 DEF IInv
<1>3. CASE ~LastIter
  <2>1. PICK n \in Nat : /\ Increment(cur["actor"], available) = n * ActorMP
                         /\ n * ActorMP \in Nat
                         /\ n * ActorMP <= available
                         /\ n = 0 \/ cur["actor"] + n \in ValidDpSizes
    BY <1>1, IncrementFits
  <2>2. /\ cur["actor"] * ActorMP + n * ActorMP = (cur["actor"] + n) * ActorMP
        /\ cur["actor"] * ActorMP \in Nat
    BY <1>1, <2>1, Multiply
  <2>3. ((cur["actor"] + n) * ActorMP) \div ActorMP = cur["actor"] + n
    <3>1. cur["actor"] + n \in Nat
      BY <1>1, <2>1
    <3> QED BY <3>1, Divide
  <2>4. /\ cur' = [cur EXCEPT !["actor"] =
                       (@ * ActorMP + n * ActorMP) \div ActorMP]
        /\ available' = available - n * ActorMP
    BY <1>3, <2>1 DEF ActorTurn
  <2>5. /\ cur'["actor"] = cur["actor"] + n
        /\ cur'["rollout"] = cur["rollout"]
        /\ cur'["inference"] = cur["inference"]
    BY <2>2, <2>3, <2>4 DEF IInv, TypeOK, Components
  <2>6. cur' \in [Components -> Nat]
    <3>1. cur' = [cur EXCEPT !["actor"] = cur["actor"] + n]
      BY <2>2, <2>3, <2>4
    <3>2. cur["actor"] + n \in Nat
      BY <1>1, <2>1
    <3> QED BY <3>1, <3>2 DEF IInv, TypeOK
  <2>7. available' \in Nat
    BY <1>1, <2>1, <2>4
  <2>8. iter' \in 0..(NMinibatches - 1) /\ turn' = "rollout"
    BY <1>1, <1>3 DEF ActorTurn, LastIter, IInv
  <2>9. TypeOK'
    BY <2>6, <2>7, <2>8 DEF TypeOK
  <2>10. ActorSizeValid'
    BY <1>1, <2>1, <2>5 DEF IInv, ActorSizeValid
  <2>11. GpusOwned + available = TotalGpus
    BY <1>3 DEF IInv, ActorTurn, GpusConserved
  <2>12. cur["rollout"] * RolloutMP \in Nat /\ cur["inference"] * InferenceMP \in Nat
    BY <1>1, Multiply
  <2>13. GpusOwned' + available' = TotalGpus
    <3>1. cur'["actor"] * ActorMP = cur["actor"] * ActorMP + n * ActorMP
      BY <2>2, <2>5
    <3>2. GpusOwned' = GpusOwned + n * ActorMP
      BY <2>1, <2>2, <2>5, <2>12, <3>1 DEF GpusOwned
    <3>3. GpusOwned \in Nat
      BY <2>2, <2>12 DEF GpusOwned
    <3> QED BY <1>1, <2>1, <2>4, <2>11, <3>2, <3>3
  <2>14. GpusConserved'
    BY <2>13, ClusterTypes DEF GpusConserved
  <2> QED BY <2>9, <2>10, <2>14 DEF IInv
<1> QED BY <1>2, <1>3

(* The strengthened invariant holds in every reachable state.              *)
THEOREM LedgerInductive == Spec => []IInv
<1>1. ASSUME IInv, [Next]_vars PROVE IInv'
  <2>1. CASE PreProcess
    BY <1>1, <2>1, PreProcessIInv
  <2>2. CASE RolloutTurn
    BY <1>1, <2>2, RolloutTurnIInv
  <2>3. CASE InferenceTurn
    BY <1>1, <2>3, InferenceTurnIInv
  <2>4. CASE ActorTurn
    BY <1>1, <2>4, ActorTurnIInv
  <2>5. CASE RolloutReset
    <3>1. TypeOK' /\ ActorSizeValid'
      BY <1>1, <2>5, ConfigAssumption
      DEF IInv, RolloutReset, TypeOK, ActorSizeValid, Components
    <3>2. GpusConserved'
      BY <2>5 DEF RolloutReset, GpusConserved
    <3> QED BY <3>1, <3>2 DEF IInv
  <2>6. CASE UNCHANGED vars
    BY <1>1, <2>6
    DEF IInv, vars, TypeOK, ActorSizeValid, GpusConserved, GpusOwned,
        LastIter
  <2> QED BY <1>1, <2>1, <2>2, <2>3, <2>4, <2>5, <2>6 DEF Next
<1> QED BY <1>1, InitIInv, PTL DEF Spec

(* The scheduler's books balance on every cluster.                         *)
THEOREM BooksBalance == Spec => []GpusConserved
<1>1. IInv => GpusConserved
  BY DEF IInv
<1> QED BY <1>1, LedgerInductive, PTL

(* The managers' counters stay natural numbers: nothing is released that   *)
(* is not there, and the actor never takes more than is available.         *)
THEOREM LedgerTypeCorrect == Spec => []TypeOK
<1>1. IInv => TypeOK
  BY DEF IInv
<1> QED BY <1>1, LedgerInductive, PTL

(* The actor only ever has a size returned by get_valid_dp_sizes.          *)
THEOREM ActorSizes == Spec => []ActorSizeValid
<1>1. IInv => ActorSizeValid
  BY DEF IInv
<1> QED BY <1>1, LedgerInductive, PTL

(* Because the books balance and the largest valid size is the whole       *)
(* cluster, an actor at the largest size leaves no GPU free: the second    *)
(* half of try_allocate's assertion follows.                               *)
THEOREM AllocateSafe == Spec => []AllocateNeverAsserts
<1>1. IInv => AllocateNeverAsserts
  <2> SUFFICES ASSUME IInv, turn = "actor", ~LastIter, available >= ActorMP
               PROVE  /\ cur["actor"] \in ValidDpSizes
                      /\ \E d \in ValidDpSizes : d > cur["actor"]
    BY DEF AllocateNeverAsserts, TryAllocateAsserts
  <2> USE ConfigAssumption
  <2> DEFINE top == TotalGpus \div ActorMP
  <2>1. /\ cur["rollout"] \in Nat /\ cur["actor"] \in Nat /\ cur["inference"] \in Nat
        /\ available \in Nat /\ cur["actor"] \in ValidDpSizes
    BY DEF IInv, TypeOK, Components, ActorSizeValid
  <2>2. GpusOwned + available = TotalGpus
    BY DEF IInv, GpusConserved
  <2>3. /\ cur["rollout"] * RolloutMP \in Nat /\ cur["inference"] * InferenceMP \in Nat
        /\ cur["actor"] * ActorMP \in Nat
    BY <2>1, Multiply
  <2>4. cur["actor"] * ActorMP < TotalGpus
    BY <2>1, <2>2, <2>3 DEF GpusOwned
  <2>5. top \in ValidDpSizes /\ top \in Nat /\ top * ActorMP = TotalGpus
    BY PlacementAssumption, ClusterTypes
  <2>6. cur["actor"] < top
    <3> HIDE DEF top
    <3>1. ASSUME top <= cur["actor"] PROVE FALSE
      <4>1. top * ActorMP <= cur["actor"] * ActorMP
        BY <2>1, <2>5, <3>1, Multiply
      <4> QED BY <2>3, <2>4, <2>5, <4>1, ClusterTypes
    <3> QED BY <2>1, <2>5, <3>1
  <2> QED BY <2>1, <2>5, <2>6
<1> QED BY <1>1, LedgerInductive, PTL

=============================================================================
