---------------------------- MODULE ChannelProofs ----------------------------
(***************************************************************************)
(* The Channel, for any clients, drivers, keys, sizes and programs.        *)
(* BaseInv is the inductive invariant that needs nothing of the programs:  *)
(* which tasks of the actor exist, where they wait, what they hold and     *)
(* which replies are on their way.  Three invariants rest on it: SyncInv   *)
(* and ResultInv for what the gets return, FifoInv for the order of a      *)
(* client's items, WaitsInv and OnceInv for where an item is.              *)
(***************************************************************************)
EXTENDS Channel, WellFoundedInduction, SequenceTheorems, FiniteSetTheorems, TLAPS

-----------------------------------------------------------------------------
(* Sequences without repetition.                                           *)

LEMMA TailFacts ==
    ASSUME NEW S, NEW s \in Seq(S), s # <<>>
    PROVE  /\ Head(s) \in S /\ Head(s) = s[1] /\ Head(s) \in Range(s) /\ Tail(s) \in Seq(S)
           /\ Len(s) \in Nat \ {0} /\ Len(Tail(s)) = Len(s) - 1
           /\ DOMAIN s = 1..Len(s) /\ DOMAIN Tail(s) = 1..(Len(s) - 1)
           /\ \A i \in 1..(Len(s) - 1) : i + 1 \in 1..Len(s) /\ Tail(s)[i] = s[i + 1]
           /\ Range(Tail(s)) \subseteq Range(s)
<1>1. /\ Head(s) \in S /\ Tail(s) \in Seq(S)
      /\ Len(s) \in Nat \ {0} /\ Len(Tail(s)) = Len(s) - 1
      /\ DOMAIN s = 1..Len(s) /\ DOMAIN Tail(s) = 1..(Len(s) - 1)
      /\ Head(s) = s[1] /\ \A i \in 1..(Len(s) - 1) : i + 1 \in 1..Len(s) /\ Tail(s)[i] = s[i + 1]
  OBVIOUS
<1>2. 1 \in DOMAIN s
  BY <1>1
<1> QED BY <1>1, <1>2 DEF Range

LEMMA InjectiveTail ==
    ASSUME NEW S, NEW s \in Seq(S), s # <<>>, IsInjective(s)
    PROVE  /\ IsInjective(Tail(s))
           /\ Range(Tail(s)) = Range(s) \ {Head(s)}
<1>1. /\ Len(s) \in Nat \ {0}
      /\ DOMAIN s = 1..Len(s) /\ DOMAIN Tail(s) = 1..(Len(s) - 1)
      /\ Head(s) = s[1] /\ \A i \in 1..(Len(s) - 1) : i + 1 \in 1..Len(s) /\ Tail(s)[i] = s[i + 1]
  BY TailFacts
<1>2. IsInjective(Tail(s))
  BY <1>1 DEF IsInjective
<1>3. \A i \in 1..(Len(s) - 1) : Tail(s)[i] # Head(s)
  BY <1>1 DEF IsInjective
<1>4. \A i \in 1..Len(s) : s[i] # Head(s) => i - 1 \in 1..(Len(s) - 1) /\ Tail(s)[i - 1] = s[i]
  BY <1>1
<1>5. Range(Tail(s)) \subseteq Range(s) \ {Head(s)}
  BY <1>1, <1>3 DEF Range
<1>6. Range(s) \ {Head(s)} \subseteq Range(Tail(s))
  <2> SUFFICES ASSUME NEW i \in 1..Len(s), s[i] # Head(s) PROVE s[i] \in Range(Tail(s))
    BY <1>1 DEF Range
  <2> QED BY <1>1, <1>4 DEF Range
<1> QED BY <1>2, <1>5, <1>6

LEMMA InjectiveAppend ==
    ASSUME NEW S, NEW s \in Seq(S), NEW e \in S
    PROVE  /\ Append(s, e) \in Seq(S)
           /\ Range(Append(s, e)) = Range(s) \cup {e}
           /\ IsInjective(s) /\ e \notin Range(s) => IsInjective(Append(s, e))
<1>1. /\ Append(s, e) \in Seq(S) /\ Len(s) \in Nat
      /\ DOMAIN s = 1..Len(s) /\ DOMAIN Append(s, e) = 1..(Len(s) + 1)
      /\ \A i \in 1..Len(s) : Append(s, e)[i] = s[i]
      /\ Append(s, e)[Len(s) + 1] = e
  OBVIOUS
<1>2. 1..(Len(s) + 1) = 1..Len(s) \cup {Len(s) + 1}
  BY <1>1
<1>3. Range(Append(s, e)) = Range(s) \cup {e}
  BY <1>1, <1>2 DEF Range
<1>4. ASSUME IsInjective(s), e \notin Range(s)
      PROVE  IsInjective(Append(s, e))
  <2>1. \A i \in 1..Len(s) : s[i] # e
    BY <1>1, <1>4 DEF Range
  <2>2. \A i, j \in 1..Len(s) : s[i] = s[j] => i = j
    BY <1>1, <1>4 DEF IsInjective
  <2> QED BY <1>1, <1>2, <2>1, <2>2 DEF IsInjective
<1> QED BY <1>1, <1>3, <1>4

LEMMA ConcatFacts ==
    ASSUME NEW S, NEW s \in Seq(S), NEW t \in Seq(S)
    PROVE  /\ s \o t \in Seq(S)
           /\ Range(s \o t) = Range(s) \cup Range(t)
           /\ IsInjective(s) /\ IsInjective(t) /\ Range(s) \cap Range(t) = {}
                => IsInjective(s \o t)
<1>1. /\ s \o t \in Seq(S) /\ Len(s) \in Nat /\ Len(t) \in Nat
      /\ DOMAIN s = 1..Len(s) /\ DOMAIN t = 1..Len(t) /\ DOMAIN (s \o t) = 1..(Len(s) + Len(t))
      /\ \A i \in 1..Len(s) : (s \o t)[i] = s[i] /\ i \in 1..(Len(s) + Len(t))
      /\ \A i \in 1..Len(t) : (s \o t)[Len(s) + i] = t[i] /\ Len(s) + i \in 1..(Len(s) + Len(t))
  OBVIOUS
<1>2. \A i \in 1..(Len(s) + Len(t)) :
        \/ i \in 1..Len(s)
        \/ i - Len(s) \in 1..Len(t) /\ i = Len(s) + (i - Len(s))
  BY <1>1
<1>3. Range(s \o t) = Range(s) \cup Range(t)
  <2>1. Range(s \o t) \subseteq Range(s) \cup Range(t)
    BY <1>1, <1>2 DEF Range
  <2>2. Range(s) \cup Range(t) \subseteq Range(s \o t)
    BY <1>1 DEF Range
  <2> QED BY <2>1, <2>2
<1>4. ASSUME IsInjective(s), IsInjective(t), Range(s) \cap Range(t) = {}
      PROVE  IsInjective(s \o t)
  <2>1. \A i \in 1..Len(s), j \in 1..Len(t) : s[i] # t[j]
    BY <1>1, <1>4 DEF Range
  <2>2. /\ \A i, j \in 1..Len(s) : s[i] = s[j] => i = j
        /\ \A i, j \in 1..Len(t) : t[i] = t[j] => i = j
    BY <1>1, <1>4 DEF IsInjective
  <2> SUFFICES ASSUME NEW i \in 1..(Len(s) + Len(t)), NEW j \in 1..(Len(s) + Len(t)),
                      (s \o t)[i] = (s \o t)[j]
               PROVE  i = j
    BY <1>1 DEF IsInjective
  <2>3. CASE i \in 1..Len(s) /\ j \in 1..Len(s)
    BY <1>1, <2>2, <2>3
  <2>4. CASE i \in 1..Len(s) /\ j - Len(s) \in 1..Len(t)
    BY <1>1, <2>1, <2>4
  <2>5. CASE i - Len(s) \in 1..Len(t) /\ j \in 1..Len(s)
    BY <1>1, <2>1, <2>5
  <2>6. CASE i - Len(s) \in 1..Len(t) /\ j - Len(s) \in 1..Len(t)
    <3>1. t[i - Len(s)] = t[j - Len(s)]
      BY <1>1, <2>6
    <3> QED BY <1>1, <2>2, <2>6, <3>1
  <2> QED BY <1>2, <2>3, <2>4, <2>5, <2>6
<1> QED BY <1>1, <1>3, <1>4

(* What asyncio wakes and what goes on waiting.                            *)
LEMMA WokenFacts ==
    ASSUME NEW S, NEW w \in Seq(S), NEW n \in Nat
    PROVE  /\ Woken(w, n) \in Seq(S) /\ Asleep(w, n) \in Seq(S)
           /\ Range(Woken(w, n)) \cup Range(Asleep(w, n)) = Range(w)
           /\ IsInjective(w) =>
                /\ IsInjective(Woken(w, n)) /\ IsInjective(Asleep(w, n))
                /\ Range(Woken(w, n)) \cap Range(Asleep(w, n)) = {}
<1> DEFINE m == IF n < Len(w) THEN n ELSE Len(w)
           u == SubSeq(w, 1, m)
           v == SubSeq(w, n + 1, Len(w))
<1>1. Woken(w, n) = u /\ Asleep(w, n) = v
  BY DEF Woken, Asleep
<1>2. Len(w) \in Nat /\ m \in 0..Len(w) /\ DOMAIN w = 1..Len(w) /\ m <= n
  OBVIOUS
<1>3. n < Len(w) => m = n
  OBVIOUS
<1>4. ~(n < Len(w)) => m = Len(w)
  OBVIOUS
<1> HIDE DEF m
<1>5. u \in Seq(S) /\ DOMAIN u = 1..m /\ \A i \in 1..m : u[i] = w[i] /\ i \in 1..Len(w)
  BY <1>2
<1>6. v \in Seq(S) /\ DOMAIN v = 1..(Len(w) - m)
      /\ \A i \in 1..(Len(w) - m) : v[i] = w[m + i] /\ m + i \in 1..Len(w)
  <2>1. CASE n < Len(w)
    BY <1>2, <1>3, <2>1
  <2>2. CASE ~(n < Len(w))
    BY <1>2, <1>4, <2>2
  <2> QED BY <2>1, <2>2
<1> HIDE DEF u, v
<1>7. \A i \in 1..Len(w) :
        i \in 1..m \/ (i - m \in 1..(Len(w) - m) /\ i = m + (i - m))
  BY <1>2
<1>8. Range(u) \cup Range(v) = Range(w)
  <2>1. Range(u) \cup Range(v) \subseteq Range(w)
    BY <1>2, <1>5, <1>6 DEF Range
  <2>2. Range(w) \subseteq Range(u) \cup Range(v)
    <3> SUFFICES ASSUME NEW i \in 1..Len(w) PROVE w[i] \in Range(u) \cup Range(v)
      BY <1>2 DEF Range
    <3>1. CASE i \in 1..m
      BY <1>5, <3>1 DEF Range
    <3>2. CASE i - m \in 1..(Len(w) - m)
      <4>1. v[i - m] = w[i]
        BY <1>2, <1>6, <3>2
      <4> QED BY <1>6, <3>2, <4>1 DEF Range
    <3> QED BY <1>7, <3>1, <3>2
  <2> QED BY <2>1, <2>2
<1>9. ASSUME IsInjective(w)
      PROVE  IsInjective(u) /\ IsInjective(v) /\ Range(u) \cap Range(v) = {}
  <2>1. \A i, j \in 1..Len(w) : w[i] = w[j] => i = j
    BY <1>2, <1>9 DEF IsInjective
  <2>2. IsInjective(u)
    BY <1>5, <2>1 DEF IsInjective
  <2>3. IsInjective(v)
    <3> SUFFICES ASSUME NEW i \in 1..(Len(w) - m), NEW j \in 1..(Len(w) - m), v[i] = v[j]
                 PROVE  i = j
      BY <1>6 DEF IsInjective
    <3>1. m + i = m + j
      BY <1>6, <2>1
    <3> QED BY <1>2, <3>1
  <2>4. \A i \in 1..m, j \in 1..(Len(w) - m) : u[i] # v[j]
    <3> TAKE i \in 1..m, j \in 1..(Len(w) - m)
    <3>1. i # m + j
      BY <1>2
    <3> QED BY <1>5, <1>6, <2>1, <3>1
  <2>5. Range(u) \cap Range(v) = {}
    BY <1>5, <1>6, <2>4 DEF Range
  <2> QED BY <2>2, <2>3, <2>5
<1> QED BY <1>1, <1>5, <1>6, <1>8, <1>9

-----------------------------------------------------------------------------
(* Types.                                                                  *)

Replies == [query : Gets \cup {<<>>}, data : Seq(Items)]
Results == [id : Ids, out : {"ok", "raise"}, data : Seq(Items)]

TypeInv ==
  /\ setup \in Setups
  /\ issued \in [Client -> Nat]
  /\ status \in [Ids -> {"new", "pending", "done", "raised"}]
  /\ result \in [Ids -> Seq(Items)]
  /\ chain \in [Client -> [Key -> Seq(Puts)]]
  /\ recvs \in [Client -> Seq(Gets)]
  /\ submitted \in SUBSET Ids
  /\ returned \in SUBSET Results
  /\ sent \in [Client -> Seq(Items)]
  /\ inbox \in [Client -> Seq(Replies)]
  /\ ready \in Seq(Ids)
  /\ queue \in [Key -> Seq(Items)]
  /\ getters \in [Key -> Seq(Gets)]
  /\ putters \in [Key -> Seq(Puts)]
  /\ held \in [Ids -> Seq(Items)]
  /\ taken \in [Key -> Seq(Items)]

LEMMA CallFacts ==
    ASSUME setup \in Setups, NEW id \in Ids
    PROVE  /\ id[1] \in Client /\ id[2] \in Nat \ {0} /\ id = <<id[1], id[2]>> /\ id # <<>>
           /\ id[2] \in 1..Len(Program[id[1]])
           /\ Call(id) \in Calls /\ Call(id).op \in Ops /\ Call(id).key \in Key
           /\ Call(id).async \in BOOLEAN /\ Call(id).weight \in Nat
           /\ Item(id) \in Items
           /\ Call(id).op \in {"put_nowait", "get_nowait"} => ~Call(id).async
<1>1. Program \in [Client -> Seq(Calls)]
  BY ChannelAssumption DEF Program
<1>0. PICK c \in Client : \E i \in 1..Len(Program[c]) : id = <<c, i>>
  BY DEF Ids
<1>2. PICK i \in 1..Len(Program[c]) : id = <<c, i>>
  BY <1>0
<1>3. Program[c] \in Seq(Calls) /\ Len(Program[c]) \in Nat
  BY <1>1
<1>4. Call(id) \in Calls /\ id[1] = c /\ id[2] = i /\ Call(id) = setup.program[c][i]
  BY <1>2, <1>3 DEF Call, Program
<1>5. Call(id).op \in Ops /\ Call(id).key \in Key
      /\ Call(id).async \in BOOLEAN /\ Call(id).weight \in Nat
  BY <1>4 DEF Calls
<1>6. Call(id).op \in {"put_nowait", "get_nowait"} => ~Call(id).async
  BY <1>2, <1>4, ChannelAssumption DEF Program
<1>7. Item(id) \in Items
  BY DEF Items
<1>8. i \in Nat \ {0}
  BY <1>3
<1>9. id # <<>>
  BY <1>2
<1> QED BY <1>2, <1>4, <1>5, <1>6, <1>7, <1>8, <1>9

LEMMA ItemFacts ==
    ASSUME setup \in Setups, NEW x \in Items
    PROVE  /\ x.id \in Ids /\ x = Item(x.id) /\ x.key = Call(x.id).key /\ x.key \in Key
           /\ x.id[1] \in Client /\ x.id[2] \in Nat \ {0}
<1>1. PICK id \in Ids : x = Item(id)
  BY DEF Items
<1>2. x.id = id /\ x.key = Call(id).key
  BY <1>1 DEF Item
<1> QED BY <1>1, <1>2, CallFacts

LEMMA SetupFacts ==
    ASSUME setup' = setup
    PROVE  /\ Ids' = Ids /\ Puts' = Puts /\ Gets' = Gets /\ Items' = Items
           /\ Replies' = Replies /\ Results' = Results /\ MaxSize' = MaxSize
<1>1. Ids' = Ids
  BY DEF Ids, Program
<1>2. Puts' = Puts
  BY <1>1 DEF Puts, Call, Program
<1>3. Items' = Items
  BY <1>1 DEF Items, Item, Call, Program
<1>4. Gets' = Gets
  BY <1>1, <1>2 DEF Gets
<1> QED BY <1>1, <1>2, <1>3, <1>4 DEF Replies, Results, MaxSize

LEMMA PutsGets ==
    ASSUME setup \in Setups
    PROVE  /\ Puts \subseteq Ids /\ Gets \subseteq Ids /\ Puts \cap Gets = {}
           /\ Ids = Puts \cup Gets
           /\ \A id \in Puts : Call(id).op \in {"put", "put_nowait"}
           /\ \A id \in Gets : Call(id).op \in {"get", "get_nowait", "get_batch"}
<1>1. \A id \in Ids : Call(id).op \in Ops
  BY CallFacts
<1> QED BY <1>1 DEF Puts, Gets, Ops

LEMMA InitType == ASSUME Init PROVE TypeInv
  BY DEF Init, TypeInv

LEMMA WorkerPutType ==
    ASSUME TypeInv, NEW id \in Ids, WorkerPut(id)
    PROVE  TypeInv'
<1> DEFINE c == id[1]
           k == Call(id).key
<1>1. c \in Client /\ k \in Key /\ Item(id) \in Items /\ id[2] \in Nat /\ id \in Puts
  BY CallFacts DEF TypeInv, WorkerPut
<1>2. setup' = setup
  BY DEF WorkerPut
<1>3. /\ issued' = [issued EXCEPT ![c] = id[2]]
      /\ status' = [status EXCEPT ![id] = "pending"]
      /\ submitted' = submitted \cup Executes(chain[c][k], id)
      /\ chain' = [chain EXCEPT ![c][k] = Append(@, id)]
      /\ sent' = [sent EXCEPT ![c] = Append(@, Item(id))]
      /\ UNCHANGED <<setup, result, recvs, returned, inbox, ready, queue, getters, putters, held, taken>>
  BY DEF WorkerPut, AtCall, worker
<1>4. Executes(chain[c][k], id) \subseteq {id}
  BY DEF Executes
<1>5. Append(chain[c][k], id) \in Seq(Puts) /\ Append(sent[c], Item(id)) \in Seq(Items)
  BY <1>1 DEF TypeInv
<1> HIDE DEF c, k
<1>6. chain' \in [Client -> [Key -> Seq(Puts)]]
  BY <1>1, <1>3, <1>5 DEF TypeInv
<1>7. sent' \in [Client -> Seq(Items)] /\ issued' \in [Client -> Nat]
      /\ status' \in [Ids -> {"new", "pending", "done", "raised"}]
      /\ submitted' \in SUBSET Ids
  BY <1>1, <1>3, <1>4, <1>5 DEF TypeInv
<1> QED BY <1>2, <1>3, <1>6, <1>7, SetupFacts DEF TypeInv

LEMMA WorkerGetType ==
    ASSUME TypeInv, NEW id \in Ids, WorkerGet(id)
    PROVE  TypeInv'
<1> DEFINE c == id[1]
<1>1. c \in Client /\ id[2] \in Nat /\ id \in Gets
  BY CallFacts DEF TypeInv, WorkerGet
<1>2. setup' = setup
  BY DEF WorkerGet
<1>3. /\ issued' = [issued EXCEPT ![c] = id[2]]
      /\ status' = [status EXCEPT ![id] = "pending"]
      /\ submitted' = submitted \cup {id}
      /\ recvs' = [recvs EXCEPT ![c] = Append(@, id)]
      /\ UNCHANGED <<setup, result, chain, returned, sent, inbox, ready, queue, getters, putters, held, taken>>
  BY DEF WorkerGet, AtCall, worker
<1>4. Append(recvs[c], id) \in Seq(Gets)
  BY <1>1 DEF TypeInv
<1> HIDE DEF c
<1>5. recvs' \in [Client -> Seq(Gets)] /\ issued' \in [Client -> Nat]
      /\ status' \in [Ids -> {"new", "pending", "done", "raised"}]
      /\ submitted' \in SUBSET Ids
  BY <1>1, <1>3, <1>4 DEF TypeInv
<1> QED BY <1>2, <1>3, <1>5, SetupFacts DEF TypeInv

LEMMA DriverCallType ==
    ASSUME TypeInv, NEW id \in Ids, DriverCall(id)
    PROVE  TypeInv'
<1>1. id[1] \in Client /\ id[2] \in Nat
  BY CallFacts DEF TypeInv
<1>2. setup' = setup
  BY DEF DriverCall
<1> QED BY <1>1, <1>2, SetupFacts DEF TypeInv, DriverCall, AtCall, worker

LEMMA StartType ==
    ASSUME TypeInv, NEW id \in Ids, Start(id)
    PROVE  TypeInv'
<1>1. setup' = setup /\ Append(ready, id) \in Seq(Ids)
  BY DEF Start, TypeInv
<1> QED BY <1>1, SetupFacts DEF TypeInv, Start, client

LEMMA MinExists ==
    ASSUME NEW S \in SUBSET Nat, S # {}
    PROVE  Min(S) \in S /\ \A e \in S : Min(S) <= e
<1> DEFINE R == OpToRel(<, Nat)
<1>1. IsWellFoundedOn(R, Nat)
  BY NatLessThanWellFounded
<1>2. \A i, j \in Nat : i < j => <<i, j>> \in R
  BY DEF OpToRel
<1> HIDE DEF R
<1>3. PICK x \in S : \A y \in S : ~(<<y, x>> \in R)
  BY <1>1, WFMin
<1>4. \A y \in S : x <= y
  <2> TAKE y \in S
  <2>1. x \in Nat /\ y \in Nat
    OBVIOUS
  <2>2. ~(y < x)
    BY <1>2, <1>3, <2>1
  <2> QED BY <2>1, <2>2
<1> QED BY <1>4 DEF Min

LEMMA MaxExists ==
    ASSUME NEW S \in SUBSET Nat, S # {}, NEW b \in Nat, \A e \in S : e <= b
    PROVE  Max(S) \in S /\ \A e \in S : e <= Max(S)
<1> DEFINE T == {b - e : e \in S}
<1>1. T \in SUBSET Nat
  OBVIOUS
<1>2. T # {}
  OBVIOUS
<1>3. Min(T) \in T /\ \A y \in T : Min(T) <= y
  <2> HIDE DEF T
  <2> QED BY <1>1, <1>2, MinExists
<1>4. PICK d \in S : Min(T) = b - d
  BY <1>3
<1>5. \A e \in S : e <= d
  <2> TAKE e \in S
  <2>1. b - e \in T
    OBVIOUS
  <2>2. b - d <= b - e
    BY <1>3, <1>4, <2>1
  <2>3. b \in Nat /\ d \in Nat /\ e \in Nat
    OBVIOUS
  <2> QED BY <2>2, <2>3
<1> QED BY <1>5 DEF Max

LEMMA RemoveHead ==
    ASSUME NEW S, NEW s \in Seq(S), NEW e
    PROVE  /\ RemoveFirst(s, e) \in Seq(S)
           /\ s # <<>> /\ Head(s) = e => RemoveFirst(s, e) = Tail(s)
<1> DEFINE I == {i \in 1..Len(s) : s[i] = e}
           j == Min(I)
<1>1. RemoveFirst(s, e) = IF I # {} THEN RemoveAt(s, j) ELSE s
  BY DEF RemoveFirst, SelectInSeq
<1>2. ASSUME I # {} PROVE j \in I /\ \A i \in I : j <= i
  <2>1. I \in SUBSET Nat
    OBVIOUS
  <2> QED BY <1>2, <2>1, MinExists
<1>3. ASSUME I # {} PROVE RemoveAt(s, j) \in Seq(S)
  <2>1. j \in 1..Len(s) /\ Len(s) \in Nat
    BY <1>2, <1>3
  <2> HIDE DEF I, j
  <2>2. SubSeq(s, 1, j - 1) \in Seq(S) /\ SubSeq(s, j + 1, Len(s)) \in Seq(S)
    BY <2>1
  <2> QED BY <2>2 DEF RemoveAt
<1>4. ASSUME s # <<>>, Head(s) = e
      PROVE  I # {} /\ RemoveAt(s, j) = Tail(s)
  <2>1. Len(s) \in Nat \ {0} /\ s[1] = e /\ 1 \in I
    BY <1>4
  <2>2. j \in 1..Len(s) /\ j <= 1
    BY <1>2, <2>1
  <2>3. j = 1
    <3> HIDE DEF j
    <3> QED BY <2>1, <2>2
  <2>4. RemoveAt(s, 1) = Tail(s)
    <3>1. RemoveAt(s, 1) = SubSeq(s, 1, 0) \o SubSeq(s, 2, Len(s))
      BY DEF RemoveAt
    <3>2. SubSeq(s, 1, 0) = <<>> /\ SubSeq(s, 2, Len(s)) = Tail(s)
      BY <2>1
    <3>3. Tail(s) \in Seq(S)
      BY <2>1
    <3> QED BY <3>1, <3>2, <3>3
  <2> QED BY <2>1, <2>3, <2>4
<1> QED BY <1>1, <1>3, <1>4

LEMMA PutCallbackType ==
    ASSUME TypeInv, NEW r \in returned, PutCallback(r)
    PROVE  TypeInv'
<1> DEFINE c == r.id[1]
           k == Call(r.id).key
           f == chain[c][k]
<1>1. c \in Client /\ k \in Key /\ r.id \in Ids
  BY CallFacts DEF TypeInv, Results
<1>2. setup' = setup
  BY DEF PutCallback
<1>3. f \in Seq(Puts) /\ RemoveFirst(f, r.id) \in Seq(Puts)
  BY <1>1, RemoveHead DEF TypeInv
<1>4. Chained(f) \subseteq Ids
  <2>1. CASE Len(f) > 1
    <3>1. 2 \in 1..Len(f) /\ f[2] \in Puts
      BY <1>3, <2>1
    <3> QED BY <2>1, <3>1 DEF Chained, Puts
  <2> QED BY <2>1 DEF Chained
<1>5. /\ returned' = returned \ {r}
      /\ UNCHANGED <<setup, issued, result, recvs, sent, inbox, ready, queue, getters, putters, held, taken>>
  BY DEF PutCallback, worker
<1>6. \/ UNCHANGED <<status, chain, submitted>>
      \/ /\ status' = [status EXCEPT ![r.id] = "done"]
         /\ chain' = [chain EXCEPT ![c][k] = RemoveFirst(@, r.id)]
         /\ submitted' = submitted \cup Chained(f)
  BY DEF PutCallback
<1> HIDE DEF c, k
<1>7. status' \in [Ids -> {"new", "pending", "done", "raised"}]
      /\ chain' \in [Client -> [Key -> Seq(Puts)]] /\ submitted' \in SUBSET Ids
  <2>1. CASE UNCHANGED <<status, chain, submitted>>
    BY <2>1 DEF TypeInv
  <2>2. CASE /\ status' = [status EXCEPT ![r.id] = "done"]
             /\ chain' = [chain EXCEPT ![c][k] = RemoveFirst(@, r.id)]
             /\ submitted' = submitted \cup Chained(f)
    <3>1. chain' \in [Client -> [Key -> Seq(Puts)]]
      BY <1>1, <1>3, <2>2 DEF TypeInv
    <3> QED BY <1>1, <1>4, <2>2, <3>1 DEF TypeInv
  <2> QED BY <1>6, <2>1, <2>2
<1> QED BY <1>2, <1>5, <1>7, SetupFacts DEF TypeInv

LEMMA DriverReturnType ==
    ASSUME TypeInv, NEW r \in returned, DriverReturn(r)
    PROVE  TypeInv'
<1>1. r.id \in Ids /\ r.data \in Seq(Items)
  BY DEF TypeInv, Results
<1>2. setup' = setup
  BY DEF DriverReturn
<1> QED BY <1>1, <1>2, SetupFacts DEF TypeInv, DriverReturn, worker

LEMMA DeliverType ==
    ASSUME TypeInv, NEW c \in Client, Deliver(c)
    PROVE  TypeInv'
<1> DEFINE id == Head(recvs[c])
           m == Head(inbox[c])
           to == Recipient(id, m)
<1>1. setup' = setup
  BY DEF Deliver
<1>2. recvs[c] # <<>> /\ inbox[c] # <<>>
  BY DEF Deliver
<1>3. id \in Gets /\ Tail(recvs[c]) \in Seq(Gets) /\ m \in Replies /\ Tail(inbox[c]) \in Seq(Replies)
  BY <1>2 DEF TypeInv
<1>4. m.data \in Seq(Items)
  BY <1>3 DEF Replies
<1>5. /\ recvs' = [recvs EXCEPT ![c] = Tail(@)]
      /\ inbox' = [inbox EXCEPT ![c] = Tail(@)]
      /\ UNCHANGED <<setup, issued, chain, submitted, returned, sent, ready, queue, getters, putters, held, taken>>
  BY DEF Deliver, worker
<1>6. \/ UNCHANGED <<status, result>>
      \/ /\ to \in Ids
         /\ result' = [result EXCEPT ![to] = m.data]
         /\ \E s \in {"raised", "done"} : status' = [status EXCEPT ![to] = s]
  BY DEF Deliver
<1> HIDE DEF id, m, to
<1>7. status' \in [Ids -> {"new", "pending", "done", "raised"}] /\ result' \in [Ids -> Seq(Items)]
  BY <1>4, <1>6 DEF TypeInv
<1>8. recvs' \in [Client -> Seq(Gets)] /\ inbox' \in [Client -> Seq(Replies)]
  BY <1>3, <1>5 DEF TypeInv
<1> QED BY <1>1, <1>5, <1>7, <1>8, SetupFacts DEF TypeInv

(* The item a put task has in its hands when it runs.                      *)
PutItem(id) ==
  IF held[id] # <<>> THEN held[id][1]
  ELSE IF InWorker(id) THEN Head(sent[id[1]]) ELSE Item(id)

PutRoom(id, k) ==
  /\ ~Full(k)
  /\ queue' = [queue EXCEPT ![k] = Append(@, PutItem(id))]
  /\ ready' = Tail(ready) \o Woken(getters[k], 1)
  /\ getters' = [getters EXCEPT ![k] = Asleep(@, 1)]
  /\ held' = [held EXCEPT ![id] = <<>>]
  /\ returned' = returned \cup {[id |-> id, out |-> "ok", data |-> <<>>]}
  /\ UNCHANGED putters

PutWaits(id, k) ==
  /\ Full(k) /\ Call(id).op = "put"
  /\ putters' = [putters EXCEPT ![k] = Append(@, id)]
  /\ held' = [held EXCEPT ![id] = <<PutItem(id)>>]
  /\ ready' = Tail(ready)
  /\ UNCHANGED <<queue, getters, returned>>

PutRaises(id, k) ==
  /\ Full(k) /\ Call(id).op = "put_nowait"
  /\ returned' = returned \cup {[id |-> id, out |-> "raise", data |-> <<>>]}
  /\ ready' = Tail(ready)
  /\ UNCHANGED <<queue, getters, putters, held>>

(* What a step of a put task is.                                           *)
LEMMA RunPutFacts ==
    ASSUME TypeInv, NEW id \in Ids, RunPut(id)
    PROVE  /\ id \in Puts /\ id[1] \in Client /\ ready # <<>> /\ Head(ready) = id
           /\ PutItem(id) \in Items /\ PutItem(id).key \in Key
           /\ held[id] # <<>> => held[id][1] \in Items
           /\ \/ /\ held[id] = <<>> /\ InWorker(id)
                 /\ sent[id[1]] # <<>> /\ PutItem(id) = Head(sent[id[1]])
                 /\ sent' = [sent EXCEPT ![id[1]] = Tail(@)]
              \/ /\ held[id] = <<>> /\ ~InWorker(id)
                 /\ PutItem(id) = Item(id) /\ UNCHANGED sent
              \/ /\ held[id] # <<>> /\ PutItem(id) = held[id][1] /\ UNCHANGED sent
           /\ \/ PutRoom(id, PutItem(id).key)
              \/ PutWaits(id, PutItem(id).key)
              \/ PutRaises(id, PutItem(id).key)
           /\ UNCHANGED <<setup, issued, status, result, chain, recvs, submitted, inbox, taken>>
<1>1. id \in Puts /\ ready # <<>> /\ Head(ready) = id
  BY DEF RunPut, Running
<1>2. id[1] \in Client /\ Item(id) \in Items
  BY CallFacts DEF TypeInv
<1>3. held[id] # <<>> => held[id][1] \in Items
  BY DEF TypeInv
<1>4. held[id] = <<>> /\ InWorker(id) => sent[id[1]] # <<>>
  BY DEF RunPut
<1>5. sent[id[1]] # <<>> => Head(sent[id[1]]) \in Items
  BY <1>2 DEF TypeInv
<1>6. PutItem(id) \in Items
  BY <1>2, <1>3, <1>4, <1>5 DEF PutItem
<1>7. PutItem(id).key \in Key
  BY <1>6, ItemFacts DEF TypeInv
<1>8. \/ /\ held[id] = <<>> /\ InWorker(id)
         /\ sent[id[1]] # <<>> /\ PutItem(id) = Head(sent[id[1]])
         /\ sent' = [sent EXCEPT ![id[1]] = Tail(@)]
      \/ /\ held[id] = <<>> /\ ~InWorker(id)
         /\ PutItem(id) = Item(id) /\ UNCHANGED sent
      \/ /\ held[id] # <<>> /\ PutItem(id) = held[id][1] /\ UNCHANGED sent
  BY <1>4 DEF RunPut, PutItem
<1>9. \/ PutRoom(id, PutItem(id).key)
      \/ PutWaits(id, PutItem(id).key)
      \/ PutRaises(id, PutItem(id).key)
  BY DEF RunPut, PutItem, PutRoom, PutWaits, PutRaises
<1>10. UNCHANGED <<setup, issued, status, result, chain, recvs, submitted, inbox, taken>>
  BY DEF RunPut, client
<1> QED BY <1>1, <1>2, <1>3, <1>6, <1>7, <1>8, <1>9, <1>10

LEMMA RunPutType ==
    ASSUME TypeInv, NEW id \in Ids, RunPut(id)
    PROVE  TypeInv'
<1> DEFINE x == PutItem(id)
           k == PutItem(id).key
<1>1. /\ id \in Puts /\ id[1] \in Client /\ ready # <<>>
      /\ x \in Items /\ k \in Key
      /\ PutRoom(id, k) \/ PutWaits(id, k) \/ PutRaises(id, k)
      /\ UNCHANGED <<setup, issued, status, result, chain, recvs, submitted, inbox, taken>>
  BY RunPutFacts
<1>2. sent' \in [Client -> Seq(Items)]
  <2>1. sent[id[1]] # <<>> => Tail(sent[id[1]]) \in Seq(Items)
    BY <1>1 DEF TypeInv
  <2> QED BY <1>1, <2>1, RunPutFacts DEF TypeInv
<1>3. Tail(ready) \in Seq(Ids)
  BY <1>1 DEF TypeInv
<1>4. /\ Append(queue[k], x) \in Seq(Items)
      /\ Append(putters[k], id) \in Seq(Puts) /\ <<x>> \in Seq(Items) /\ <<>> \in Seq(Items)
      /\ getters[k] \in Seq(Gets)
  BY <1>1 DEF TypeInv
<1>5. Woken(getters[k], 1) \in Seq(Gets) /\ Asleep(getters[k], 1) \in Seq(Gets)
  BY <1>4, WokenFacts
<1>6. Tail(ready) \o Woken(getters[k], 1) \in Seq(Ids)
  <2>1. Woken(getters[k], 1) \in Seq(Ids)
    BY <1>5 DEF Gets
  <2> QED BY <1>3, <2>1, ConcatFacts
<1>7. \A out \in {"ok", "raise"} : [id |-> id, out |-> out, data |-> <<>>] \in Results
  BY <1>4 DEF Results
<1> HIDE DEF x, k
<1>8. /\ ready' \in Seq(Ids) /\ queue' \in [Key -> Seq(Items)]
      /\ getters' \in [Key -> Seq(Gets)] /\ putters' \in [Key -> Seq(Puts)]
      /\ held' \in [Ids -> Seq(Items)] /\ returned' \in SUBSET Results
  <2>1. CASE PutRoom(id, k)
    BY <1>1, <1>4, <1>5, <1>6, <1>7, <2>1 DEF PutRoom, TypeInv, x
  <2>2. CASE PutWaits(id, k)
    BY <1>1, <1>3, <1>4, <2>2 DEF PutWaits, TypeInv, x
  <2>3. CASE PutRaises(id, k)
    BY <1>1, <1>3, <1>7, <2>3 DEF PutRaises, TypeInv
  <2> QED BY <1>1, <2>1, <2>2, <2>3
<1> QED BY <1>1, <1>2, <1>8, SetupFacts DEF TypeInv

(* Items leave a queue and putters wake.                                   *)
LEMMA TakeType ==
    ASSUME TypeInv, ready # <<>>, NEW k \in Key, NEW n \in 0..Len(queue[k]), TakeItems(k, n)
    PROVE  /\ queue' \in [Key -> Seq(Items)] /\ taken' \in [Key -> Seq(Items)]
           /\ ready' \in Seq(Ids) /\ putters' \in [Key -> Seq(Puts)]
<1>1. /\ Tail(ready) \in Seq(Ids) /\ queue[k] \in Seq(Items) /\ taken[k] \in Seq(Items)
      /\ putters[k] \in Seq(Puts) /\ Len(queue[k]) \in Nat
  BY DEF TypeInv
<1>2. Woken(putters[k], n) \in Seq(Puts) /\ Asleep(putters[k], n) \in Seq(Puts)
  <2>1. n \in Nat
    BY <1>1
  <2> QED BY <1>1, <2>1, WokenFacts
<1>3. Woken(putters[k], n) \in Seq(Ids)
  BY <1>2 DEF Puts
<1>4. ready' \in Seq(Ids)
  BY <1>1, <1>3, ConcatFacts DEF TakeItems
<1>5. SubSeq(queue[k], n + 1, Len(queue[k])) \in Seq(Items)
  BY <1>1
<1>6. SubSeq(queue[k], 1, n) \in Seq(Items)
  BY <1>1
<1>7. taken[k] \o SubSeq(queue[k], 1, n) \in Seq(Items)
  BY <1>1, <1>6
<1> QED BY <1>2, <1>4, <1>5, <1>7 DEF TakeItems, TypeInv

LEMMA AnswerType ==
    ASSUME TypeInv, NEW id \in Gets, NEW q \in Gets \cup {<<>>}, NEW data \in Seq(Items),
           Answer(id, q, data)
    PROVE  inbox' \in [Client -> Seq(Replies)] /\ returned' \in SUBSET Results
<1>1. id \in Ids /\ id[1] \in Client
  BY CallFacts DEF TypeInv, Gets
<1>2. [query |-> q, data |-> data] \in Replies
  BY DEF Replies
<1>3. Append(inbox[id[1]], [query |-> q, data |-> data]) \in Seq(Replies)
  BY <1>1, <1>2 DEF TypeInv
<1>4. [id |-> id, out |-> IF q = <<>> THEN "raise" ELSE "ok", data |-> data] \in Results
  BY <1>1 DEF Results
<1> QED BY <1>1, <1>3, <1>4 DEF Answer, TypeInv

GetTakes(id, k) ==
  /\ queue[k] # <<>>
  /\ Answer(id, id, <<Head(queue[k])>>)
  /\ TakeItems(k, 1)
  /\ UNCHANGED getters

GetWaits(id, k) ==
  /\ queue[k] = <<>> /\ Call(id).op = "get"
  /\ getters' = [getters EXCEPT ![k] = Append(@, id)]
  /\ ready' = Tail(ready)
  /\ UNCHANGED <<queue, taken, putters, inbox, returned>>

GetFails(id, k) ==
  /\ queue[k] = <<>> /\ Call(id).op = "get_nowait"
  /\ Answer(id, <<>>, <<>>)
  /\ ready' = Tail(ready)
  /\ UNCHANGED <<queue, taken, putters, getters>>

(* What a step of a get task is.                                           *)
LEMMA RunGetFacts ==
    ASSUME TypeInv, NEW id \in Ids, RunGet(id)
    PROVE  /\ id \in Gets /\ id[1] \in Client /\ ready # <<>> /\ Head(ready) = id
           /\ Call(id).key \in Key /\ Call(id).op # "get_batch"
           /\ \/ GetTakes(id, Call(id).key)
              \/ GetWaits(id, Call(id).key)
              \/ GetFails(id, Call(id).key)
           /\ UNCHANGED <<setup, issued, status, result, chain, recvs, submitted, sent, held>>
<1>1. id[1] \in Client /\ Call(id).key \in Key
  BY CallFacts DEF TypeInv
<1>2. Call(id).op \in {"get", "get_nowait"} /\ ready # <<>> /\ Head(ready) = id
  BY DEF RunGet, Running
<1>3. id \in Gets
  BY <1>2 DEF Gets, Puts
<1>4. \/ GetTakes(id, Call(id).key)
      \/ GetWaits(id, Call(id).key)
      \/ GetFails(id, Call(id).key)
  BY DEF RunGet, GetTakes, GetWaits, GetFails
<1> QED BY <1>1, <1>2, <1>3, <1>4 DEF RunGet, client

LEMMA RunGetType ==
    ASSUME TypeInv, NEW id \in Ids, RunGet(id)
    PROVE  TypeInv'
<1> DEFINE k == Call(id).key
<1>1. /\ id \in Gets /\ ready # <<>> /\ k \in Key
      /\ GetTakes(id, k) \/ GetWaits(id, k) \/ GetFails(id, k)
      /\ UNCHANGED <<setup, issued, status, result, chain, recvs, submitted, sent, held>>
  BY RunGetFacts
<1> HIDE DEF k
<1>2. CASE GetTakes(id, k)
  <2>1. queue[k] \in Seq(Items) /\ queue[k] # <<>>
    BY <1>1, <1>2 DEF GetTakes, TypeInv
  <2>2. <<Head(queue[k])>> \in Seq(Items) /\ 1 \in 0..Len(queue[k])
    BY <2>1
  <2>3. inbox' \in [Client -> Seq(Replies)] /\ returned' \in SUBSET Results
    BY <1>1, <1>2, <2>2, AnswerType DEF GetTakes
  <2>4. /\ queue' \in [Key -> Seq(Items)] /\ taken' \in [Key -> Seq(Items)]
        /\ ready' \in Seq(Ids) /\ putters' \in [Key -> Seq(Puts)]
    BY <1>1, <1>2, <2>2, TakeType DEF GetTakes
  <2> QED BY <1>1, <1>2, <2>3, <2>4, SetupFacts DEF TypeInv, GetTakes
<1>3. CASE GetWaits(id, k)
  <2>1. Append(getters[k], id) \in Seq(Gets) /\ Tail(ready) \in Seq(Ids)
    BY <1>1 DEF TypeInv
  <2>2. getters' \in [Key -> Seq(Gets)]
    BY <1>1, <1>3, <2>1 DEF TypeInv, GetWaits
  <2> QED BY <1>1, <1>3, <2>1, <2>2, SetupFacts DEF TypeInv, GetWaits
<1>4. CASE GetFails(id, k)
  <2>1. Tail(ready) \in Seq(Ids) /\ <<>> \in Seq(Items)
    BY <1>1 DEF TypeInv
  <2>2. inbox' \in [Client -> Seq(Replies)] /\ returned' \in SUBSET Results
    BY <1>1, <1>4, <2>1, AnswerType DEF GetFails
  <2> QED BY <1>1, <1>4, <2>1, <2>2, SetupFacts DEF TypeInv, GetFails
<1> QED BY <1>1, <1>2, <1>3, <1>4

(* get_batch takes a prefix that does not weigh too much, and leaves an     *)
(* item only if it would, or if the target is reached.                     *)
LEMMA BatchLengthFacts ==
    ASSUME NEW S, NEW batch \in Seq(S), NEW q \in Seq(S), NEW target
    PROVE  LET n == BatchLength(batch, q, target)
               full == batch \o SubSeq(q, 1, n)
           IN /\ n \in 0..Len(q)
              /\ n > 0 => Weight(full) <= target
              /\ n < Len(q) => \/ Weight(full) >= target
                               \/ ~(Weight(Append(full, q[n + 1])) <= target)
<1> DEFINE upto(n) == Weight(batch \o SubSeq(q, 1, n))
           N == {n \in 0..Len(q) : \A j \in 1..n :
                   upto(j) <= target /\ ~(j > 1 /\ upto(j - 1) >= target)}
           n == Max(N)
<1>1. BatchLength(batch, q, target) = n
  BY DEF BatchLength
<1>2. Len(q) \in Nat /\ 0 \in N
  OBVIOUS
<1>3. N \in SUBSET Nat /\ \A e \in N : e <= Len(q)
  OBVIOUS
<1>4. n \in N /\ \A m \in N : m <= n
  <2> HIDE DEF N
  <2> QED BY <1>2, <1>3, MaxExists
<1>5. \A m \in N : m \in 0..Len(q) /\ (m > 0 => upto(m) <= target)
  <2> TAKE m \in N
  <2>1. m \in 0..Len(q) /\ \A j \in 1..m : upto(j) <= target
    OBVIOUS
  <2>2. m > 0 => m \in 1..m
    BY <2>1
  <2> HIDE DEF upto, N
  <2> QED BY <2>1, <2>2
<1>6. ASSUME n < Len(q)
      PROVE  \/ upto(n) >= target
             \/ ~(Weight(Append(batch \o SubSeq(q, 1, n), q[n + 1])) <= target)
  <2>1. n \in 0..Len(q) /\ \A j \in 1..n : upto(j) <= target /\ ~(j > 1 /\ upto(j - 1) >= target)
    <3>1. \A m \in N : m \in 0..Len(q) /\ \A j \in 1..m : upto(j) <= target /\ ~(j > 1 /\ upto(j - 1) >= target)
      OBVIOUS
    <3> HIDE DEF N, upto
    <3> QED BY <1>4, <3>1
  <2>2. n + 1 \notin N
    <3> HIDE DEF N
    <3> QED BY <1>2, <1>4, <2>1
  <2>3. ~(upto(n + 1) <= target) \/ upto(n) >= target
    <3> HIDE DEF n
    <3>1. n + 1 \in 0..Len(q) /\ n \in Nat
      BY <1>2, <1>6, <2>1
    <3>2. PICK j \in 1..(n + 1) : ~(upto(j) <= target /\ ~(j > 1 /\ upto(j - 1) >= target))
      BY <2>2, <3>1
    <3> HIDE DEF upto, N
    <3>3. j = n + 1
      BY <2>1, <3>1, <3>2
    <3>4. (n + 1) - 1 = n
      BY <3>1
    <3> QED BY <3>2, <3>3, <3>4
  <2>4. batch \o SubSeq(q, 1, n + 1) = Append(batch \o SubSeq(q, 1, n), q[n + 1])
    <3> HIDE DEF n
    <3>1. SubSeq(q, 1, n + 1) = Append(SubSeq(q, 1, n), q[n + 1])
      BY <1>2, <1>6, <2>1
    <3>2. SubSeq(q, 1, n) \in Seq(S) /\ q[n + 1] \in S
      BY <1>2, <1>6, <2>1
    <3>3. \A u \in Seq(S), x \in S : batch \o Append(u, x) = Append(batch \o u, x)
      OBVIOUS
    <3> HIDE DEF upto, N
    <3> QED BY <3>1, <3>2, <3>3
  <2> QED BY <2>3, <2>4
<1> QED BY <1>1, <1>4, <1>5, <1>6

BatchSize(id) == BatchLength(held[id], queue[Call(id).key], Call(id).weight)
Batch(id) == held[id] \o SubSeq(queue[Call(id).key], 1, BatchSize(id))

(* Why the batch ends.                                                     *)
BatchOver(id, k) ==
  \/ Weight(Batch(id)) >= Call(id).weight
  \/ /\ BatchSize(id) < Len(queue[k])
     /\ ~(Weight(Append(Batch(id), queue[k][BatchSize(id) + 1])) <= Call(id).weight)

BatchEnds(id, k) ==
  /\ BatchOver(id, k)
  /\ Answer(id, id, Batch(id))
  /\ held' = [held EXCEPT ![id] = <<>>]
  /\ UNCHANGED getters

BatchWaits(id, k) ==
  /\ BatchSize(id) = Len(queue[k])
  /\ getters' = [getters EXCEPT ![k] = Append(@, id)]
  /\ held' = [held EXCEPT ![id] = Batch(id)]
  /\ UNCHANGED <<inbox, returned>>

(* What a step of a get_batch task is.                                     *)
LEMMA RunBatchFacts ==
    ASSUME TypeInv, NEW id \in Ids, RunGetBatch(id)
    PROVE  /\ id \in Gets /\ id[1] \in Client /\ ready # <<>> /\ Head(ready) = id
           /\ Call(id).key \in Key /\ Call(id).op = "get_batch"
           /\ BatchSize(id) \in 0..Len(queue[Call(id).key])
           /\ BatchSize(id) > 0 => Weight(Batch(id)) <= Call(id).weight
           /\ BatchSize(id) = 0 => Batch(id) = held[id]
           /\ Batch(id) \in Seq(Items)
           /\ TakeItems(Call(id).key, BatchSize(id))
           /\ BatchEnds(id, Call(id).key) \/ BatchWaits(id, Call(id).key)
           /\ UNCHANGED <<setup, issued, status, result, chain, recvs, submitted, sent>>
<1> DEFINE k == Call(id).key
<1>1. id[1] \in Client /\ k \in Key
  BY CallFacts DEF TypeInv
<1>2. Call(id).op = "get_batch" /\ ready # <<>> /\ Head(ready) = id
  BY DEF RunGetBatch, Running
<1>3. id \in Gets
  BY <1>2 DEF Gets, Puts
<1>4. queue[k] \in Seq(Items) /\ held[id] \in Seq(Items)
  BY <1>1 DEF TypeInv
<1>5. /\ BatchSize(id) \in 0..Len(queue[k])
      /\ BatchSize(id) > 0 => Weight(Batch(id)) <= Call(id).weight
      /\ BatchSize(id) < Len(queue[k]) => BatchOver(id, k)
  BY <1>4, BatchLengthFacts DEF BatchSize, Batch, BatchOver
<1>6. SubSeq(queue[k], 1, BatchSize(id)) \in Seq(Items) /\ SubSeq(queue[k], 1, 0) = <<>>
  BY <1>4, <1>5
<1>7. Batch(id) \in Seq(Items)
  BY <1>4, <1>6 DEF Batch
<1>8. BatchSize(id) = 0 => Batch(id) = held[id]
  <2>1. ASSUME BatchSize(id) = 0 PROVE Batch(id) = held[id] \o <<>>
    BY <1>6, <2>1 DEF Batch
  <2> QED BY <1>4, <2>1
<1>9. TakeItems(k, BatchSize(id))
  BY DEF RunGetBatch, BatchSize
<1>10. BatchEnds(id, k) \/ BatchWaits(id, k)
  <2>1. \/ /\ \/ BatchSize(id) < Len(queue[k])
              \/ BatchSize(id) > 0 /\ Weight(Batch(id)) >= Call(id).weight
           /\ Answer(id, id, Batch(id))
           /\ held' = [held EXCEPT ![id] = <<>>]
           /\ UNCHANGED getters
        \/ /\ ~(BatchSize(id) < Len(queue[k]))
           /\ getters' = [getters EXCEPT ![k] = Append(@, id)]
           /\ held' = [held EXCEPT ![id] = Batch(id)]
           /\ UNCHANGED <<inbox, returned>>
    BY DEF RunGetBatch, BatchSize, Batch
  <2>2. Len(queue[k]) \in Nat
    BY <1>4
  <2>3. ~(BatchSize(id) < Len(queue[k])) => BatchSize(id) = Len(queue[k])
    BY <1>5, <2>2
  <2>4. (BatchSize(id) < Len(queue[k]) => BatchOver(id, k))
        /\ (Weight(Batch(id)) >= Call(id).weight => BatchOver(id, k))
    BY <1>5 DEF BatchOver
  <2> QED BY <2>1, <2>3, <2>4 DEF BatchEnds, BatchWaits
<1>11. UNCHANGED <<setup, issued, status, result, chain, recvs, submitted, sent>>
  BY DEF RunGetBatch, client
<1> QED BY <1>1, <1>2, <1>3, <1>5, <1>7, <1>8, <1>9, <1>10, <1>11

LEMMA RunBatchType ==
    ASSUME TypeInv, NEW id \in Ids, RunGetBatch(id)
    PROVE  TypeInv'
<1> DEFINE k == Call(id).key
<1>1. /\ id \in Gets /\ ready # <<>> /\ k \in Key
      /\ BatchSize(id) \in 0..Len(queue[k]) /\ Batch(id) \in Seq(Items)
      /\ TakeItems(k, BatchSize(id))
      /\ BatchEnds(id, k) \/ BatchWaits(id, k)
      /\ UNCHANGED <<setup, issued, status, result, chain, recvs, submitted, sent>>
  BY RunBatchFacts
<1> HIDE DEF k
<1>2. /\ queue' \in [Key -> Seq(Items)] /\ taken' \in [Key -> Seq(Items)]
      /\ ready' \in Seq(Ids) /\ putters' \in [Key -> Seq(Puts)]
  BY <1>1, TakeType
<1>3. <<>> \in Seq(Items)
  OBVIOUS
<1>4. CASE BatchEnds(id, k)
  <2>1. inbox' \in [Client -> Seq(Replies)] /\ returned' \in SUBSET Results
    BY <1>1, <1>4, AnswerType DEF BatchEnds
  <2>2. held' \in [Ids -> Seq(Items)]
    BY <1>3, <1>4 DEF BatchEnds, TypeInv
  <2> QED BY <1>1, <1>2, <1>4, <2>1, <2>2, SetupFacts DEF TypeInv, BatchEnds
<1>5. CASE BatchWaits(id, k)
  <2>1. Append(getters[k], id) \in Seq(Gets)
    BY <1>1 DEF TypeInv
  <2>2. getters' \in [Key -> Seq(Gets)] /\ held' \in [Ids -> Seq(Items)]
    BY <1>1, <1>5, <2>1 DEF TypeInv, BatchWaits
  <2> QED BY <1>1, <1>2, <1>5, <2>2, SetupFacts DEF TypeInv, BatchWaits
<1> QED BY <1>1, <1>4, <1>5

-----------------------------------------------------------------------------
(* The tasks.                                                              *)

(* The task of a call is submitted, ready or waiting.                      *)
Live(id) ==
  \/ id \in submitted \/ id \in Range(ready)
  \/ \E k \in Key : id \in Range(getters[k]) \/ id \in Range(putters[k])

(* Its result is on the way to the client.                                 *)
Replying(id) == \E r \in returned : r.id = id

Issued(id) == id[2] <= issued[id[1]]

TaskInv ==
  /\ IsInjective(ready)
  /\ Range(ready) \cap submitted = {}
  /\ \A k \in Key :
       /\ IsInjective(getters[k]) /\ IsInjective(putters[k])
       /\ Range(getters[k]) \cap (submitted \cup Range(ready)) = {}
       /\ Range(putters[k]) \cap (submitted \cup Range(ready)) = {}
  /\ \A j, k \in Key : j # k =>
       /\ Range(getters[j]) \cap Range(getters[k]) = {}
       /\ Range(putters[j]) \cap Range(putters[k]) = {}
  /\ \A id \in Ids : Live(id) => ~Replying(id)
  /\ \A r1, r2 \in returned : r1.id = r2.id => r1 = r2

(* Tasks that wait, by key: those of getters or of putters.                *)
Family(S, rdy, W) ==
  /\ rdy \in Seq(S) /\ IsInjective(rdy)
  /\ W \in [Key -> Seq(S)]
  /\ \A j \in Key : IsInjective(W[j]) /\ Range(W[j]) \cap Range(rdy) = {}
  /\ \A i, j \in Key : i # j => Range(W[i]) \cap Range(W[j]) = {}

Wakes(rdy, rdy2, W, W2, k, n) ==
  /\ rdy # <<>> /\ rdy2 = Tail(rdy) \o Woken(W[k], n)
  /\ W2 = [W EXCEPT ![k] = Asleep(@, n)]

Joins(W, W2, k, e) == W2 = [W EXCEPT ![k] = Append(@, e)]

Woke(rdy, rdy2, W, W2, k) ==
  /\ IsInjective(rdy2)
  /\ Range(rdy2) \subseteq (Range(rdy) \ {Head(rdy)}) \cup Range(W[k])
  /\ \A j \in Key : /\ IsInjective(W2[j]) /\ Range(W2[j]) \subseteq Range(W[j])
         /\ Range(W2[j]) \cap Range(rdy2) = {}
  /\ \A x : (x \in Range(rdy2) \/ \E j \in Key : x \in Range(W2[j]))
                       <=> ((x \in Range(rdy) /\ x # Head(rdy)) \/ \E j \in Key : x \in Range(W[j]))

Joined(W, W2, k, e) ==
  /\ \A j \in Key : IsInjective(W2[j])
  /\ \A j \in Key : Range(W2[j]) = IF j = k THEN Range(W[k]) \cup {e} ELSE Range(W[j])

(* Waking tasks of one key.                                                *)
LEMMA WakeFacts ==
    ASSUME NEW S, NEW rdy, NEW W, Family(S, rdy, W),
           NEW k \in Key, NEW n \in Nat,
           NEW rdy2, NEW W2, Wakes(rdy, rdy2, W, W2, k, n)
    PROVE  Woke(rdy, rdy2, W, W2, k)
<1> DEFINE u == Woken(W[k], n)
           v == Asleep(W[k], n)
<1>0. /\ rdy \in Seq(S) /\ IsInjective(rdy) /\ rdy # <<>>
      /\ \A j \in Key : IsInjective(W[j]) /\ Range(W[j]) \cap Range(rdy) = {}
      /\ \A i, j \in Key : i # j => Range(W[i]) \cap Range(W[j]) = {}
  BY DEF Family, Wakes
<1>1. W \in [Key -> Seq(S)] /\ W[k] \in Seq(S)
  BY DEF Family
<1>2. /\ u \in Seq(S) /\ v \in Seq(S) /\ Range(u) \cup Range(v) = Range(W[k])
      /\ IsInjective(u) /\ IsInjective(v) /\ Range(u) \cap Range(v) = {}
  BY <1>0, <1>1, WokenFacts
<1>3. IsInjective(Tail(rdy)) /\ Range(Tail(rdy)) = Range(rdy) \ {Head(rdy)} /\ Tail(rdy) \in Seq(S)
  BY <1>0, InjectiveTail
<1>4. rdy2 = Tail(rdy) \o u /\ \A j \in Key : W2[j] = IF j = k THEN v ELSE W[j]
  BY <1>1 DEF Wakes
<1> HIDE DEF u, v
<1>5. Range(Tail(rdy)) \cap Range(u) = {}
  BY <1>0, <1>2, <1>3
<1>6. Range(rdy2) = Range(Tail(rdy)) \cup Range(u) /\ IsInjective(rdy2)
  <2> DEFINE t == Tail(rdy)
  <2>1. t \in Seq(S) /\ u \in Seq(S) /\ IsInjective(t) /\ IsInjective(u) /\ Range(t) \cap Range(u) = {}
    BY <1>2, <1>3, <1>5
  <2>2. rdy2 = t \o u
    BY <1>4
  <2> HIDE DEF t
  <2>3. Range(t \o u) = Range(t) \cup Range(u) /\ IsInjective(t \o u)
    BY <2>1, ConcatFacts
  <2> QED BY <2>2, <2>3 DEF t
<1>7. \A j \in Key : /\ IsInjective(W2[j]) /\ Range(W2[j]) \subseteq Range(W[j])
                   /\ Range(W2[j]) \cap Range(rdy2) = {}
  <2> TAKE j \in Key
  <2>1. CASE j = k
    BY <1>0, <1>2, <1>3, <1>4, <1>6, <2>1
  <2>2. CASE j # k
    BY <1>0, <1>2, <1>3, <1>4, <1>6, <2>2
  <2> QED BY <2>1, <2>2
<1>8. ASSUME NEW x
      PROVE  (x \in Range(rdy2) \/ \E j \in Key : x \in Range(W2[j]))
               <=> ((x \in Range(rdy) /\ x # Head(rdy)) \/ \E j \in Key : x \in Range(W[j]))
  <2>1. (\E j \in Key : x \in Range(W[j]))
          <=> (x \in Range(W[k]) \/ \E j \in Key : j # k /\ x \in Range(W[j]))
    OBVIOUS
  <2>2. (\E j \in Key : x \in Range(W2[j]))
          <=> (x \in Range(v) \/ \E j \in Key : j # k /\ x \in Range(W[j]))
    BY <1>4
  <2> QED BY <1>2, <1>3, <1>6, <2>1, <2>2
<1> QED BY <1>0, <1>2, <1>3, <1>6, <1>7, <1>8 DEF Woke

(* A task joins those that wait for one key.                               *)
LEMMA JoinFacts ==
    ASSUME NEW S, NEW rdy, NEW W, Family(S, rdy, W), NEW k \in Key, NEW e \in Range(rdy),
           NEW W2, Joins(W, W2, k, e)
    PROVE  Joined(W, W2, k, e)
<1>1. W \in [Key -> Seq(S)] /\ W[k] \in Seq(S) /\ rdy \in Seq(S)
      /\ \A j \in Key : IsInjective(W[j]) /\ e \notin Range(W[j])
  BY DEF Family
<1>2. e \in S
  BY <1>1 DEF Range
<1>3. /\ Range(Append(W[k], e)) = Range(W[k]) \cup {e}
      /\ IsInjective(Append(W[k], e))
  BY <1>1, <1>2, InjectiveAppend
<1>4. \A j \in Key : W2[j] = IF j = k THEN Append(W[k], e) ELSE W[j]
  BY <1>1 DEF Joins
<1> QED BY <1>1, <1>3, <1>4 DEF Joined

LEMMA Families ==
    ASSUME TypeInv, TaskInv
    PROVE  Family(Ids, ready, getters) /\ Family(Ids, ready, putters)
<1>1. Seq(Gets) \subseteq Seq(Ids) /\ Seq(Puts) \subseteq Seq(Ids)
  BY DEF Gets, Puts
<1> QED BY <1>1 DEF Family, TypeInv, TaskInv

(* A finished task.                                                        *)
LEMMA AnswerReturned ==
    ASSUME TypeInv, NEW id \in Ids, NEW q, NEW data, Answer(id, q, data)
    PROVE  \/ UNCHANGED returned
           \/ \E r : r.id = id /\ returned' = returned \cup {r}
<1> DEFINE r == [id |-> id, out |-> IF q = <<>> THEN "raise" ELSE "ok", data |-> data]
<1>1. r.id = id
  OBVIOUS
<1>2. UNCHANGED returned \/ returned' = returned \cup {r}
  BY DEF Answer
<1> QED BY <1>1, <1>2

(* What the tasks are after one has run: it has returned or waits.         *)
Ended(id) == \A j : Live(j)' <=> (Live(j) /\ j # id)
Stays == \A j : Live(j)' <=> Live(j)

LEMMA ReturnedKeeps ==
    ASSUME TypeInv, TaskInv, NEW id \in Ids, Live(id), Ended(id), setup' = setup,
           \/ UNCHANGED returned
           \/ \E r : r.id = id /\ returned' = returned \cup {r}
    PROVE  /\ \A j \in Ids' : Live(j)' => ~Replying(j)'
           /\ \A r1, r2 \in returned' : r1.id = r2.id => r1 = r2
<1>1. Ids' = Ids
  BY SetupFacts
<1>2. \A r \in returned : r.id # id
  BY DEF TaskInv, Replying
<1>3. CASE UNCHANGED returned
  BY <1>1, <1>3 DEF TaskInv, Replying, Ended
<1>4. ASSUME NEW r, r.id = id, returned' = returned \cup {r}
      PROVE  /\ \A j \in Ids' : Live(j)' => ~Replying(j)'
             /\ \A r1, r2 \in returned' : r1.id = r2.id => r1 = r2
  BY <1>1, <1>2, <1>4 DEF TaskInv, Replying, Ended
<1> QED BY <1>3, <1>4

-----------------------------------------------------------------------------
(* What each step does to the tasks.                                       *)

IssuedInv ==
  \A id \in Ids :
    /\ Live(id) \/ Replying(id) => Issued(id)
    /\ status[id] = "new" <=> ~Issued(id)

(* A call that is made has no task yet.                                    *)
LEMMA NewCall ==
    ASSUME TypeInv, IssuedInv, NEW id \in Ids, AtCall(id)
    PROVE  /\ ~Live(id) /\ ~Replying(id) /\ ~Issued(id)
           /\ \A j \in Ids : (j[2] <= issued'[j[1]]) <=> (Issued(j) \/ j = id)
<1>1. /\ id[1] \in Client /\ id[2] = issued[id[1]] + 1 /\ issued[id[1]] \in Nat
      /\ issued' = [issued EXCEPT ![id[1]] = id[2]]
  BY CallFacts DEF AtCall, TypeInv
<1>2. ~Issued(id)
  BY <1>1 DEF Issued
<1>3. ASSUME NEW j \in Ids
      PROVE  (j[2] <= issued'[j[1]]) <=> (Issued(j) \/ j = id)
  <2>1. j[1] \in Client /\ j[2] \in Nat /\ j = <<j[1], j[2]>> /\ id = <<id[1], id[2]>>
    BY CallFacts DEF TypeInv
  <2>2. issued[j[1]] \in Nat
    BY <2>1 DEF TypeInv
  <2>3. CASE j[1] = id[1]
    <3>1. issued'[j[1]] = issued[j[1]] + 1 /\ id[2] = issued[j[1]] + 1
      BY <1>1, <2>1, <2>3 DEF TypeInv
    <3>2. j = id <=> j[2] = id[2]
      BY <2>1, <2>3
    <3> QED BY <2>1, <2>2, <3>1, <3>2 DEF Issued
  <2>4. CASE j[1] # id[1]
    BY <1>1, <2>1, <2>2, <2>4 DEF Issued, TypeInv
  <2> QED BY <2>3, <2>4
<1> QED BY <1>2, <1>3 DEF IssuedInv

(* Submitting a task.                                                      *)
LEMMA SubmitTasks ==
    ASSUME TypeInv, TaskInv, NEW new \in SUBSET Ids, setup' = setup,
           \A j \in new : ~Live(j),
           submitted' = submitted \cup new,
           UNCHANGED <<ready, getters, putters>>
    PROVE  /\ \A j : Live(j)' <=> (Live(j) \/ j \in new)
           /\ (\A j \in new : ~Replying(j)) /\ returned' \subseteq returned => TaskInv'
           /\ (\A j \in new : \A r \in returned : r.id = j => r \notin returned') /\ returned' \subseteq returned => TaskInv'
<1>1. \A j : Live(j)' <=> (Live(j) \/ j \in new)
  BY DEF Live
<1>2. Ids' = Ids
  BY SetupFacts
<1>3. /\ IsInjective(ready') /\ Range(ready') \cap submitted' = {}
      /\ \A k \in Key :
           /\ IsInjective(getters'[k]) /\ IsInjective(putters'[k])
           /\ Range(getters'[k]) \cap (submitted' \cup Range(ready')) = {}
           /\ Range(putters'[k]) \cap (submitted' \cup Range(ready')) = {}
      /\ \A j, k \in Key : j # k =>
           /\ Range(getters'[j]) \cap Range(getters'[k]) = {}
           /\ Range(putters'[j]) \cap Range(putters'[k]) = {}
  BY DEF TaskInv, Live
<1>4. ASSUME \A j \in new : \A r \in returned : r.id = j => r \notin returned',
             returned' \subseteq returned
      PROVE  TaskInv'
  BY <1>1, <1>2, <1>3, <1>4 DEF TaskInv, Replying
<1>5. ASSUME \A j \in new : ~Replying(j), returned' \subseteq returned
      PROVE  TaskInv'
  BY <1>1, <1>2, <1>3, <1>5 DEF TaskInv, Replying
<1> QED BY <1>1, <1>4, <1>5

LEMMA StartTasks ==
    ASSUME TypeInv, TaskInv, NEW id \in Ids, Start(id)
    PROVE  TaskInv' /\ Stays /\ returned' = returned
<1>1. /\ id \in submitted /\ submitted' = submitted \ {id} /\ ready' = Append(ready, id)
      /\ UNCHANGED <<setup, getters, putters, returned>>
  BY DEF Start
<1>2. id \notin Range(ready) /\ ready \in Seq(Ids) /\ IsInjective(ready)
  BY <1>1 DEF TaskInv, TypeInv
<1>3. Range(ready') = Range(ready) \cup {id} /\ IsInjective(ready')
  BY <1>1, <1>2, InjectiveAppend
<1>4. Stays
  BY <1>1, <1>3 DEF Stays, Live
<1>5. Ids' = Ids
  BY <1>1, SetupFacts
<1>6. \A j \in Ids' : Live(j)' => ~Replying(j)'
  BY <1>1, <1>4, <1>5 DEF TaskInv, Stays, Replying
<1> QED BY <1>1, <1>3, <1>4, <1>6 DEF TaskInv

LEMMA RunPutTasks ==
    ASSUME TypeInv, TaskInv, NEW id \in Ids, RunPut(id)
    PROVE  /\ TaskInv' /\ Live(id) /\ id \notin submitted
           /\ PutWaits(id, PutItem(id).key) => Stays /\ returned' = returned
           /\ ~PutWaits(id, PutItem(id).key) => Ended(id)
           /\ \A j \in Ids : Replying(j)' => Replying(j) \/ (j = id /\ Ended(id))
<1> DEFINE k == PutItem(id).key
<1>1. /\ id \in Puts /\ ready # <<>> /\ Head(ready) = id /\ k \in Key
      /\ PutRoom(id, k) \/ PutWaits(id, k) \/ PutRaises(id, k)
      /\ UNCHANGED <<setup, submitted>>
  BY RunPutFacts
<1>2. ready \in Seq(Ids) /\ getters \in [Key -> Seq(Gets)] /\ putters \in [Key -> Seq(Puts)]
  BY DEF TypeInv
<1>3. id \in Range(ready) /\ Live(id) /\ id \notin submitted
  BY <1>1, <1>2, TailFacts DEF Live, TaskInv
<1>4. Ids' = Ids
  BY <1>1, SetupFacts
<1>5. /\ IsInjective(Tail(ready)) /\ Range(Tail(ready)) = Range(ready) \ {id}
  BY <1>1, <1>2, InjectiveTail DEF TaskInv
<1> HIDE DEF k
<1>6. CASE PutRoom(id, k)
  <2>1. Wakes(ready, ready', getters, getters', k, 1)
    BY <1>1, <1>6 DEF PutRoom, Wakes
  <2>2. Family(Ids, ready, getters)
    BY Families
  <2>3. UNCHANGED putters
    BY <1>6 DEF PutRoom
  <2>4. Woke(ready, ready', getters, getters', k)
    BY <1>1, <2>1, <2>2, WakeFacts
  <2>5. \A j : Live(j)' <=>
          \/ j \in submitted \/ (j \in Range(ready) /\ j # id)
          \/ \E i \in Key : j \in Range(getters[i]) \/ j \in Range(putters[i])
    BY <1>1, <2>3, <2>4 DEF Live, Woke
  <2>6. Ended(id)
    BY <1>3, <2>5 DEF Ended, Live, TaskInv
  <2>7. \E r : r.id = id /\ returned' = returned \cup {r}
    BY <1>6 DEF PutRoom
  <2>8. /\ \A j \in Ids' : Live(j)' => ~Replying(j)'
        /\ \A r1, r2 \in returned' : r1.id = r2.id => r1 = r2
    BY <1>1, <1>3, <2>6, <2>7, ReturnedKeeps
  <2>9. \A j \in Key : Range(putters[j]) \cap Range(getters[k]) = {}
    <3>1. \A j \in Key : Range(putters[j]) \subseteq Puts /\ Range(getters[k]) \subseteq Gets
      BY <1>1, <1>2 DEF Range
    <3> QED BY <3>1 DEF Gets
  <2>10. /\ Range(ready') \cap submitted' = {}
         /\ \A j \in Key : /\ Range(getters'[j]) \cap (submitted' \cup Range(ready')) = {}
                           /\ Range(putters'[j]) \cap (submitted' \cup Range(ready')) = {}
    BY <1>1, <2>3, <2>4, <2>9 DEF TaskInv, Woke
  <2>11. TaskInv'
    BY <2>3, <2>4, <2>8, <2>10 DEF TaskInv, Woke
  <2>12. ~PutWaits(id, k)
    BY <1>6 DEF PutRoom, PutWaits
  <2> QED BY <1>3, <2>6, <2>7, <2>11, <2>12 DEF k, Replying
<1>7. CASE PutWaits(id, k)
  <2>1. /\ ready' = Tail(ready) /\ putters' = [putters EXCEPT ![k] = Append(@, id)]
        /\ UNCHANGED <<getters, returned>>
    BY <1>7 DEF PutWaits
  <2>2. Family(Ids, ready, putters) /\ Joins(putters, putters', k, id)
    BY <2>1, Families DEF Joins
  <2>9. Joined(putters, putters', k, id)
    BY <1>1, <1>3, <2>2, JoinFacts
  <2>3. /\ \A j \in Key : IsInjective(putters'[j])
        /\ \A j \in Key : Range(putters'[j]) = IF j = k THEN Range(putters[k]) \cup {id} ELSE Range(putters[j])
    BY <2>9 DEF Joined
  <2>4. Stays
    <3>1. \A x : (\E j \in Key : x \in Range(putters'[j])) <=> (x = id \/ \E j \in Key : x \in Range(putters[j]))
      BY <1>1, <2>3
    <3> QED BY <1>1, <1>3, <1>5, <2>1, <3>1 DEF Stays, Live
  <2>5. \A j \in Ids' : Live(j)' => ~Replying(j)'
    BY <1>4, <2>1, <2>4 DEF Stays, TaskInv, Replying
  <2>6. \A j \in Key : Range(putters'[j]) \cap (submitted' \cup Range(ready')) = {}
    BY <1>1, <1>3, <1>5, <2>1, <2>3 DEF TaskInv
  <2>7. \A i, j \in Key : i # j => Range(putters'[i]) \cap Range(putters'[j]) = {}
    BY <1>3, <2>3 DEF TaskInv
  <2>8. TaskInv'
    BY <1>1, <1>5, <2>1, <2>3, <2>5, <2>6, <2>7 DEF TaskInv
  <2> QED BY <1>3, <1>7, <2>1, <2>4, <2>8 DEF k, Replying
<1>8. CASE PutRaises(id, k)
  <2>1. ready' = Tail(ready) /\ UNCHANGED <<getters, putters>>
    BY <1>8 DEF PutRaises
  <2>2. \E r : r.id = id /\ returned' = returned \cup {r}
    BY <1>8 DEF PutRaises
  <2>3. Ended(id)
    BY <1>1, <1>3, <1>5, <2>1 DEF Ended, Live, TaskInv
  <2>4. /\ \A j \in Ids' : Live(j)' => ~Replying(j)'
        /\ \A r1, r2 \in returned' : r1.id = r2.id => r1 = r2
    BY <1>1, <1>3, <2>2, <2>3, ReturnedKeeps
  <2>5. TaskInv'
    BY <1>1, <1>5, <2>1, <2>4 DEF TaskInv
  <2>6. ~PutWaits(id, k)
    BY <1>8 DEF PutRaises, PutWaits
  <2> QED BY <1>3, <2>2, <2>3, <2>5, <2>6 DEF k, Replying
<1> QED BY <1>1, <1>6, <1>7, <1>8

(* The running task of a get.                                              *)
LEMMA RunningGet ==
    ASSUME TypeInv, TaskInv, NEW id \in Gets, ready # <<>>, Head(ready) = id
    PROVE  /\ id \in Ids /\ id \in Range(ready) /\ Live(id) /\ id \notin submitted
           /\ \A k \in Key : id \notin Range(getters[k]) /\ id \notin Range(putters[k])
           /\ IsInjective(Tail(ready)) /\ Range(Tail(ready)) = Range(ready) \ {id}
           /\ \A j, k \in Key : Range(getters[j]) \cap Range(putters[k]) = {}
<1>1. ready \in Seq(Ids) /\ getters \in [Key -> Seq(Gets)] /\ putters \in [Key -> Seq(Puts)]
  BY DEF TypeInv
<1>2. id \in Range(ready) /\ Live(id) /\ id \notin submitted
  BY <1>1, TailFacts DEF Live, TaskInv
<1>3. /\ IsInjective(Tail(ready)) /\ Range(Tail(ready)) = Range(ready) \ {id}
  BY <1>1, InjectiveTail DEF TaskInv
<1>4. \A j \in Key : Range(putters[j]) \subseteq Puts /\ Range(getters[j]) \subseteq Gets
  BY <1>1 DEF Range
<1>5. \A j, k \in Key : Range(getters[j]) \cap Range(putters[k]) = {}
  BY <1>4 DEF Gets
<1> QED BY <1>2, <1>3, <1>5 DEF TaskInv, Gets

LEMMA TakeTasks ==
    ASSUME TypeInv, TaskInv, NEW id \in Gets, ready # <<>>, Head(ready) = id,
           UNCHANGED <<setup, submitted, getters>>,
           NEW k \in Key, NEW n \in Nat, TakeItems(k, n),
           UNCHANGED returned \/ \E r : r.id = id /\ returned' = returned \cup {r}
    PROVE  TaskInv' /\ Ended(id)
<1>1. /\ id \in Ids /\ id \in Range(ready) /\ Live(id) /\ id \notin submitted
      /\ \A i \in Key : id \notin Range(getters[i]) /\ id \notin Range(putters[i])
      /\ \A i, j \in Key : Range(getters[i]) \cap Range(putters[j]) = {}
  BY RunningGet
<1>2. Wakes(ready, ready', putters, putters', k, n)
  BY DEF TakeItems, Wakes
<1>3. Family(Ids, ready, putters)
  BY Families
<1>4. Woke(ready, ready', putters, putters', k)
  BY <1>2, <1>3, WakeFacts
<1>5. \A j : Live(j)' <=>
        \/ j \in submitted \/ (j \in Range(ready) /\ j # id)
        \/ \E i \in Key : j \in Range(getters[i]) \/ j \in Range(putters[i])
  BY <1>4 DEF Live, Woke
<1>6. Ended(id)
  BY <1>1, <1>5 DEF Ended, Live
<1>7. /\ \A j \in Ids' : Live(j)' => ~Replying(j)'
      /\ \A r1, r2 \in returned' : r1.id = r2.id => r1 = r2
  BY <1>1, <1>6, ReturnedKeeps
<1>8. /\ Range(ready') \cap submitted' = {}
      /\ \A j \in Key : /\ Range(getters'[j]) \cap (submitted' \cup Range(ready')) = {}
                        /\ Range(putters'[j]) \cap (submitted' \cup Range(ready')) = {}
  BY <1>1, <1>4 DEF TaskInv, Woke
<1>9. \A i, j \in Key : i # j => Range(putters'[i]) \cap Range(putters'[j]) = {}
  BY <1>4 DEF TaskInv, Woke
<1> QED BY <1>4, <1>6, <1>7, <1>8, <1>9 DEF TaskInv, Woke

LEMMA GetWaitsTasks ==
    ASSUME TypeInv, TaskInv, NEW id \in Gets, ready # <<>>, Head(ready) = id,
           UNCHANGED <<setup, submitted>>, NEW k \in Key, GetWaits(id, k)
    PROVE  TaskInv' /\ Stays
<1>1. /\ id \in Ids /\ id \in Range(ready) /\ Live(id) /\ id \notin submitted
      /\ IsInjective(Tail(ready)) /\ Range(Tail(ready)) = Range(ready) \ {id}
      /\ \A i, j \in Key : Range(getters[i]) \cap Range(putters[j]) = {}
      /\ \A i \in Key : id \notin Range(getters[i])
  BY RunningGet
<1>2. ready' = Tail(ready) /\ UNCHANGED <<putters, returned>>
      /\ Joins(getters, getters', k, id)
  BY DEF GetWaits, Joins
<1>3. Family(Ids, ready, getters)
  BY Families
<1>4. Joined(getters, getters', k, id)
  BY <1>1, <1>2, <1>3, JoinFacts
<1>5. Stays
  <2>1. \A x : (\E j \in Key : x \in Range(getters'[j])) <=> (x = id \/ \E j \in Key : x \in Range(getters[j]))
    BY <1>4 DEF Joined
  <2> QED BY <1>1, <1>2, <2>1 DEF Stays, Live
<1>6. \A j \in Ids' : Live(j)' => ~Replying(j)'
  <2>1. Ids' = Ids
    BY SetupFacts
  <2> QED BY <1>2, <1>5, <2>1 DEF Stays, TaskInv, Replying
<1>7. \A j \in Key : Range(getters'[j]) \cap (submitted' \cup Range(ready')) = {}
  BY <1>1, <1>2, <1>4 DEF TaskInv, Joined
<1>8. \A i, j \in Key : i # j => Range(getters'[i]) \cap Range(getters'[j]) = {}
  BY <1>1, <1>4 DEF TaskInv, Joined
<1>9. \A j \in Key : IsInjective(getters'[j])
  BY <1>4 DEF Joined
<1> QED BY <1>1, <1>2, <1>5, <1>6, <1>7, <1>8, <1>9 DEF TaskInv

LEMMA GetFailsTasks ==
    ASSUME TypeInv, TaskInv, NEW id \in Gets, ready # <<>>, Head(ready) = id,
           UNCHANGED <<setup, submitted, getters, putters>>, ready' = Tail(ready),
           UNCHANGED returned \/ \E r : r.id = id /\ returned' = returned \cup {r}
    PROVE  TaskInv' /\ Ended(id)
<1>1. /\ id \in Ids /\ Live(id) /\ id \notin submitted
      /\ IsInjective(Tail(ready)) /\ Range(Tail(ready)) = Range(ready) \ {id}
      /\ \A i \in Key : id \notin Range(getters[i]) /\ id \notin Range(putters[i])
  BY RunningGet
<1>2. Ended(id)
  BY <1>1 DEF Ended, Live
<1>3. /\ \A j \in Ids' : Live(j)' => ~Replying(j)'
      /\ \A r1, r2 \in returned' : r1.id = r2.id => r1 = r2
  BY <1>1, <1>2, ReturnedKeeps
<1> QED BY <1>1, <1>2, <1>3 DEF TaskInv

LEMMA BatchWaitsTasks ==
    ASSUME TypeInv, TaskInv, NEW id \in Gets, ready # <<>>, Head(ready) = id,
           UNCHANGED <<setup, submitted>>,
           NEW k \in Key, NEW n \in Nat, TakeItems(k, n), BatchWaits(id, k)
    PROVE  TaskInv' /\ Stays
<1>1. /\ id \in Ids /\ id \in Range(ready) /\ Live(id) /\ id \notin submitted
      /\ \A i \in Key : id \notin Range(getters[i]) /\ id \notin Range(putters[i])
      /\ \A i, j \in Key : Range(getters[i]) \cap Range(putters[j]) = {}
  BY RunningGet
<1>2. /\ Wakes(ready, ready', putters, putters', k, n)
      /\ Joins(getters, getters', k, id) /\ UNCHANGED returned
  BY DEF TakeItems, Wakes, BatchWaits, Joins
<1>3. Family(Ids, ready, putters) /\ Family(Ids, ready, getters)
  BY Families
<1>4. Woke(ready, ready', putters, putters', k)
  BY <1>2, <1>3, WakeFacts
<1>5. Joined(getters, getters', k, id)
  BY <1>1, <1>2, <1>3, JoinFacts
<1>6. Stays
  <2>1. \A x : (\E j \in Key : x \in Range(getters'[j])) <=> (x = id \/ \E j \in Key : x \in Range(getters[j]))
    BY <1>5 DEF Joined
  <2>2. \A x : (x \in Range(ready') \/ \E j \in Key : x \in Range(putters'[j]))
                 <=> ((x \in Range(ready) /\ x # id) \/ \E j \in Key : x \in Range(putters[j]))
    BY <1>4 DEF Woke
  <2>3. submitted' = submitted
    OBVIOUS
  <2>4. ASSUME NEW x PROVE Live(x)' <=> Live(x)
    <3>1. Live(x)' <=> \/ x \in submitted
                       \/ x \in Range(ready') \/ \E j \in Key : x \in Range(putters'[j])
                       \/ \E j \in Key : x \in Range(getters'[j])
      BY <2>3 DEF Live
    <3>2. Live(x) <=> \/ x \in submitted
                      \/ x \in Range(ready) \/ \E j \in Key : x \in Range(putters[j])
                      \/ \E j \in Key : x \in Range(getters[j])
      BY DEF Live
    <3> QED BY <1>1, <2>1, <2>2, <3>1, <3>2
  <2> QED BY <2>4 DEF Stays
<1>7. \A j \in Ids' : Live(j)' => ~Replying(j)'
  <2>1. Ids' = Ids
    BY SetupFacts
  <2> QED BY <1>2, <1>6, <2>1 DEF Stays, TaskInv, Replying
<1>8. /\ Range(ready') \cap submitted' = {} /\ IsInjective(ready')
      /\ \A j \in Key : Range(putters'[j]) \cap (submitted' \cup Range(ready')) = {} /\ IsInjective(putters'[j])
      /\ \A i, j \in Key : i # j => Range(putters'[i]) \cap Range(putters'[j]) = {}
  BY <1>1, <1>4 DEF TaskInv, Woke
<1>9. \A j \in Key : Range(getters'[j]) \cap (submitted' \cup Range(ready')) = {} /\ IsInjective(getters'[j])
  <2>1. Range(ready') \subseteq (Range(ready) \ {id}) \cup Range(putters[k])
    BY <1>4 DEF Woke
  <2> TAKE j \in Key
  <2>2. Range(getters'[j]) \subseteq Range(getters[j]) \cup {id} /\ IsInjective(getters'[j])
    BY <1>5 DEF Joined
  <2>3. Range(getters[j]) \cap (submitted \cup Range(ready)) = {}
    BY DEF TaskInv
  <2> QED BY <1>1, <2>1, <2>2, <2>3
<1>10. \A i, j \in Key : i # j => Range(getters'[i]) \cap Range(getters'[j]) = {}
  BY <1>1, <1>5 DEF TaskInv, Joined
<1> QED BY <1>2, <1>6, <1>7, <1>8, <1>9, <1>10 DEF TaskInv

-----------------------------------------------------------------------------
(* The invariant that needs no assumption about the programs.              *)

(* A put that runs or is being answered has not returned.                  *)
PendingInv == \A id \in Puts : Live(id) \/ Replying(id) => status[id] = "pending"

(* The futures of a key are those of puts not returned, and only the first *)
(* of them has a task.                                                     *)
ChainInv ==
  /\ \A c \in Client : \A k \in Key :
       /\ IsInjective(chain[c][k])
       /\ \A id \in Range(chain[c][k]) :
            /\ id[1] = c /\ InWorker(id) /\ Call(id).key = k /\ status[id] = "pending"
  /\ \A id \in Puts : InWorker(id) /\ (Live(id) \/ Replying(id)) =>
       /\ chain[id[1]][Call(id).key] # <<>>
       /\ Head(chain[id[1]][Call(id).key]) = id

(* Tasks wait for their own key, putters with an item of it.               *)
WaitInv ==
  \A k \in Key :
    /\ \A id \in Range(getters[k]) : Call(id).key = k /\ Call(id).op # "get_nowait"
    /\ \A id \in Range(putters[k]) : Call(id).op = "put"

(* Only a task that has run and has not ended holds anything.              *)
HeldInv ==
  \A id \in Ids : held[id] # <<>> =>
    /\ Live(id) /\ id \notin submitted
    /\ Call(id).op \in {"put", "get_batch"}
    /\ id \in Puts => Len(held[id]) = 1

(* A reply is that of a task of the client that has ended, and the only one.*)
CommInv ==
  /\ \A c \in Client :
       /\ \A n \in 1..Len(inbox[c]) : \A q \in Gets : inbox[c][n].query = q =>
            q[1] = c /\ ~Live(q) /\ Issued(q)
       /\ \A m, n \in 1..Len(inbox[c]) :
            inbox[c][m].query = inbox[c][n].query /\ inbox[c][m].query # <<>> => m = n
       /\ \A n \in 1..Len(recvs[c]) : \A g \in Gets : recvs[c][n] = g => g[1] = c /\ Issued(g)
       /\ c \in Driver => recvs[c] = <<>> /\ inbox[c] = <<>>
  /\ \A r \in returned : InWorker(r.id) => r.id \in Puts

GoodData(id, data) ==
  /\ \A n \in 1..Len(data) : data[n].key = Call(id).key
  /\ Call(id).op = "get_batch" => Weight(data) <= Call(id).weight

(* What is in a queue, a batch or a reply is of the right key, and a batch *)
(* is not too heavy.                                                       *)
DataInv ==
  /\ \A k \in Key : \A n \in 1..Len(queue[k]) : queue[k][n].key = k
  /\ \A id \in Gets : GoodData(id, held[id])
  /\ \A r \in returned : IF r.id \in Gets THEN GoodData(r.id, r.data) ELSE r.data = <<>>
  /\ \A c \in Client : \A n \in 1..Len(inbox[c]) :
       /\ inbox[c][n].query = <<>> => inbox[c][n].data = <<>>
       /\ \A q \in Gets : inbox[c][n].query = q => GoodData(q, inbox[c][n].data)

BaseInv ==
  TypeInv /\ TaskInv /\ IssuedInv /\ PendingInv /\ ChainInv /\ WaitInv /\ HeldInv /\ CommInv /\ DataInv

(* What each part depends on.                                              *)
NoNewTask == \A j \in Ids : Live(j)' \/ Replying(j)' => Live(j) \/ Replying(j)

LEMMA KeepIssued ==
    ASSUME IssuedInv, UNCHANGED <<setup, issued, status>>, NoNewTask PROVE IssuedInv'
  BY SetupFacts DEF IssuedInv, Issued, NoNewTask

LEMMA KeepPending ==
    ASSUME PendingInv, UNCHANGED <<setup, status>>, NoNewTask PROVE PendingInv'
<1>1. \A j \in Puts : j \in Ids
  BY DEF Puts
<1> QED BY <1>1, SetupFacts DEF PendingInv, NoNewTask

LEMMA KeepChain ==
    ASSUME ChainInv, UNCHANGED <<setup, status, chain>>, NoNewTask PROVE ChainInv'
<1>1. \A j \in Puts : j \in Ids
  BY DEF Puts
<1>2. \A j : Call(j)' = Call(j) /\ InWorker(j)' = InWorker(j)
  BY DEF Call, Program, InWorker
<1>3. \A c \in Client : \A k \in Key :
        /\ IsInjective(chain'[c][k])
        /\ \A id \in Range(chain'[c][k]) :
             id[1] = c /\ InWorker(id)' /\ Call(id)'.key = k /\ status'[id] = "pending"
  BY <1>2 DEF ChainInv
<1>4. ASSUME NEW id \in Puts, InWorker(id), Live(id)' \/ Replying(id)'
      PROVE  /\ chain'[id[1]][Call(id)'.key] # <<>>
             /\ Head(chain'[id[1]][Call(id)'.key]) = id
  BY <1>1, <1>2, <1>4 DEF ChainInv, NoNewTask
<1> QED BY <1>2, <1>3, <1>4, SetupFacts DEF ChainInv

LEMMA KeepWait ==
    ASSUME WaitInv, UNCHANGED <<setup, getters, putters>> PROVE WaitInv'
  BY DEF WaitInv, Call, Program

LEMMA KeepHeld ==
    ASSUME HeldInv, UNCHANGED <<setup, held>>,
           \A j \in Ids : Live(j) /\ j \notin submitted => Live(j)' /\ j \notin submitted'
    PROVE  HeldInv'
  BY SetupFacts DEF HeldInv, Call, Program

LEMMA KeepComm ==
    ASSUME TypeInv, CommInv, UNCHANGED <<setup, recvs, inbox>>,
           \A j \in Ids : Issued(j) => Issued(j)',
           \A j \in Ids : Issued(j) /\ Live(j)' => Live(j),
           \A r \in returned' : r \in returned \/ (InWorker(r.id) => r.id \in Puts)
    PROVE  CommInv'
<1>1. \A j \in Gets : j \in Ids
  BY DEF Gets
<1> QED BY <1>1, SetupFacts DEF CommInv, InWorker

LEMMA KeepData ==
    ASSUME DataInv, UNCHANGED <<setup, queue, held, inbox>>, returned' \subseteq returned PROVE DataInv'
<1>1. \A j : Call(j)' = Call(j)
  BY DEF Call, Program
<1>2. \A k \in Key : \A n \in 1..Len(queue'[k]) : queue'[k][n].key = k
  BY DEF DataInv
<1>3. \A id \in Gets : GoodData(id, held[id])'
  BY <1>1 DEF DataInv, GoodData
<1>4. Gets' = Gets
  BY SetupFacts
<1>5. (\A r \in returned : IF r.id \in Gets THEN GoodData(r.id, r.data) ELSE r.data = <<>>)'
  BY <1>1, <1>4 DEF DataInv, GoodData
<1>6. (\A c \in Client : \A n \in 1..Len(inbox[c]) :
         /\ inbox[c][n].query = <<>> => inbox[c][n].data = <<>>
         /\ \A q \in Gets : inbox[c][n].query = q => GoodData(q, inbox[c][n].data))'
  BY <1>1, <1>4 DEF DataInv, GoodData
<1> QED BY <1>2, <1>3, <1>4, <1>5, <1>6 DEF DataInv

LEMMA AppendHead ==
    ASSUME NEW S, NEW s \in Seq(S), NEW e \in S
    PROVE  /\ Append(s, e) # <<>>
           /\ s # <<>> => Head(Append(s, e)) = Head(s)
           /\ s = <<>> => Head(Append(s, e)) = e
<1>1. Len(Append(s, e)) = Len(s) + 1 /\ Len(s) \in Nat /\ Append(s, e) \in Seq(S)
  OBVIOUS
<1>2. Append(s, e) # <<>>
  BY <1>1
<1>3. s # <<>> => 1 \in 1..Len(s) /\ Head(s) = s[1]
  OBVIOUS
<1>4. Head(Append(s, e)) = Append(s, e)[1]
  BY <1>1, <1>2
<1>5. s # <<>> => Append(s, e)[1] = s[1]
  BY <1>3
<1>6. s = <<>> => Append(s, e)[1] = e
  OBVIOUS
<1> QED BY <1>2, <1>3, <1>4, <1>5, <1>6

(* Calls.                                                                  *)
LEMMA WorkerPutStep ==
    ASSUME BaseInv, NEW id \in Ids, WorkerPut(id)
    PROVE  BaseInv'
<1> DEFINE c == id[1]
           k == Call(id).key
           new == Executes(chain[c][k], id)
<1> USE DEF BaseInv
<1>1. c \in Client /\ k \in Key /\ id \in Puts /\ InWorker(id) /\ id[2] \in Nat
  BY CallFacts DEF TypeInv, WorkerPut
<1>2. /\ AtCall(id) /\ submitted' = submitted \cup new
      /\ chain' = [chain EXCEPT ![c][k] = Append(@, id)]
      /\ UNCHANGED <<setup, recvs, returned, inbox, ready, queue, getters, putters, held>>
  BY DEF WorkerPut, worker
<1>3. /\ ~Live(id) /\ ~Replying(id) /\ ~Issued(id)
      /\ \A j \in Ids : Issued(j)' <=> (Issued(j) \/ j = id)
  BY <1>2, NewCall DEF Issued
<1>4. status' = [status EXCEPT ![id] = "pending"] /\ status[id] = "new"
  BY <1>2, <1>3 DEF AtCall, IssuedInv
<1>5. new \in SUBSET Ids /\ new \subseteq {id} /\ (new # {} => chain[c][k] = <<>>)
  BY DEF Executes
<1> HIDE DEF new
<1>6. TaskInv' /\ \A j : Live(j)' <=> (Live(j) \/ j \in new)
  BY <1>2, <1>3, <1>5, SubmitTasks
<1>7. \A j : Replying(j)' <=> Replying(j)
  BY <1>2 DEF Replying
<1>8. Ids' = Ids /\ Puts' = Puts /\ Gets' = Gets
  BY <1>2, SetupFacts
<1>9. \A j \in Puts : j \in Ids
  BY DEF Puts
<1>10. TypeInv'
  BY WorkerPutType
<1>11. IssuedInv'
  BY <1>3, <1>4, <1>5, <1>6, <1>7, <1>8 DEF IssuedInv, TypeInv
<1>12. PendingInv'
  BY <1>4, <1>5, <1>6, <1>7, <1>8, <1>9 DEF PendingInv, TypeInv
<1>13. ChainInv'
  <2>1. \A j : Call(j)' = Call(j) /\ InWorker(j)' = InWorker(j)
    BY <1>2 DEF Call, Program, InWorker
  <2>2. chain[c][k] \in Seq(Puts) /\ chain[c] \in [Key -> Seq(Puts)]
    BY <1>1 DEF TypeInv
  <2>3. id \notin Range(chain[c][k])
    BY <1>1, <1>4 DEF ChainInv
  <2>4. /\ Range(Append(chain[c][k], id)) = Range(chain[c][k]) \cup {id}
        /\ IsInjective(Append(chain[c][k], id))
        /\ Append(chain[c][k], id) # <<>>
        /\ chain[c][k] # <<>> => Head(Append(chain[c][k], id)) = Head(chain[c][k])
        /\ chain[c][k] = <<>> => Head(Append(chain[c][k], id)) = id
    <3>1. /\ Range(Append(chain[c][k], id)) = Range(chain[c][k]) \cup {id}
          /\ IsInjective(Append(chain[c][k], id))
      BY <1>1, <2>2, <2>3, InjectiveAppend DEF ChainInv
    <3>2. /\ Append(chain[c][k], id) # <<>>
          /\ chain[c][k] # <<>> => Head(Append(chain[c][k], id)) = Head(chain[c][k])
          /\ chain[c][k] = <<>> => Head(Append(chain[c][k], id)) = id
      BY <1>1, <2>2, AppendHead
    <3> QED BY <3>1, <3>2
  <2> DEFINE f == Append(chain[c][k], id)
  <2>5. \A d \in Client, l \in Key :
          chain'[d][l] = IF d = c /\ l = k THEN f ELSE chain[d][l]
    BY <1>1, <1>2, <2>2 DEF TypeInv
  <2> HIDE DEF f, k, c
  <2>6. ASSUME NEW d \in Client, NEW l \in Key
        PROVE  /\ IsInjective(chain'[d][l])
               /\ \A j \in Range(chain'[d][l]) :
                    j[1] = d /\ InWorker(j) /\ Call(j).key = l /\ status'[j] = "pending"
    <3>1. \A j \in Range(chain[d][l]) : j[1] = d /\ InWorker(j) /\ Call(j).key = l /\ status[j] = "pending"
      BY DEF ChainInv
    <3>2. \A j : status[j] = "pending" => status'[j] = "pending"
      BY <1>4 DEF TypeInv
    <3>3. status'[id] = "pending"
      BY <1>4 DEF TypeInv
    <3>4. CASE d = c /\ l = k
      BY <1>1, <2>4, <2>5, <3>1, <3>2, <3>3, <3>4 DEF f, c, k
    <3>5. CASE ~(d = c /\ l = k)
      BY <2>5, <3>1, <3>2, <3>5 DEF ChainInv
    <3> QED BY <3>4, <3>5
  <2>7. ASSUME NEW j \in Puts, InWorker(j), Live(j)' \/ Replying(j)'
        PROVE  /\ chain'[j[1]][Call(j).key] # <<>>
               /\ Head(chain'[j[1]][Call(j).key]) = j
    <3>1. j[1] \in Client /\ Call(j).key \in Key
      BY <1>9, CallFacts DEF TypeInv
    <3>2. CASE j \in new
      <4>1. j = id /\ j[1] = c /\ Call(j).key = k
        BY <1>5, <3>2 DEF c, k
      <4>2. f # <<>> /\ Head(f) = id
        BY <1>5, <2>4, <3>2 DEF f
      <4>3. chain'[c][k] = f
        BY <1>1, <2>5
      <4> QED BY <4>1, <4>2, <4>3
    <3>3. CASE j \notin new
      <4>1. /\ chain[j[1]][Call(j).key] # <<>>
            /\ Head(chain[j[1]][Call(j).key]) = j
        BY <1>6, <1>7, <2>7, <3>3 DEF ChainInv
      <4>2. chain'[j[1]][Call(j).key] =
              IF j[1] = c /\ Call(j).key = k THEN f ELSE chain[j[1]][Call(j).key]
        BY <2>5, <3>1
      <4>3. CASE j[1] = c /\ Call(j).key = k
        <5>1. chain[c][k] # <<>> /\ Head(chain[c][k]) = j
          BY <4>1, <4>3
        <5>2. f # <<>> /\ Head(f) = Head(chain[c][k])
          BY <2>4, <5>1 DEF f
        <5> QED BY <4>2, <4>3, <5>1, <5>2
      <4>4. CASE ~(j[1] = c /\ Call(j).key = k)
        BY <4>1, <4>2, <4>4
      <4> QED BY <4>3, <4>4
    <3> QED BY <3>2, <3>3
  <2> QED BY <1>8, <2>1, <2>6, <2>7 DEF ChainInv
<1>14. WaitInv'
  BY <1>2, KeepWait
<1>15. HeldInv'
  <2>1. \A j \in Ids : Live(j) /\ j \notin submitted => Live(j)' /\ j \notin submitted'
    BY <1>2, <1>3, <1>5, <1>6
  <2> QED BY <1>2, <2>1, KeepHeld
<1>16. CommInv'
  BY <1>2, <1>3, <1>5, <1>6, KeepComm
<1>17. DataInv'
  BY <1>2, KeepData
<1> QED BY <1>6, <1>10, <1>11, <1>12, <1>13, <1>14, <1>15, <1>16, <1>17

(* A call that is submitted at once and is no worker's put.                *)
LEMMA CallStep ==
    ASSUME BaseInv, NEW id \in Ids, AtCall(id), id \in Gets \/ ~InWorker(id),
           submitted' = submitted \cup {id},
           UNCHANGED <<setup, chain, returned, inbox, ready, queue, getters, putters, held>>
    PROVE  /\ TaskInv' /\ IssuedInv' /\ PendingInv' /\ ChainInv' /\ WaitInv' /\ HeldInv' /\ DataInv'
           /\ \A j \in Ids : Issued(j)' <=> (Issued(j) \/ j = id)
           /\ \A j : Live(j)' <=> (Live(j) \/ j = id)
<1> USE DEF BaseInv
<1>1. /\ ~Live(id) /\ ~Replying(id) /\ ~Issued(id)
      /\ \A j \in Ids : Issued(j)' <=> (Issued(j) \/ j = id)
  BY NewCall DEF Issued
<1>2. status' = [status EXCEPT ![id] = "pending"] /\ status[id] = "new"
  BY <1>1 DEF AtCall, IssuedInv
<1>3. TaskInv' /\ \A j : Live(j)' <=> (Live(j) \/ j \in {id})
  <2> DEFINE new == {id}
  <2>1. new \in SUBSET Ids /\ (\A j \in new : ~Live(j) /\ ~Replying(j)) /\ submitted' = submitted \cup new
    BY <1>1
  <2> HIDE DEF new
  <2>2. TaskInv' /\ \A j : Live(j)' <=> (Live(j) \/ j \in new)
    BY <2>1, SubmitTasks
  <2> QED BY <2>2 DEF new
<1>4. \A j : Replying(j)' <=> Replying(j)
  BY DEF Replying
<1>5. Ids' = Ids /\ Puts' = Puts /\ Gets' = Gets
  BY SetupFacts
<1>6. \A j \in Puts : j \in Ids
  BY DEF Puts
<1>7. IssuedInv'
  BY <1>1, <1>2, <1>3, <1>4, <1>5 DEF IssuedInv, TypeInv
<1>8. PendingInv'
  BY <1>2, <1>3, <1>4, <1>5, <1>6 DEF PendingInv, TypeInv
<1>9. ChainInv'
  <2>1. \A j : Call(j)' = Call(j) /\ InWorker(j)' = InWorker(j)
    BY DEF Call, Program, InWorker
  <2>2. \A j : status[j] = "pending" => status'[j] = "pending"
    BY <1>2 DEF TypeInv
  <2>3. \A c \in Client : \A k \in Key :
          /\ IsInjective(chain'[c][k])
          /\ \A j \in Range(chain'[c][k]) :
               j[1] = c /\ InWorker(j)' /\ Call(j)'.key = k /\ status'[j] = "pending"
    BY <2>1, <2>2 DEF ChainInv
  <2>4. ASSUME NEW j \in Puts, InWorker(j), Live(j)' \/ Replying(j)'
        PROVE  /\ chain'[j[1]][Call(j)'.key] # <<>>
               /\ Head(chain'[j[1]][Call(j)'.key]) = j
    <3>1. j # id
      BY <2>4 DEF Gets
    <3> QED BY <1>3, <1>4, <2>1, <2>4, <3>1 DEF ChainInv
  <2> QED BY <1>5, <2>1, <2>3, <2>4 DEF ChainInv
<1>10. WaitInv'
  BY KeepWait
<1>11. HeldInv'
  <2>1. \A j \in Ids : Live(j) /\ j \notin submitted => Live(j)' /\ j \notin submitted'
    BY <1>1, <1>3
  <2> QED BY <2>1, KeepHeld
<1>12. DataInv'
  BY KeepData
<1> QED BY <1>1, <1>3, <1>7, <1>8, <1>9, <1>10, <1>11, <1>12

LEMMA WorkerGetStep ==
    ASSUME BaseInv, NEW id \in Ids, WorkerGet(id)
    PROVE  BaseInv'
<1> DEFINE c == id[1]
<1> USE DEF BaseInv
<1>1. c \in Client /\ id \in Gets /\ InWorker(id)
  BY CallFacts DEF TypeInv, WorkerGet
<1>2. /\ AtCall(id) /\ submitted' = submitted \cup {id}
      /\ recvs' = [recvs EXCEPT ![c] = Append(@, id)]
      /\ UNCHANGED <<setup, chain, returned, inbox, ready, queue, getters, putters, held>>
  BY DEF WorkerGet, worker
<1>3. /\ TaskInv' /\ IssuedInv' /\ PendingInv' /\ ChainInv' /\ WaitInv' /\ HeldInv' /\ DataInv'
      /\ \A j \in Ids : Issued(j)' <=> (Issued(j) \/ j = id)
      /\ \A j : Live(j)' <=> (Live(j) \/ j = id)
  BY <1>1, <1>2, CallStep
<1>4. TypeInv'
  BY WorkerGetType
<1>5. ~Issued(id)
  BY <1>2, NewCall
<1>6. CommInv'
  <2>1. Gets' = Gets /\ Puts' = Puts /\ \A j \in Gets : j \in Ids
    BY <1>2, SetupFacts DEF Gets
  <2>2. recvs[c] \in Seq(Gets) /\ Len(recvs[c]) \in Nat
    BY <1>1 DEF TypeInv
  <2>3. ASSUME NEW d \in Client, NEW n \in 1..Len(recvs'[d]), NEW g \in Gets, recvs'[d][n] = g
        PROVE  g[1] = d /\ Issued(g)'
    <3>1. CASE d = c
      <4>1. recvs'[d] = Append(recvs[c], id)
        BY <1>1, <1>2, <3>1 DEF TypeInv
      <4>2. CASE n = Len(recvs[c]) + 1
        <5>1. g = id
          BY <1>1, <2>2, <2>3, <4>1, <4>2
        <5> QED BY <1>3, <3>1, <5>1
      <4>3. CASE n # Len(recvs[c]) + 1
        <5>1. n \in 1..Len(recvs[c]) /\ recvs[c][n] = g
          BY <1>1, <2>2, <2>3, <4>1, <4>3
        <5> QED BY <1>1, <1>3, <2>1, <3>1, <5>1 DEF CommInv
      <4> QED BY <4>2, <4>3
    <3>2. CASE d # c
      <4>1. recvs'[d] = recvs[d]
        BY <1>1, <1>2, <3>2 DEF TypeInv
      <4> QED BY <1>3, <2>1, <2>3, <4>1 DEF CommInv
    <3> QED BY <3>1, <3>2
  <2>4. \A d \in Client : d \in Driver => recvs'[d] = <<>> /\ inbox'[d] = <<>>
    BY <1>1, <1>2 DEF CommInv, InWorker, TypeInv
  <2>5. ASSUME NEW d \in Client, NEW n \in 1..Len(inbox'[d]), NEW q \in Gets, inbox'[d][n].query = q
        PROVE  q[1] = d /\ ~Live(q)' /\ Issued(q)'
    BY <1>2, <1>3, <1>5, <2>1, <2>5 DEF CommInv
  <2> QED BY <1>2, <2>1, <2>3, <2>4, <2>5 DEF CommInv, InWorker
<1> QED BY <1>3, <1>4, <1>6

LEMMA DriverCallStep ==
    ASSUME BaseInv, NEW id \in Ids, DriverCall(id)
    PROVE  BaseInv'
<1> USE DEF BaseInv
<1>1. /\ AtCall(id) /\ submitted' = submitted \cup {id} /\ ~InWorker(id)
      /\ UNCHANGED <<setup, chain, recvs, returned, inbox, ready, queue, getters, putters, held>>
  BY DEF DriverCall, worker
<1>2. /\ TaskInv' /\ IssuedInv' /\ PendingInv' /\ ChainInv' /\ WaitInv' /\ HeldInv' /\ DataInv'
      /\ \A j \in Ids : Issued(j)' <=> (Issued(j) \/ j = id)
      /\ \A j : Live(j)' <=> (Live(j) \/ j = id)
  BY <1>1, CallStep
<1>3. ~Issued(id)
  BY <1>1, NewCall
<1>4. CommInv'
  BY <1>1, <1>2, <1>3, KeepComm
<1>5. TypeInv'
  BY DriverCallType
<1> QED BY <1>2, <1>4, <1>5

LEMMA StartStep ==
    ASSUME BaseInv, NEW id \in Ids, Start(id)
    PROVE  BaseInv'
<1> USE DEF BaseInv
<1>1. /\ UNCHANGED <<setup, issued, status, chain, recvs, returned, inbox, queue, getters, putters, held>>
      /\ submitted' = submitted \ {id} /\ id \in submitted
  BY DEF Start, client
<1>2. TaskInv' /\ Stays
  BY StartTasks
<1>3. NoNewTask
  BY <1>1, <1>2 DEF NoNewTask, Stays, Replying
<1>4. TypeInv'
  BY StartType
<1>5. IssuedInv' /\ PendingInv' /\ ChainInv' /\ WaitInv'
  BY <1>1, <1>3, KeepIssued, KeepPending, KeepChain, KeepWait
<1>6. HeldInv'
  <2>1. \A j \in Ids : Live(j) /\ j \notin submitted => Live(j)' /\ j \notin submitted'
    BY <1>1, <1>2 DEF Stays
  <2> QED BY <1>1, <2>1, KeepHeld
<1>7. CommInv'
  <2>1. \A j \in Ids : Issued(j) => Issued(j)'
    BY <1>1 DEF Issued
  <2> QED BY <1>1, <1>2, <2>1, KeepComm DEF Stays
<1>8. DataInv'
  BY <1>1, KeepData
<1> QED BY <1>2, <1>4, <1>5, <1>6, <1>7, <1>8

LEMMA PutCallbackStep ==
    ASSUME BaseInv, NEW r \in returned, PutCallback(r)
    PROVE  BaseInv'
<1> DEFINE c == r.id[1]
           k == Call(r.id).key
           f == chain[c][k]
           new == Chained(f)
<1> USE DEF BaseInv
<1>1. /\ r.id \in Puts /\ InWorker(r.id) /\ c \in Client /\ k \in Key /\ r.id \in Ids
  <2>1. r.id \in Ids /\ InWorker(r.id)
    BY DEF TypeInv, Results, PutCallback
  <2> QED BY <2>1, CallFacts DEF TypeInv, CommInv
<1>2. /\ returned' = returned \ {r}
      /\ UNCHANGED <<setup, issued, recvs, inbox, ready, queue, getters, putters, held>>
  BY DEF PutCallback, worker
<1>3. \/ UNCHANGED <<status, chain, submitted>>
      \/ /\ status' = [status EXCEPT ![r.id] = "done"]
         /\ chain' = [chain EXCEPT ![c][k] = RemoveFirst(@, r.id)]
         /\ submitted' = submitted \cup new
  BY DEF PutCallback
<1>4. Replying(r.id) /\ ~Live(r.id)
  BY <1>1 DEF TaskInv, Replying
<1>5. f \in Seq(Puts) /\ f # <<>> /\ Head(f) = r.id /\ IsInjective(f) /\ chain[c] \in [Key -> Seq(Puts)]
  <2>1. chain[c] \in [Key -> Seq(Puts)]
    BY <1>1 DEF TypeInv
  <2>2. f \in Seq(Puts)
    BY <1>1, <2>1
  <2>3. f # <<>> /\ Head(f) = r.id
    BY <1>1, <1>4 DEF ChainInv
  <2>4. IsInjective(f)
    BY <1>1 DEF ChainInv
  <2> QED BY <2>1, <2>2, <2>3, <2>4
<1>6. RemoveFirst(f, r.id) = Tail(f)
  BY <1>5, RemoveHead
<1>7. IsInjective(Tail(f)) /\ Range(Tail(f)) = Range(f) \ {r.id} /\ r.id \in Range(f) /\ Tail(f) \in Seq(Puts)
  BY <1>5, InjectiveTail, TailFacts
<1>8. ASSUME NEW j \in new
      PROVE  /\ j \in Puts /\ j \in Range(f) /\ j # r.id /\ j[1] = c /\ Call(j).key = k
             /\ Tail(f) # <<>> /\ Head(Tail(f)) = j
  <2>1. Len(f) > 1 /\ j = f[2] /\ Len(f) \in Nat
    BY <1>5 DEF Chained
  <2>2. 1 \in DOMAIN f /\ 2 \in DOMAIN f /\ f[2] \in Puts
    BY <1>5, <2>1
  <2>3. j # r.id
    BY <1>5, <2>1, <2>2 DEF IsInjective
  <2>4. j \in Range(f)
    BY <2>1, <2>2 DEF Range
  <2>5. /\ Len(Tail(f)) = Len(f) - 1 /\ Tail(f) \in Seq(Puts)
        /\ \A i \in 1..(Len(f) - 1) : Tail(f)[i] = f[i + 1]
    BY <1>5, TailFacts
  <2> HIDE DEF f
  <2>6. Tail(f) # <<>> /\ Tail(f)[1] = f[2]
    <3>1. 1 \in 1..(Len(f) - 1)
      BY <2>1
    <3>2. Tail(f)[1] = f[1 + 1]
      BY <2>5, <3>1
    <3>3. Len(Tail(f)) > 0
      BY <2>1, <2>5
    <3>4. \A t \in Seq(Puts) : Len(t) > 0 => t # <<>>
      OBVIOUS
    <3>5. Tail(f) # <<>>
      BY <2>5, <3>3, <3>4
    <3> QED BY <3>2, <3>5
  <2>7. Head(Tail(f)) = j
    BY <2>1, <2>5, <2>6
  <2>8. \A i \in Range(f) : i[1] = c /\ Call(i).key = k
    BY <1>1 DEF ChainInv, f
  <2> QED BY <2>1, <2>2, <2>3, <2>4, <2>6, <2>7, <2>8
<1>9. Ids' = Ids /\ Puts' = Puts /\ Gets' = Gets /\ \A j \in Puts : j \in Ids
  BY <1>2, SetupFacts DEF Puts
<1>10. \A j \in new : ~Live(j) /\ ~Replying(j)
  <2> TAKE j \in new
  <2>1. /\ j \in Puts /\ j # r.id /\ j[1] = c /\ Call(j).key = k /\ InWorker(j)
    BY <1>1, <1>8 DEF InWorker
  <2> QED BY <1>5, <2>1 DEF ChainInv
<1>11. \A j : Call(j)' = Call(j) /\ InWorker(j)' = InWorker(j)
  BY <1>2 DEF Call, Program, InWorker
<1>12. \A j : Replying(j)' => Replying(j)
  BY <1>2 DEF Replying
<1>13. ~Replying(r.id)'
  BY <1>2 DEF Replying, TaskInv
<1>14. TypeInv'
  BY PutCallbackType
<1> HIDE DEF f, new
<1>15. CASE UNCHANGED <<status, chain, submitted>>
  <2>1. \A j : Live(j)' <=> Live(j)
    BY <1>2, <1>15 DEF Live
  <2>2. TaskInv'
    BY <1>2, <1>9, <1>12, <1>15, <2>1 DEF TaskInv
  <2>3. NoNewTask
    BY <1>12, <2>1 DEF NoNewTask
  <2>4. IssuedInv' /\ PendingInv' /\ ChainInv' /\ WaitInv'
    BY <1>2, <1>15, <2>3, KeepIssued, KeepPending, KeepChain, KeepWait
  <2>5. HeldInv'
    BY <1>2, <1>15, <2>1, KeepHeld
  <2>6. \A j \in Ids : Issued(j) => Issued(j)'
    BY <1>2 DEF Issued
  <2>7. CommInv' /\ DataInv'
    BY <1>2, <2>1, <2>6, KeepComm, KeepData
  <2> QED BY <1>14, <2>2, <2>4, <2>5, <2>7
<1>16. CASE /\ status' = [status EXCEPT ![r.id] = "done"]
            /\ chain' = [chain EXCEPT ![c][k] = RemoveFirst(@, r.id)]
            /\ submitted' = submitted \cup new
  <2>1. new \in SUBSET Ids /\ returned' \subseteq returned
    BY <1>2, <1>8, <1>9
  <2>2. TaskInv' /\ \A j : Live(j)' <=> (Live(j) \/ j \in new)
    BY <1>2, <1>10, <1>16, <2>1, SubmitTasks
  <2>3. ~Live(r.id)' 
    BY <1>4, <1>8, <2>2
  <2>4. \A j \in new : status[j] = "pending" /\ Issued(j)
    <3> TAKE j \in new
    <3>1. status[j] = "pending" /\ j \in Ids
      BY <1>1, <1>8, <1>9 DEF ChainInv, f
    <3> QED BY <3>1 DEF IssuedInv
  <2>5. IssuedInv'
    <3>1. \A j \in Ids : Issued(j)' <=> Issued(j)
      BY <1>2 DEF Issued
    <3>2. \A j \in Ids : status'[j] = "new" <=> status[j] = "new"
      BY <1>1, <1>4, <1>16 DEF IssuedInv, TypeInv
    <3>3. \A j \in Ids : Live(j)' \/ Replying(j)' => Issued(j)
      BY <1>12, <2>2, <2>4 DEF IssuedInv
    <3> QED BY <1>9, <3>1, <3>2, <3>3 DEF IssuedInv
  <2>6. ASSUME NEW j \in Puts, Live(j)' \/ Replying(j)'
        PROVE  j # r.id /\ status'[j] = "pending"
    <3>1. j # r.id
      BY <1>13, <2>3, <2>6
    <3>2. status[j] = "pending"
      BY <1>12, <2>2, <2>4, <2>6 DEF PendingInv
    <3> QED BY <1>9, <1>16, <3>1, <3>2 DEF TypeInv
  <2>7. PendingInv'
    BY <1>9, <2>6 DEF PendingInv
  <2>8. \A d \in Client, l \in Key :
          chain'[d][l] = IF d = c /\ l = k THEN Tail(f) ELSE chain[d][l]
    BY <1>1, <1>5, <1>6, <1>16 DEF TypeInv, f
  <2>9. ASSUME NEW d \in Client, NEW l \in Key
        PROVE  /\ IsInjective(chain'[d][l])
               /\ \A j \in Range(chain'[d][l]) :
                    j[1] = d /\ InWorker(j) /\ Call(j).key = l /\ status'[j] = "pending"
    <3>1. \A j \in Range(chain[d][l]) : j[1] = d /\ InWorker(j) /\ Call(j).key = l /\ status[j] = "pending"
      BY DEF ChainInv
    <3>2. IsInjective(chain'[d][l]) /\ Range(chain'[d][l]) \subseteq Range(chain[d][l])
      BY <1>7, <2>8 DEF ChainInv, f
    <3>3. \A j \in Range(chain'[d][l]) : j # r.id
      <4>1. CASE d = c /\ l = k
        BY <1>7, <2>8, <4>1
      <4>2. CASE ~(d = c /\ l = k)
        BY <2>8, <3>1, <4>2 DEF c, k
      <4> QED BY <4>1, <4>2
    <3>4. \A j \in Range(chain'[d][l]) : j \in Ids
      <4>1. chain[d][l] \in Seq(Puts)
        BY DEF TypeInv
      <4>2. Range(chain[d][l]) \subseteq Puts
        BY <4>1 DEF Range
      <4> QED BY <1>9, <3>2, <4>2
    <3> QED BY <1>16, <3>1, <3>2, <3>3, <3>4 DEF TypeInv
  <2>10. ASSUME NEW j \in Puts, InWorker(j), Live(j)' \/ Replying(j)'
         PROVE  /\ chain'[j[1]][Call(j).key] # <<>>
                /\ Head(chain'[j[1]][Call(j).key]) = j
    <3>1. j[1] \in Client /\ Call(j).key \in Key
      BY <1>9, CallFacts DEF TypeInv
    <3>2. CASE j \in new
      BY <1>1, <1>8, <2>8, <3>2
    <3>3. CASE j \notin new
      <4>1. /\ chain[j[1]][Call(j).key] # <<>>
            /\ Head(chain[j[1]][Call(j).key]) = j
        BY <1>12, <2>2, <2>10, <3>3 DEF ChainInv
      <4>2. ~(j[1] = c /\ Call(j).key = k)
        BY <1>5, <2>6, <2>10, <4>1 DEF f
      <4> QED BY <2>8, <3>1, <4>1, <4>2
    <3> QED BY <3>2, <3>3
  <2>11. ChainInv'
    BY <1>9, <1>11, <2>9, <2>10 DEF ChainInv
  <2>12. WaitInv'
    BY <1>2, KeepWait
  <2>13. HeldInv'
    <3>1. \A j \in Ids : Live(j) /\ j \notin submitted => Live(j)' /\ j \notin submitted'
      BY <1>10, <1>16, <2>2
    <3> QED BY <1>2, <3>1, KeepHeld
  <2>14. CommInv'
    <3>1. \A q \in Gets : Live(q)' => Live(q)
      BY <1>8, <2>2 DEF Gets
    <3> QED BY <1>2, <1>9, <1>11, <3>1 DEF CommInv, Issued
  <2>15. DataInv'
    BY <1>2, KeepData
  <2> QED BY <1>14, <2>2, <2>5, <2>7, <2>11, <2>12, <2>13, <2>14, <2>15
<1> QED BY <1>3, <1>15, <1>16

LEMMA DriverReturnStep ==
    ASSUME BaseInv, NEW r \in returned, DriverReturn(r)
    PROVE  BaseInv'
<1> USE DEF BaseInv
<1>1. r.id \in Ids /\ ~InWorker(r.id) /\ Replying(r.id) /\ ~Live(r.id)
  <2>1. r.id \in Ids
    BY DEF TypeInv, Results
  <2> QED BY <2>1 DEF DriverReturn, TaskInv, Replying
<1>2. /\ returned' = returned \ {r}
      /\ UNCHANGED <<setup, issued, chain, submitted, recvs, inbox, ready, queue, getters, putters, held>>
      /\ \E s \in {"raised", "done"} : status' = [status EXCEPT ![r.id] = s]
  BY DEF DriverReturn, worker
<1>3. \A j : Live(j)' <=> Live(j)
  BY <1>2 DEF Live
<1>4. \A j : Replying(j)' => Replying(j)
  BY <1>2 DEF Replying
<1>5. ~Replying(r.id)'
  BY <1>2 DEF Replying, TaskInv
<1>6. Ids' = Ids /\ Puts' = Puts /\ Gets' = Gets /\ \A j \in Puts : j \in Ids
  BY <1>2, SetupFacts DEF Puts
<1>7. \A j : Call(j)' = Call(j) /\ InWorker(j)' = InWorker(j)
  BY <1>2 DEF Call, Program, InWorker
<1>8. TypeInv'
  BY DriverReturnType
<1>9. TaskInv'
  BY <1>2, <1>3, <1>4, <1>6 DEF TaskInv
<1>10. \A j \in Ids : j # r.id => status'[j] = status[j]
  BY <1>2 DEF TypeInv
<1>11. status'[r.id] # "new" /\ Issued(r.id) /\ status[r.id] # "new"
  BY <1>1, <1>2 DEF TypeInv, IssuedInv
<1>12. IssuedInv'
  <2>1. \A j \in Ids : Issued(j)' <=> Issued(j)
    BY <1>2 DEF Issued
  <2>2. \A j \in Ids : status'[j] = "new" <=> status[j] = "new"
    BY <1>10, <1>11
  <2> QED BY <1>3, <1>4, <1>6, <2>1, <2>2 DEF IssuedInv
<1>13. PendingInv'
  BY <1>1, <1>3, <1>4, <1>5, <1>6, <1>10 DEF PendingInv
<1>14. ChainInv'
  <2>1. ASSUME NEW d \in Client, NEW l \in Key
        PROVE  /\ IsInjective(chain'[d][l])
               /\ \A j \in Range(chain'[d][l]) :
                    j[1] = d /\ InWorker(j) /\ Call(j).key = l /\ status'[j] = "pending"
    <3>1. chain[d][l] \in Seq(Puts)
      BY DEF TypeInv
    <3>2. Range(chain[d][l]) \subseteq Puts
      BY <3>1 DEF Range
    <3> QED BY <1>1, <1>2, <1>6, <1>10, <3>2 DEF ChainInv
  <2>2. \A j \in Puts : InWorker(j) /\ (Live(j)' \/ Replying(j)') =>
          chain'[j[1]][Call(j).key] # <<>> /\ Head(chain'[j[1]][Call(j).key]) = j
    BY <1>2, <1>3, <1>4 DEF ChainInv
  <2> QED BY <1>6, <1>7, <2>1, <2>2 DEF ChainInv
<1>15. WaitInv' /\ HeldInv'
  BY <1>2, <1>3, KeepWait, KeepHeld
<1>16. CommInv' /\ DataInv'
  <2>1. \A j \in Ids : Issued(j) => Issued(j)'
    BY <1>2 DEF Issued
  <2> QED BY <1>2, <1>3, <2>1, KeepComm, KeepData
<1> QED BY <1>8, <1>9, <1>12, <1>13, <1>14, <1>15, <1>16


(* A reply reaches its client.                                             *)
LEMMA DeliverFacts ==
    ASSUME TypeInv, CommInv, NEW c \in Client, Deliver(c)
    PROVE  /\ recvs[c] # <<>> /\ inbox[c] # <<>> /\ InWorker(Head(recvs[c]))
           /\ recvs[c] \in Seq(Gets) /\ inbox[c] \in Seq(Replies)
           /\ Head(recvs[c]) \in Gets /\ Head(recvs[c])[1] = c /\ Issued(Head(recvs[c]))
           /\ Head(inbox[c]) \in Replies
           /\ recvs' = [recvs EXCEPT ![c] = Tail(@)]
           /\ inbox' = [inbox EXCEPT ![c] = Tail(@)]
           /\ UNCHANGED <<setup, issued, chain, submitted, returned, sent, ready, queue, getters, putters, held, taken>>
           /\ \/ UNCHANGED <<status, result>>
              \/ \E to \in Gets :
                   /\ to = Recipient(Head(recvs[c]), Head(inbox[c]))
                   /\ to[1] = c /\ Issued(to)
                   /\ to = Head(recvs[c]) \/ Call(to).async
                   /\ result' = [result EXCEPT ![to] = Head(inbox[c]).data]
                   /\ \E s \in {"raised", "done"} : status' = [status EXCEPT ![to] = s]
<1> DEFINE id == Head(recvs[c])
           m == Head(inbox[c])
           to == Recipient(id, m)
<1>1. /\ recvs[c] # <<>> /\ inbox[c] # <<>>
      /\ recvs' = [recvs EXCEPT ![c] = Tail(@)]
      /\ inbox' = [inbox EXCEPT ![c] = Tail(@)]
      /\ UNCHANGED <<setup, issued, chain, submitted, returned, sent, ready, queue, getters, putters, held, taken>>
  BY DEF Deliver, worker
<1>2. recvs[c] \in Seq(Gets) /\ inbox[c] \in Seq(Replies)
  BY DEF TypeInv
<1>3. /\ id \in Gets /\ id = recvs[c][1] /\ m \in Replies /\ m = inbox[c][1]
      /\ 1 \in 1..Len(recvs[c]) /\ 1 \in 1..Len(inbox[c])
  BY <1>1, <1>2
<1>4. id[1] = c /\ Issued(id) /\ c \notin Driver
  BY <1>1, <1>3 DEF CommInv
<1>5. \A q \in Gets : m.query = q => q[1] = c /\ Issued(q)
  BY <1>3 DEF CommInv
<1>6. \/ UNCHANGED <<status, result>>
      \/ /\ to \in Ids /\ (to = id \/ Call(to).async)
         /\ result' = [result EXCEPT ![to] = m.data]
         /\ \E s \in {"raised", "done"} : status' = [status EXCEPT ![to] = s]
  BY DEF Deliver
<1>7. to = id \/ to = m.query
  BY DEF Recipient
<1>8. m.query \in Gets \/ m.query = <<>>
  BY <1>3 DEF Replies
<1>9. to \in Ids => to \in Gets /\ to[1] = c /\ Issued(to)
  <2>1. to \in Ids => to # <<>>
    <3> HIDE DEF to
    <3> QED BY CallFacts DEF TypeInv
  <2> HIDE DEF to, id, m
  <2> QED BY <1>3, <1>4, <1>5, <1>7, <1>8, <2>1
<1>10. InWorker(id)
  BY <1>4 DEF InWorker
<1> HIDE DEF to
<1>11. \/ UNCHANGED <<status, result>>
       \/ \E t \in Gets :
            /\ t = to /\ t[1] = c /\ Issued(t) /\ (t = id \/ Call(t).async)
            /\ result' = [result EXCEPT ![t] = m.data]
            /\ \E s \in {"raised", "done"} : status' = [status EXCEPT ![t] = s]
  BY <1>6, <1>9
<1> QED BY <1>1, <1>2, <1>3, <1>4, <1>10, <1>11 DEF to

LEMMA DeliverStep ==
    ASSUME BaseInv, NEW c \in Client, Deliver(c)
    PROVE  BaseInv'
<1> USE DEF BaseInv
<1>1. /\ recvs[c] # <<>> /\ inbox[c] # <<>>
      /\ recvs[c] \in Seq(Gets) /\ inbox[c] \in Seq(Replies)
      /\ recvs' = [recvs EXCEPT ![c] = Tail(@)]
      /\ inbox' = [inbox EXCEPT ![c] = Tail(@)]
      /\ UNCHANGED <<setup, issued, chain, submitted, returned, sent, ready, queue, getters, putters, held, taken>>
  BY DeliverFacts
<1>2. \/ UNCHANGED status
      \/ \E to \in Gets : /\ Issued(to)
                          /\ \E s \in {"raised", "done"} : status' = [status EXCEPT ![to] = s]
  BY DeliverFacts
<1>3. TypeInv'
  BY DeliverType
<1>4. Ids' = Ids /\ Puts' = Puts /\ Gets' = Gets
      /\ (\A j \in Puts : j \in Ids /\ j \notin Gets) /\ \A j \in Gets : j \in Ids
  BY <1>1, SetupFacts DEF Puts, Gets
<1>5. /\ \A j : Live(j)' <=> Live(j)
      /\ \A j : Replying(j)' <=> Replying(j)
      /\ \A j : Issued(j)' <=> Issued(j)
  BY <1>1 DEF Live, Replying, Issued
<1>6. \A j : Call(j)' = Call(j) /\ InWorker(j)' = InWorker(j)
  BY <1>1 DEF Call, Program, InWorker
<1>7. TaskInv'
  BY <1>1, <1>4, <1>5 DEF TaskInv
<1>8. \A j \in Ids : status'[j] = "new" <=> status[j] = "new"
  <2>1. CASE UNCHANGED status
    BY <2>1
  <2>2. ASSUME NEW to \in Gets, Issued(to), NEW s \in {"raised", "done"},
               status' = [status EXCEPT ![to] = s]
        PROVE  \A j \in Ids : status'[j] = "new" <=> status[j] = "new"
    BY <1>4, <2>2 DEF TypeInv, IssuedInv
  <2> QED BY <1>2, <2>1, <2>2
<1>9. \A j \in Puts : status'[j] = status[j]
  BY <1>2, <1>4 DEF TypeInv
<1>10. IssuedInv'
  BY <1>4, <1>5, <1>8 DEF IssuedInv
<1>11. PendingInv'
  BY <1>4, <1>5, <1>9 DEF PendingInv
<1>12. ChainInv'
  <2>1. ASSUME NEW d \in Client, NEW l \in Key
        PROVE  /\ IsInjective(chain'[d][l])
               /\ \A j \in Range(chain'[d][l]) :
                    j[1] = d /\ InWorker(j) /\ Call(j).key = l /\ status'[j] = "pending"
    <3>1. chain[d][l] \in Seq(Puts)
      BY DEF TypeInv
    <3>2. Range(chain[d][l]) \subseteq Puts
      BY <3>1 DEF Range
    <3> QED BY <1>1, <1>9, <3>2 DEF ChainInv
  <2>2. \A j \in Puts : InWorker(j) /\ (Live(j)' \/ Replying(j)') =>
          chain'[j[1]][Call(j).key] # <<>> /\ Head(chain'[j[1]][Call(j).key]) = j
    BY <1>1, <1>5 DEF ChainInv
  <2> QED BY <1>4, <1>6, <2>1, <2>2 DEF ChainInv
<1>13. WaitInv' /\ HeldInv'
  BY <1>1, <1>5, KeepWait, KeepHeld
<1>14. ASSUME NEW d \in Client
       PROVE  /\ Len(inbox'[d]) \in Nat /\ Len(recvs'[d]) \in Nat
              /\ \/ inbox'[d] = inbox[d] /\ recvs'[d] = recvs[d]
                 \/ /\ d = c /\ inbox'[d] # inbox[d]
                    /\ \A n \in 1..Len(inbox'[d]) : n + 1 \in 1..Len(inbox[d]) /\ inbox'[d][n] = inbox[d][n + 1]
                    /\ \A n \in 1..Len(recvs'[d]) : n + 1 \in 1..Len(recvs[d]) /\ recvs'[d][n] = recvs[d][n + 1]
  <2>1. Len(inbox'[d]) \in Nat /\ Len(recvs'[d]) \in Nat
    BY <1>3 DEF TypeInv
  <2>2. CASE d # c
    BY <1>1, <2>1, <2>2 DEF TypeInv
  <2>3. CASE d = c
    <3>1. inbox'[d] = Tail(inbox[c]) /\ recvs'[d] = Tail(recvs[c])
      BY <1>1, <2>3 DEF TypeInv
    <3>2. /\ Len(Tail(inbox[c])) = Len(inbox[c]) - 1 /\ Len(Tail(recvs[c])) = Len(recvs[c]) - 1
          /\ \A n \in 1..(Len(inbox[c]) - 1) : n + 1 \in 1..Len(inbox[c]) /\ Tail(inbox[c])[n] = inbox[c][n + 1]
          /\ \A n \in 1..(Len(recvs[c]) - 1) : n + 1 \in 1..Len(recvs[c]) /\ Tail(recvs[c])[n] = recvs[c][n + 1]
          /\ Len(inbox[c]) \in Nat
      BY <1>1, TailFacts
    <3>3. inbox'[d] # inbox[d]
      <4>1. Len(inbox'[d]) = Len(inbox[d]) - 1
        BY <2>3, <3>1, <3>2
      <4>2. Len(inbox[d]) \in Nat
        BY <2>3, <3>2
      <4>3. Len(inbox'[d]) # Len(inbox[d])
        BY <4>1, <4>2
      <4> QED BY <4>3
    <3> QED BY <2>1, <2>3, <3>1, <3>2, <3>3
  <2> QED BY <2>2, <2>3
<1>15. CommInv'
  <2>1. ASSUME NEW d \in Client, NEW n \in 1..Len(inbox'[d]), NEW q \in Gets, inbox'[d][n].query = q
        PROVE  q[1] = d /\ ~Live(q) /\ Issued(q)
    <3>1. PICK m \in 1..Len(inbox[d]) : inbox'[d][n] = inbox[d][m]
      BY <1>14
    <3>2. inbox[d][m].query = q
      BY <2>1, <3>1
    <3> QED BY <3>2 DEF CommInv
  <2>2. ASSUME NEW d \in Client, NEW m \in 1..Len(inbox'[d]), NEW n \in 1..Len(inbox'[d]),
               inbox'[d][m].query = inbox'[d][n].query, inbox'[d][m].query # <<>>
        PROVE  m = n
    <3>1. CASE inbox'[d] = inbox[d]
      BY <2>2, <3>1 DEF CommInv
    <3>2. CASE inbox'[d] # inbox[d]
      <4>1. /\ m + 1 \in 1..Len(inbox[d]) /\ inbox'[d][m] = inbox[d][m + 1]
            /\ n + 1 \in 1..Len(inbox[d]) /\ inbox'[d][n] = inbox[d][n + 1]
        BY <1>14, <3>2
      <4>2. m + 1 = n + 1
        BY <2>2, <4>1 DEF CommInv
      <4>3. m \in Nat /\ n \in Nat
        BY <1>14
      <4> QED BY <4>2, <4>3
    <3> QED BY <3>1, <3>2
  <2>3. ASSUME NEW d \in Client, NEW n \in 1..Len(recvs'[d]), NEW g \in Gets, recvs'[d][n] = g
        PROVE  g[1] = d /\ Issued(g)
    <3>1. PICK m \in 1..Len(recvs[d]) : recvs'[d][n] = recvs[d][m]
      BY <1>14
    <3> QED BY <2>3, <3>1 DEF CommInv
  <2>4. \A d \in Client : d \in Driver => recvs'[d] = <<>> /\ inbox'[d] = <<>>
    BY <1>1 DEF CommInv, TypeInv
  <2>5. \A r \in returned' : InWorker(r.id)' => r.id \in Puts
    BY <1>1, <1>6 DEF CommInv
  <2>6. (\A d \in Client : \A n \in 1..Len(inbox[d]) : \A q \in Gets : inbox[d][n].query = q =>
           q[1] = d /\ ~Live(q) /\ Issued(q))'
    BY <1>4, <1>5, <2>1
  <2>7. (\A d \in Client : \A n \in 1..Len(recvs[d]) : \A g \in Gets : recvs[d][n] = g => g[1] = d /\ Issued(g))'
    BY <1>4, <1>5, <2>3
  <2> QED BY <1>4, <2>2, <2>4, <2>5, <2>6, <2>7 DEF CommInv
<1>16. DataInv'
  <2>1. \A k \in Key : \A n \in 1..Len(queue'[k]) : queue'[k][n].key = k
    BY <1>1 DEF DataInv
  <2>2. \A j \in Gets : GoodData(j, held[j])'
    BY <1>1, <1>6 DEF DataInv, GoodData
  <2>3. (\A r \in returned : IF r.id \in Gets THEN GoodData(r.id, r.data) ELSE r.data = <<>>)'
    BY <1>1, <1>4, <1>6 DEF DataInv, GoodData
  <2>4. ASSUME NEW d \in Client, NEW n \in 1..Len(inbox'[d])
        PROVE  /\ inbox'[d][n].query = <<>> => inbox'[d][n].data = <<>>
               /\ \A q \in Gets : inbox'[d][n].query = q => GoodData(q, inbox[d][n].data)'
    <3>1. PICK x \in 1..Len(inbox[d]) : inbox'[d][n] = inbox[d][x]
      BY <1>14
    <3>2. \A q \in Gets : inbox'[d][n].query = q => GoodData(q, inbox[d][x].data)
      BY <3>1 DEF DataInv
    <3>3. \A q \in Gets : inbox'[d][n].query = q => GoodData(q, inbox[d][n].data)'
      BY <1>6, <3>1, <3>2 DEF GoodData
    <3>4. inbox'[d][n].query = <<>> => inbox'[d][n].data = <<>>
      BY <3>1 DEF DataInv
    <3> QED BY <3>3, <3>4
  <2> QED BY <1>4, <2>1, <2>2, <2>3, <2>4 DEF DataInv
<1> QED BY <1>3, <1>7, <1>10, <1>11, <1>12, <1>13, <1>15, <1>16

(* Waking keeps the waiting tasks among those that waited.                 *)
LEMMA StillWaiting ==
    ASSUME NEW S, NEW W \in [Key -> Seq(S)], NEW k \in Key, NEW n \in Nat
    PROVE  \A j \in Key : Range([W EXCEPT ![k] = Asleep(@, n)][j]) \subseteq Range(W[j])
<1>1. W[k] \in Seq(S)
  OBVIOUS
<1>2. Range(Asleep(W[k], n)) \subseteq Range(W[k])
  BY <1>1, WokenFacts
<1> QED BY <1>2

LEMMA RangeAppend ==
    ASSUME NEW S, NEW W \in [Key -> Seq(S)], NEW k \in Key, NEW e \in S,
           NEW W2, W2 = [W EXCEPT ![k] = Append(@, e)]
    PROVE  \A j \in Key : Range(W2[j]) \subseteq Range(W[j]) \cup {e}
<1>1. W[k] \in Seq(S)
  OBVIOUS
<1>2. Range(Append(W[k], e)) = Range(W[k]) \cup {e}
  BY <1>1, InjectiveAppend
<1> QED BY <1>2

LEMMA RunPutStep ==
    ASSUME BaseInv, NEW id \in Ids, RunPut(id)
    PROVE  BaseInv'
<1> DEFINE x == PutItem(id)
           k == PutItem(id).key
<1> USE DEF BaseInv
<1>1. /\ id \in Puts /\ x \in Items /\ k \in Key
      /\ PutRoom(id, k) \/ PutWaits(id, k) \/ PutRaises(id, k)
      /\ UNCHANGED <<setup, issued, status, result, chain, recvs, submitted, inbox, taken>>
  BY RunPutFacts
<1>2. /\ TaskInv' /\ Live(id) /\ id \notin submitted
      /\ PutWaits(id, k) => Stays /\ returned' = returned
      /\ ~PutWaits(id, k) => Ended(id)
      /\ \A j \in Ids : Replying(j)' => Replying(j) \/ j = id
  BY RunPutTasks
<1>3. TypeInv'
  BY RunPutType
<1>4. \A j : Live(j)' => Live(j)
  BY <1>2 DEF Stays, Ended
<1>5. NoNewTask
  BY <1>2, <1>4 DEF NoNewTask
<1>6. IssuedInv' /\ PendingInv' /\ ChainInv'
  BY <1>1, <1>5, KeepIssued, KeepPending, KeepChain
<1>7. Ids' = Ids /\ Puts' = Puts /\ Gets' = Gets /\ \A j \in Gets : j # id
  BY <1>1, SetupFacts DEF Puts, Gets
<1>8. \A j : Call(j)' = Call(j) /\ InWorker(j)' = InWorker(j)
  BY <1>1 DEF Call, Program, InWorker
<1>9. /\ getters \in [Key -> Seq(Gets)] /\ putters \in [Key -> Seq(Puts)] /\ queue \in [Key -> Seq(Items)]
      /\ held \in [Ids -> Seq(Items)]
  BY DEF TypeInv
<1>10. \/ UNCHANGED returned
       \/ \E r : r.id = id /\ r.data = <<>> /\ returned' = returned \cup {r}
  BY <1>1 DEF PutRoom, PutWaits, PutRaises
<1> HIDE DEF x, k
<1>11. WaitInv'
  <2>1. \A j \in Key : Range(getters'[j]) \subseteq Range(getters[j])
    BY <1>1, <1>9, StillWaiting DEF PutRoom, PutWaits, PutRaises
  <2>2. \A j \in Key : \A p \in Range(putters'[j]) : p \in Range(putters[j]) \/ Call(p).op = "put"
    <3>1. PutWaits(id, k) => Call(id).op = "put" /\ putters' = [putters EXCEPT ![k] = Append(@, id)]
      BY DEF PutWaits
    <3>2. CASE PutWaits(id, k)
      <4>1. \A j \in Key : Range(putters'[j]) \subseteq Range(putters[j]) \cup {id}
        BY <1>1, <1>9, <3>1, <3>2, RangeAppend
      <4> QED BY <3>1, <3>2, <4>1
    <3>3. CASE ~PutWaits(id, k)
      BY <1>1, <3>3 DEF PutRoom, PutRaises
    <3> QED BY <3>2, <3>3
  <2> QED BY <1>8, <2>1, <2>2 DEF WaitInv
<1>12. HeldInv'
  <2>1. \A j \in Ids : j # id => held'[j] = held[j]
    BY <1>1, <1>9 DEF PutRoom, PutWaits, PutRaises
  <2>2. \A j \in Ids : j # id /\ Live(j) => Live(j)'
    BY <1>2 DEF Stays, Ended
  <2>3. held'[id] # <<>> => Live(id)' /\ Call(id).op = "put" /\ Len(held'[id]) = 1
    <3>1. CASE PutRoom(id, k)
      BY <1>1, <1>9, <3>1 DEF PutRoom
    <3>2. CASE PutWaits(id, k)
      BY <1>1, <1>2, <1>9, <3>2 DEF PutWaits, Stays
    <3>3. CASE PutRaises(id, k)
      BY <1>1, <3>3 DEF PutRaises, HeldInv
    <3> QED BY <1>1, <3>1, <3>2, <3>3
  <2>4. ASSUME NEW j \in Ids, held'[j] # <<>>
        PROVE  /\ Live(j)' /\ j \notin submitted' /\ Call(j).op \in {"put", "get_batch"}
               /\ j \in Puts => Len(held'[j]) = 1
    <3>1. CASE j = id
      BY <1>1, <1>2, <2>3, <2>4, <3>1
    <3>2. CASE j # id
      BY <1>1, <2>1, <2>2, <2>4, <3>2 DEF HeldInv
    <3> QED BY <3>1, <3>2
  <2> QED BY <1>7, <1>8, <2>4 DEF HeldInv
<1>13. CommInv'
  <2>1. \A j \in Ids : (Issued(j) => Issued(j)') /\ (Issued(j) /\ Live(j)' => Live(j))
    BY <1>1, <1>4 DEF Issued
  <2>2. \A r \in returned' : r \in returned \/ (InWorker(r.id) => r.id \in Puts)
    BY <1>1, <1>10
  <2> QED BY <1>1, <2>1, <2>2, KeepComm
<1>14. DataInv'
  <2>1. ASSUME NEW j \in Key, NEW n \in 1..Len(queue'[j])
        PROVE  queue'[j][n].key = j
    <3>1. queue'[j] = queue[j] \/ (j = k /\ queue'[j] = Append(queue[j], x))
      BY <1>1, <1>9 DEF PutRoom, PutWaits, PutRaises, x
    <3>2. \A i \in 1..Len(queue[j]) : queue[j][i].key = j
      BY DEF DataInv
    <3>3. queue[j] \in Seq(Items) /\ Len(queue[j]) \in Nat
      BY <1>9
    <3>4. x.key = k
      BY DEF x, k
    <3>5. CASE j = k /\ queue'[j] = Append(queue[j], x)
      <4>1. Len(queue'[j]) = Len(queue[j]) + 1
        BY <3>3, <3>5
      <4>2. CASE n = Len(queue[j]) + 1
        BY <3>3, <3>4, <3>5, <4>2
      <4>3. CASE n \in 1..Len(queue[j])
        BY <3>2, <3>3, <3>5, <4>3
      <4> QED BY <3>3, <4>1, <4>2, <4>3
    <3> QED BY <3>1, <3>2, <3>5
  <2>2. \A j \in Gets : GoodData(j, held[j])'
    <3>1. \A j \in Gets : held'[j] = held[j]
      BY <1>1, <1>7, <1>9 DEF PutRoom, PutWaits, PutRaises, Gets
    <3> QED BY <1>8, <3>1 DEF DataInv, GoodData
  <2>3. (\A r \in returned : IF r.id \in Gets THEN GoodData(r.id, r.data) ELSE r.data = <<>>)'
    BY <1>7, <1>8, <1>10 DEF DataInv, GoodData
  <2>4. (\A c \in Client : \A n \in 1..Len(inbox[c]) :
           /\ inbox[c][n].query = <<>> => inbox[c][n].data = <<>>
           /\ \A q \in Gets : inbox[c][n].query = q => GoodData(q, inbox[c][n].data))'
    BY <1>1, <1>7, <1>8 DEF DataInv, GoodData
  <2>5. (\A j \in Key : \A n \in 1..Len(queue[j]) : queue[j][n].key = j)'
    BY <2>1
  <2>6. (\A j \in Gets : GoodData(j, held[j]))'
    BY <1>7, <2>2
  <2> QED BY <2>3, <2>4, <2>5, <2>6 DEF DataInv
<1> QED BY <1>2, <1>3, <1>6, <1>11, <1>12, <1>13, <1>14

ReplyData ==
  /\ \A r \in returned : IF r.id \in Gets THEN GoodData(r.id, r.data) ELSE r.data = <<>>
  /\ \A c \in Client : \A n \in 1..Len(inbox[c]) :
       /\ inbox[c][n].query = <<>> => inbox[c][n].data = <<>>
       /\ \A q \in Gets : inbox[c][n].query = q => GoodData(q, inbox[c][n].data)

LEMMA ReplySame ==
    ASSUME BaseInv, UNCHANGED <<setup, returned, inbox>> PROVE ReplyData'
<1>1. \A j : Call(j)' = Call(j)
  BY DEF Call, Program
<1> QED BY <1>1, SetupFacts DEF BaseInv, DataInv, ReplyData, GoodData

(* A get answers.                                                          *)
LEMMA AnswerStep ==
    ASSUME BaseInv, NEW id \in Gets, Live(id), Ended(id), NEW q \in {id, <<>>},
           NEW data \in Seq(Items), q = <<>> => data = <<>>, GoodData(id, data),
           Answer(id, q, data), UNCHANGED <<setup, issued, recvs>>
    PROVE  /\ CommInv' /\ ReplyData'
           /\ \A j \in Ids : Replying(j)' => Replying(j) \/ j = id
<1> USE DEF BaseInv
<1> DEFINE m == [query |-> q, data |-> data]
           c == id[1]
<1>1. id \in Ids /\ c \in Client /\ Issued(id) /\ id # <<>>
  <2>1. id \in Ids
    BY DEF Gets
  <2> QED BY <2>1, CallFacts DEF TypeInv, IssuedInv
<1>2. Ids' = Ids /\ Puts' = Puts /\ Gets' = Gets /\ \A j \in Gets : j \in Ids
  BY SetupFacts DEF Gets
<1>3. \A j : Call(j)' = Call(j) /\ InWorker(j)' = InWorker(j) /\ Issued(j)' = Issued(j)
  BY DEF Call, Program, InWorker, Issued
<1>4. \A j : Live(j)' => Live(j) /\ j # id
  BY DEF Ended
<1>5. CASE InWorker(id)
  <2>1. returned' = returned /\ inbox' = [inbox EXCEPT ![c] = Append(@, m)]
    BY <1>5 DEF Answer
  <2>2. inbox[c] \in Seq(Replies) /\ Len(inbox[c]) \in Nat
    BY <1>1 DEF TypeInv
  <2>3. m.query = q /\ m.data = data
    OBVIOUS
  <2>4. m \in Replies
    BY DEF Replies
  <2> HIDE DEF m, c
  <2>5. \A d \in Client : d # c => inbox'[d] = inbox[d]
    BY <1>1, <2>1 DEF TypeInv
  <2>6. /\ Len(inbox'[c]) = Len(inbox[c]) + 1
        /\ inbox'[c][Len(inbox[c]) + 1] = m
        /\ \A n \in 1..Len(inbox[c]) : inbox'[c][n] = inbox[c][n]
    <3>1. inbox'[c] = Append(inbox[c], m)
      BY <1>1, <2>1 DEF TypeInv
    <3> QED BY <2>2, <2>4, <3>1
  <2>7. ASSUME NEW d \in Client, NEW n \in 1..Len(inbox'[d])
        PROVE  \/ n \in 1..Len(inbox[d]) /\ inbox'[d][n] = inbox[d][n]
               \/ d = c /\ n = Len(inbox[d]) + 1 /\ inbox'[d][n] = m
    BY <2>2, <2>5, <2>6
  <2>8. ASSUME NEW d \in Client, NEW n \in 1..Len(inbox'[d]), NEW g \in Gets, inbox'[d][n].query = g
        PROVE  g[1] = d /\ ~Live(g)' /\ Issued(g) /\ GoodData(g, inbox'[d][n].data)
    <3>1. CASE n \in 1..Len(inbox[d]) /\ inbox'[d][n] = inbox[d][n]
      BY <1>4, <2>8, <3>1 DEF CommInv, DataInv
    <3>2. CASE d = c /\ n = Len(inbox[d]) + 1 /\ inbox'[d][n] = m
      <4>1. g = id
        <5>1. g # <<>>
          BY <1>2, CallFacts DEF TypeInv
        <5> QED BY <2>3, <2>8, <3>2, <5>1
      <4> QED BY <1>1, <1>4, <2>3, <3>2, <4>1 DEF c
    <3> QED BY <2>7, <3>1, <3>2
  <2>9. ASSUME NEW d \in Client, NEW n1 \in 1..Len(inbox'[d]), NEW n2 \in 1..Len(inbox'[d]),
               inbox'[d][n1].query = inbox'[d][n2].query, inbox'[d][n1].query # <<>>
        PROVE  n1 = n2
    <3>1. \A n \in 1..Len(inbox[d]) : inbox[d][n].query # id
      BY DEF CommInv
    <3>2. CASE n1 \in 1..Len(inbox[d]) /\ n2 \in 1..Len(inbox[d])
      BY <2>7, <2>9, <3>2 DEF CommInv
    <3>3. CASE n1 \notin 1..Len(inbox[d]) /\ n2 \notin 1..Len(inbox[d])
      BY <2>7, <3>3
    <3>4. CASE ~(n1 \in 1..Len(inbox[d]) <=> n2 \in 1..Len(inbox[d]))
      <4>1. m.query = id
        BY <2>3, <2>7, <2>9, <3>4
      <4> QED BY <2>7, <2>9, <3>1, <3>4, <4>1
    <3> QED BY <3>2, <3>3, <3>4
  <2>10. ASSUME NEW d \in Client, NEW n \in 1..Len(inbox'[d]), inbox'[d][n].query = <<>>
         PROVE  inbox'[d][n].data = <<>>
    BY <2>3, <2>7, <2>10 DEF DataInv
  <2>11. \A d \in Client : d \in Driver => recvs'[d] = <<>> /\ inbox'[d] = <<>>
    <3>1. c \notin Driver
      BY <1>5 DEF InWorker, c
    <3> QED BY <2>5, <3>1 DEF CommInv
  <2>12. CommInv'
    <3>1. (\A d \in Client : \A n \in 1..Len(inbox[d]) : \A g \in Gets : inbox[d][n].query = g =>
             g[1] = d /\ ~Live(g) /\ Issued(g))'
      BY <1>2, <1>3, <2>8
    <3>2. (\A d \in Client : \A n \in 1..Len(recvs[d]) : \A g \in Gets : recvs[d][n] = g => g[1] = d /\ Issued(g))'
      BY <1>2, <1>3 DEF CommInv
    <3>3. (\A r \in returned : InWorker(r.id) => r.id \in Puts)'
      BY <1>2, <1>3, <2>1 DEF CommInv
    <3> QED BY <2>9, <2>11, <3>1, <3>2, <3>3 DEF CommInv
  <2>13. ReplyData'
    <3>1. (\A r \in returned : IF r.id \in Gets THEN GoodData(r.id, r.data) ELSE r.data = <<>>)'
      BY <1>2, <1>3, <2>1 DEF DataInv, GoodData
    <3>2. (\A d \in Client : \A n \in 1..Len(inbox[d]) : \A g \in Gets : inbox[d][n].query = g => GoodData(g, inbox[d][n].data))'
      <4> SUFFICES ASSUME NEW d \in Client, NEW n \in 1..Len(inbox'[d]), NEW g \in Gets, inbox'[d][n].query = g
                   PROVE  GoodData(g, inbox[d][n].data)'
        BY <1>2
      <4>1. GoodData(g, inbox'[d][n].data)
        BY <2>8
      <4> QED BY <1>3, <4>1 DEF GoodData
    <3>3. (\A d \in Client : \A n \in 1..Len(inbox[d]) : inbox[d][n].query = <<>> => inbox[d][n].data = <<>>)'
      BY <2>10
    <3> QED BY <3>1, <3>2, <3>3 DEF ReplyData
  <2>14. \A j \in Ids : Replying(j)' => Replying(j)
    BY <2>1 DEF Replying
  <2> QED BY <2>12, <2>13, <2>14
<1>6. CASE ~InWorker(id)
  <2> DEFINE r == [id |-> id, out |-> IF q = <<>> THEN "raise" ELSE "ok", data |-> data]
  <2>1. inbox' = inbox /\ returned' = returned \cup {r}
    BY <1>6 DEF Answer
  <2>2. r.id = id /\ r.data = data
    OBVIOUS
  <2> HIDE DEF r
  <2>3. CommInv'
    <3>1. \A j \in Ids : (Issued(j) => Issued(j)') /\ (Issued(j) /\ Live(j)' => Live(j))
      BY <1>3, <1>4
    <3>2. \A s \in returned' : s \in returned \/ (InWorker(s.id) => s.id \in Puts)
      BY <1>6, <2>1, <2>2
    <3> QED BY <2>1, <3>1, <3>2, KeepComm
  <2>4. ReplyData'
    <3>1. (\A s \in returned : IF s.id \in Gets THEN GoodData(s.id, s.data) ELSE s.data = <<>>)'
      BY <1>2, <1>3, <2>1, <2>2 DEF DataInv, GoodData
    <3>2. (\A d \in Client : \A n \in 1..Len(inbox[d]) :
             /\ inbox[d][n].query = <<>> => inbox[d][n].data = <<>>
             /\ \A g \in Gets : inbox[d][n].query = g => GoodData(g, inbox[d][n].data))'
      BY <1>2, <1>3, <2>1 DEF DataInv, GoodData
    <3> QED BY <3>1, <3>2 DEF ReplyData
  <2>5. \A j \in Ids : Replying(j)' => Replying(j) \/ j = id
    BY <2>1, <2>2 DEF Replying
  <2> QED BY <2>3, <2>4, <2>5
<1> QED BY <1>5, <1>6

(* Items leave a queue.                                                    *)
LEMMA TakeData ==
    ASSUME TypeInv, DataInv, NEW k \in Key, NEW n \in 0..Len(queue[k]), TakeItems(k, n)
    PROVE  /\ \A j \in Key : \A i \in 1..Len(queue'[j]) : queue'[j][i].key = j
           /\ \A j \in Key : Range(putters'[j]) \subseteq Range(putters[j])
<1>1. queue \in [Key -> Seq(Items)] /\ queue[k] \in Seq(Items) /\ putters \in [Key -> Seq(Puts)]
      /\ Len(queue[k]) \in Nat /\ n \in Nat
  BY DEF TypeInv
<1>2. \A j \in Key : Range(putters'[j]) \subseteq Range(putters[j])
  BY <1>1, StillWaiting DEF TakeItems
<1>3. /\ Len(SubSeq(queue[k], n + 1, Len(queue[k]))) = Len(queue[k]) - n
      /\ \A i \in 1..(Len(queue[k]) - n) :
           /\ i + n \in 1..Len(queue[k])
           /\ SubSeq(queue[k], n + 1, Len(queue[k]))[i] = queue[k][i + n]
  BY <1>1
<1>4. \A j \in Key : queue'[j] = IF j = k THEN SubSeq(queue[k], n + 1, Len(queue[k])) ELSE queue[j]
  BY <1>1 DEF TakeItems
<1>5. ASSUME NEW j \in Key, NEW i \in 1..Len(queue'[j])
      PROVE  queue'[j][i].key = j
  <2>1. CASE j = k
    <3> DEFINE q == SubSeq(queue[k], n + 1, Len(queue[k]))
    <3>1. queue'[j] = q /\ Len(q) = Len(queue[k]) - n
      BY <1>3, <1>4, <2>1
    <3>2. \A m \in 1..(Len(queue[k]) - n) : m + n \in 1..Len(queue[k]) /\ q[m] = queue[k][m + n]
      BY <1>3
    <3> HIDE DEF q
    <3>3. i + n \in 1..Len(queue[k]) /\ queue'[j][i] = queue[k][i + n]
      BY <3>1, <3>2
    <3> QED BY <2>1, <3>3 DEF DataInv
  <2>2. CASE j # k
    BY <1>4, <2>2 DEF DataInv
  <2> QED BY <2>1, <2>2
<1> QED BY <1>2, <1>5

(* What is left to show of a get that ran.                                 *)
LEMMA GetRanStep ==
    ASSUME BaseInv, NEW id \in Gets, UNCHANGED <<setup, issued, status, chain, recvs, submitted>>,
           TypeInv', TaskInv', CommInv', ReplyData', Live(id), id \notin submitted,
           Ended(id) \/ Stays, Call(id).op # "get_nowait" \/ Ended(id),
           \A j \in Ids : Replying(j)' => Replying(j) \/ j = id,
           \A j \in Key : \A i \in 1..Len(queue'[j]) : queue'[j][i].key = j,
           \A j \in Key : Range(putters'[j]) \subseteq Range(putters[j]),
           \A j \in Key : \A g \in Range(getters'[j]) :
             g \in Range(getters[j]) \/ (g = id /\ j = Call(id).key /\ Call(id).op # "get_nowait"),
           NEW h \in Seq(Items), held' = [held EXCEPT ![id] = h],
           h # <<>> => Stays /\ Call(id).op = "get_batch",
           GoodData(id, h)
    PROVE  BaseInv'
<1> USE DEF BaseInv
<1>1. \A j : Live(j)' => Live(j)
  BY DEF Stays, Ended
<1>2. NoNewTask
  BY <1>1 DEF NoNewTask
<1>3. IssuedInv' /\ PendingInv' /\ ChainInv'
  BY <1>2, KeepIssued, KeepPending, KeepChain
<1>4. Ids' = Ids /\ Puts' = Puts /\ Gets' = Gets /\ (\A j \in Puts : j # id) /\ \A j \in Gets : j \in Ids
  BY SetupFacts DEF Puts, Gets
<1>5. \A j : Call(j)' = Call(j)
  BY DEF Call, Program
<1>6. WaitInv'
  BY <1>5 DEF WaitInv
<1>7. \A j \in Ids : held'[j] = IF j = id THEN h ELSE held[j]
  BY DEF TypeInv
<1>8. HeldInv'
  <2> SUFFICES ASSUME NEW j \in Ids, held'[j] # <<>>
               PROVE  /\ Live(j)' /\ j \notin submitted' /\ Call(j).op \in {"put", "get_batch"}
                      /\ j \in Puts => Len(held'[j]) = 1
    BY <1>4, <1>5 DEF HeldInv
  <2>1. CASE j = id
    BY <1>4, <1>7, <2>1 DEF Stays
  <2>2. CASE j # id
    <3>1. Live(j) => Live(j)'
      BY <2>2 DEF Stays, Ended
    <3> QED BY <1>7, <2>2, <3>1 DEF HeldInv
  <2> QED BY <2>1, <2>2
<1>9. (\A j \in Gets : GoodData(j, held[j]))'
  <2>1. \A j \in Gets : GoodData(j, held'[j])
    BY <1>4, <1>7 DEF DataInv
  <2> QED BY <1>4, <1>5, <2>1 DEF GoodData
<1>10. (\A j \in Key : \A i \in 1..Len(queue[j]) : queue[j][i].key = j)'
  OBVIOUS
<1>11. DataInv'
  BY <1>9, <1>10 DEF DataInv, ReplyData
<1> QED BY <1>3, <1>6, <1>8, <1>11

LEMMA GetterJoins ==
    ASSUME TypeInv, NEW id \in Gets, Call(id).op # "get_nowait", Call(id).key \in Key,
           getters' = [getters EXCEPT ![Call(id).key] = Append(@, id)]
    PROVE  \A j \in Key : \A g \in Range(getters'[j]) :
             g \in Range(getters[j]) \/ (g = id /\ j = Call(id).key /\ Call(id).op # "get_nowait")
<1> DEFINE k == Call(id).key
<1>1. getters \in [Key -> Seq(Gets)] /\ getters' = [getters EXCEPT ![k] = Append(@, id)] /\ k \in Key
  BY DEF TypeInv
<1> HIDE DEF k
<1>2. \A j \in Key : Range(getters'[j]) \subseteq Range(getters[j]) \cup {id}
  <2>1. getters[k] \in Seq(Gets)
    BY <1>1
  <2>2. Range(Append(getters[k], id)) = Range(getters[k]) \cup {id}
    BY <2>1, InjectiveAppend
  <2> QED BY <1>1, <2>2
<1>3. \A j \in Key : j # k => getters'[j] = getters[j]
  BY <1>1
<1> QED BY <1>2, <1>3 DEF k

LEMMA RunGetStep ==
    ASSUME BaseInv, NEW id \in Ids, RunGet(id)
    PROVE  BaseInv'
<1> USE DEF BaseInv
<1> DEFINE k == Call(id).key
<1>1. /\ id \in Gets /\ ready # <<>> /\ Head(ready) = id /\ k \in Key /\ Call(id).op # "get_batch"
      /\ GetTakes(id, k) \/ GetWaits(id, k) \/ GetFails(id, k)
      /\ UNCHANGED <<setup, issued, status, result, chain, recvs, submitted, sent, held>>
  BY RunGetFacts
<1>2. Live(id) /\ id \notin submitted
  BY <1>1, RunningGet
<1>3. TypeInv'
  BY RunGetType
<1>4. held[id] = <<>> /\ held' = [held EXCEPT ![id] = <<>>] /\ <<>> \in Seq(Items)
  <2>1. Call(id).op \notin {"put", "get_batch"}
    BY <1>1 DEF Gets, Puts
  <2>2. held[id] = <<>>
    BY <2>1 DEF HeldInv
  <2> QED BY <1>1, <2>2 DEF TypeInv
<1>5. GoodData(id, <<>>)
  BY <1>1 DEF GoodData
<1> HIDE DEF k
<1>6. CASE GetTakes(id, k)
  <2> DEFINE x == Head(queue[k])
  <2>1. queue[k] # <<>> /\ queue[k] \in Seq(Items) /\ Len(queue[k]) \in Nat
    BY <1>1, <1>6 DEF GetTakes, TypeInv
  <2>2. x \in Items /\ x = queue[k][1] /\ 1 \in 1..Len(queue[k])
    BY <2>1
  <2>3. x.key = k
    BY <1>1, <2>2 DEF DataInv
  <2>4. Answer(id, id, <<x>>) /\ TakeItems(k, 1) /\ UNCHANGED getters
    BY <1>6 DEF GetTakes
  <2> HIDE DEF x
  <2>5. <<x>> \in Seq(Items)
    BY <2>2
  <2>6. GoodData(id, <<x>>)
    BY <1>1, <2>3 DEF GoodData, k
  <2>7. UNCHANGED returned \/ \E r : r.id = id /\ returned' = returned \cup {r}
    BY <2>4, AnswerReturned
  <2>8. TaskInv' /\ Ended(id)
    <3>1. 1 \in Nat
      OBVIOUS
    <3> QED BY <1>1, <2>4, <2>7, <3>1, TakeTasks
  <2>9. CommInv' /\ ReplyData' /\ \A j \in Ids : Replying(j)' => Replying(j) \/ j = id
    <3>1. id # <<>>
      BY CallFacts DEF TypeInv
    <3> QED BY <1>1, <1>2, <2>4, <2>5, <2>6, <2>8, <3>1, AnswerStep
  <2>10. /\ \A j \in Key : \A i \in 1..Len(queue'[j]) : queue'[j][i].key = j
         /\ \A j \in Key : Range(putters'[j]) \subseteq Range(putters[j])
    <3>1. 1 \in 0..Len(queue[k])
      BY <2>1, <2>2
    <3> QED BY <1>1, <2>4, <3>1, TakeData
  <2> QED BY <1>1, <1>2, <1>3, <1>4, <1>5, <2>4, <2>8, <2>9, <2>10, GetRanStep
<1>7. CASE GetWaits(id, k)
  <2>1. /\ Call(id).op = "get" /\ UNCHANGED <<queue, taken, putters, inbox, returned>>
        /\ getters' = [getters EXCEPT ![k] = Append(@, id)]
    BY <1>7 DEF GetWaits
  <2>2. TaskInv' /\ Stays
    BY <1>1, <1>7, GetWaitsTasks
  <2>3. \A j \in Key : \A g \in Range(getters'[j]) :
          g \in Range(getters[j]) \/ (g = id /\ j = Call(id).key /\ Call(id).op # "get_nowait")
    BY <1>1, <2>1, GetterJoins DEF k
  <2>4. CommInv'
    <3>1. \A j \in Ids : (Issued(j) => Issued(j)') /\ (Issued(j) /\ Live(j)' => Live(j))
      BY <1>1, <2>2 DEF Issued, Stays
    <3> QED BY <1>1, <2>1, <3>1, KeepComm
  <2>5. ReplyData'
    BY <1>1, <2>1, ReplySame
  <2>6. /\ \A j \in Ids : Replying(j)' => Replying(j) \/ j = id
        /\ \A j \in Key : \A i \in 1..Len(queue'[j]) : queue'[j][i].key = j
        /\ \A j \in Key : Range(putters'[j]) \subseteq Range(putters[j])
    BY <2>1 DEF Replying, DataInv
  <2> QED BY <1>1, <1>2, <1>3, <1>4, <1>5, <2>1, <2>2, <2>3, <2>4, <2>5, <2>6, GetRanStep
<1>8. CASE GetFails(id, k)
  <2>1. Answer(id, <<>>, <<>>) /\ ready' = Tail(ready) /\ UNCHANGED <<queue, taken, putters, getters>>
    BY <1>8 DEF GetFails
  <2>2. UNCHANGED returned \/ \E r : r.id = id /\ returned' = returned \cup {r}
    BY <2>1, AnswerReturned
  <2>3. TaskInv' /\ Ended(id)
    BY <1>1, <2>1, <2>2, GetFailsTasks
  <2>4. CommInv' /\ ReplyData' /\ \A j \in Ids : Replying(j)' => Replying(j) \/ j = id
    BY <1>1, <1>2, <1>4, <1>5, <2>1, <2>3, AnswerStep
  <2>5. /\ \A j \in Key : \A i \in 1..Len(queue'[j]) : queue'[j][i].key = j
        /\ \A j \in Key : Range(putters'[j]) \subseteq Range(putters[j])
    BY <2>1 DEF DataInv
  <2> QED BY <1>1, <1>2, <1>3, <1>4, <1>5, <2>1, <2>3, <2>4, <2>5, GetRanStep
<1> QED BY <1>1, <1>6, <1>7, <1>8

LEMMA WeightOfNothing == Weight(<<>>) = 0
<1> DEFINE op(x, y) == y + x.weight
           iter == CHOOSE iter : iter = [s \in SUBSET DOMAIN <<>> |->
                     IF s = {} THEN 0
                     ELSE LET x == Max(s) IN op(<<>>[x], iter[s \ {x}])]
           g == [s \in SUBSET DOMAIN <<>> |-> 0]
<1>1. DOMAIN <<>> = {}
  OBVIOUS
<1>2. \A s \in SUBSET DOMAIN <<>> : s = {}
  BY <1>1
<1>3. g = [s \in SUBSET DOMAIN <<>> |->
             IF s = {} THEN 0
             ELSE LET x == Max(s) IN op(<<>>[x], g[s \ {x}])]
  BY <1>2
<1>4. iter = [s \in SUBSET DOMAIN <<>> |->
             IF s = {} THEN 0
             ELSE LET x == Max(s) IN op(<<>>[x], iter[s \ {x}])]
  <2> HIDE DEF g
  <2> QED BY <1>3
<1>5. iter[DOMAIN <<>>] = 0
  BY <1>1, <1>4
<1> QED BY <1>5 DEF Weight, FoldLeft, MapThenFoldSet

LEMMA RunBatchStep ==
    ASSUME BaseInv, NEW id \in Ids, RunGetBatch(id)
    PROVE  BaseInv'
<1> USE DEF BaseInv
<1> DEFINE k == Call(id).key
           n == BatchSize(id)
<1>1. /\ id \in Gets /\ ready # <<>> /\ Head(ready) = id /\ k \in Key /\ Call(id).op = "get_batch"
      /\ n \in 0..Len(queue[k]) /\ Batch(id) \in Seq(Items)
      /\ TakeItems(k, n) /\ (BatchEnds(id, k) \/ BatchWaits(id, k))
      /\ UNCHANGED <<setup, issued, status, result, chain, recvs, submitted, sent>>
  BY RunBatchFacts
<1>2. Live(id) /\ id \notin submitted
  BY <1>1, RunningGet
<1>3. TypeInv'
  BY RunBatchType
<1>4. Call(id).weight \in Nat /\ id # <<>> /\ queue[k] \in Seq(Items) /\ held[id] \in Seq(Items)
      /\ Len(queue[k]) \in Nat
  <2>1. Call(id).weight \in Nat /\ id # <<>>
    BY CallFacts DEF TypeInv
  <2>2. queue[k] \in Seq(Items) /\ held[id] \in Seq(Items)
    BY <1>1 DEF TypeInv
  <2> QED BY <2>1, <2>2
<1>5. GoodData(id, <<>>)
  BY <1>4, WeightOfNothing DEF GoodData
<1>6. GoodData(id, Batch(id))
  <2>1. Weight(Batch(id)) <= Call(id).weight
    <3>1. CASE n > 0
      BY <3>1, RunBatchFacts
    <3>2. CASE n = 0
      <4>1. Batch(id) = held[id]
        BY <3>2, RunBatchFacts
      <4> QED BY <1>1, <4>1 DEF DataInv, GoodData
    <3> QED BY <1>1, <1>4, <3>1, <3>2
  <2> DEFINE t == SubSeq(queue[k], 1, n)
             h == held[id]
  <2>2. \A i \in 1..Len(t) : t[i].key = k
    BY <1>1, <1>4 DEF DataInv
  <2>3. \A i \in 1..Len(h) : h[i].key = k
    BY <1>1 DEF DataInv, GoodData
  <2>4. t \in Seq(Items) /\ h \in Seq(Items) /\ Batch(id) = h \o t
    BY <1>1, <1>4 DEF Batch
  <2> HIDE DEF t, h, k
  <2>5. \A i \in 1..Len(h \o t) : (h \o t)[i].key = k
    BY <2>2, <2>3, <2>4
  <2> QED BY <2>1, <2>4, <2>5 DEF GoodData, k
<1>7. /\ \A j \in Key : \A i \in 1..Len(queue'[j]) : queue'[j][i].key = j
      /\ \A j \in Key : Range(putters'[j]) \subseteq Range(putters[j])
  BY <1>1, TakeData
<1>8. n \in Nat
  BY <1>1, <1>4
<1>9. CASE BatchEnds(id, k)
  <2>1. /\ Answer(id, id, Batch(id)) /\ held' = [held EXCEPT ![id] = <<>>]
        /\ UNCHANGED getters
    BY <1>9 DEF BatchEnds
  <2>2. UNCHANGED returned \/ \E r : r.id = id /\ returned' = returned \cup {r}
    BY <2>1, AnswerReturned
  <2>3. TaskInv' /\ Ended(id)
    BY <1>1, <1>8, <2>1, <2>2, TakeTasks
  <2>4. CommInv' /\ ReplyData' /\ \A j \in Ids : Replying(j)' => Replying(j) \/ j = id
    BY <1>1, <1>2, <1>4, <1>6, <2>1, <2>3, AnswerStep
  <2>5. <<>> \in Seq(Items)
    OBVIOUS
  <2> QED BY <1>1, <1>2, <1>3, <1>5, <1>7, <2>1, <2>3, <2>4, <2>5, GetRanStep
<1>10. CASE BatchWaits(id, k)
  <2>1. /\ UNCHANGED <<inbox, returned>> /\ held' = [held EXCEPT ![id] = Batch(id)]
        /\ getters' = [getters EXCEPT ![k] = Append(@, id)]
    BY <1>10 DEF BatchWaits
  <2>2. TaskInv' /\ Stays
    BY <1>1, <1>8, <1>10, BatchWaitsTasks
  <2>3. \A j \in Key : \A g \in Range(getters'[j]) :
          g \in Range(getters[j]) \/ (g = id /\ j = Call(id).key /\ Call(id).op # "get_nowait")
    BY <1>1, <2>1, GetterJoins
  <2>4. CommInv'
    <3>1. \A j \in Ids : (Issued(j) => Issued(j)') /\ (Issued(j) /\ Live(j)' => Live(j))
      BY <1>1, <2>2 DEF Issued, Stays
    <3> QED BY <1>1, <2>1, <3>1, KeepComm
  <2>5. ReplyData'
    BY <1>1, <2>1, ReplySame
  <2>6. \A j \in Ids : Replying(j)' => Replying(j) \/ j = id
    BY <2>1 DEF Replying
  <2> QED BY <1>1, <1>2, <1>3, <1>6, <1>7, <2>1, <2>2, <2>3, <2>4, <2>5, <2>6, GetRanStep
<1> QED BY <1>1, <1>9, <1>10

LEMMA BaseInit == ASSUME Init PROVE BaseInv
<1>1. TypeInv
  BY InitType
<1>2. ready = <<>> /\ submitted = {} /\ returned = {} /\ Range(ready) = {}
  BY DEF Init, Range
<1>3. \A k \in Key : getters[k] = <<>> /\ putters[k] = <<>> /\ queue[k] = <<>>
  BY DEF Init
<1>4. Range(<<>>) = {} /\ IsInjective(<<>>) /\ Len(<<>>) = 0
  BY DEF Range, IsInjective
<1>5. \A id : ~Live(id) /\ ~Replying(id)
  BY <1>2, <1>3, <1>4 DEF Live, Replying
<1>6. TaskInv
  BY <1>2, <1>3, <1>4, <1>5 DEF TaskInv
<1>7. IssuedInv
  <2> SUFFICES ASSUME NEW id \in Ids PROVE status[id] = "new" /\ ~Issued(id)
    BY <1>5 DEF IssuedInv
  <2>1. id[1] \in Client /\ id[2] \in Nat \ {0}
    BY <1>1, CallFacts DEF TypeInv
  <2> QED BY <2>1 DEF Init, Issued
<1>8. PendingInv /\ WaitInv
  BY <1>3, <1>4, <1>5 DEF PendingInv, WaitInv
<1>9. \A c \in Client : /\ \A k \in Key : chain[c][k] = <<>>
                        /\ recvs[c] = <<>> /\ inbox[c] = <<>>
  BY DEF Init
<1>10. ChainInv
  BY <1>4, <1>5, <1>9 DEF ChainInv
<1>11. \A id \in Ids : held[id] = <<>>
  BY DEF Init
<1>12. HeldInv
  BY <1>11 DEF HeldInv
<1>13. CommInv
  BY <1>2, <1>4, <1>9 DEF CommInv
<1>14. DataInv
  <2>1. \A id \in Gets : GoodData(id, held[id])
    <3> TAKE id \in Gets
    <3>1. held[id] = <<>> /\ Call(id).weight \in Nat
      BY <1>1, <1>11, CallFacts DEF Gets, TypeInv
    <3> QED BY <1>4, <3>1, WeightOfNothing DEF GoodData
  <2> QED BY <1>2, <1>3, <1>4, <1>9, <2>1 DEF DataInv
<1> QED BY <1>1, <1>6, <1>7, <1>8, <1>10, <1>12, <1>13, <1>14 DEF BaseInv

LEMMA BaseStutter == ASSUME BaseInv, UNCHANGED vars PROVE BaseInv'
<1> USE DEF BaseInv
<1>1. UNCHANGED <<setup, issued, status, result, chain, recvs, submitted, returned, sent,
                  inbox, ready, queue, getters, putters, held, taken>>
  BY DEF vars, client, wire, worker
<1>2. (\A j : Live(j)' <=> Live(j)) /\ (\A j : Replying(j)' <=> Replying(j)) /\ (\A j : Issued(j)' <=> Issued(j))
  BY <1>1 DEF Live, Replying, Issued
<1>3. NoNewTask
  BY <1>2 DEF NoNewTask
<1>4. TypeInv' /\ TaskInv'
  BY <1>1, <1>2, SetupFacts DEF TypeInv, TaskInv
<1>5. IssuedInv' /\ PendingInv' /\ ChainInv' /\ WaitInv'
  BY <1>1, <1>3, KeepIssued, KeepPending, KeepChain, KeepWait
<1>6. HeldInv' /\ CommInv' /\ DataInv'
  BY <1>1, <1>2, KeepHeld, KeepComm, KeepData
<1> QED BY <1>4, <1>5, <1>6

LEMMA BaseNext == ASSUME BaseInv, [Next]_vars PROVE BaseInv'
<1>1. \A r \in returned : PutCallback(r) \/ DriverReturn(r) => BaseInv'
  BY PutCallbackStep, DriverReturnStep
<1>2. \A id \in Ids : WorkerPut(id) \/ WorkerGet(id) \/ DriverCall(id) \/ Start(id) => BaseInv'
  BY WorkerPutStep, WorkerGetStep, DriverCallStep, StartStep
<1>3. \A id \in Ids : RunPut(id) \/ RunGet(id) \/ RunGetBatch(id) => BaseInv'
  BY RunPutStep, RunGetStep, RunBatchStep
<1>4. \A c \in Client : Deliver(c) => BaseInv'
  BY DeliverStep
<1> QED BY <1>1, <1>2, <1>3, <1>4, BaseStutter DEF Next, EventLoop

(***************************************************************************)
(* The tasks, futures, replies and items of a channel fit together at      *)
(* every moment: a call has at most one task or result, only the first     *)
(* unfinished put of a client and key runs (AsyncChannelWork), a task      *)
(* waits in the getters or putters of its own key's queue (asyncio.Queue), *)
(* and a reply is that of a get that has ended.                            *)
(***************************************************************************)
THEOREM ChannelBase == Spec => []BaseInv
<1> QED BY BaseInit, BaseNext, PTL DEF Spec

(***************************************************************************)
(* Every variable of the model keeps its type, whatever the clients call.  *)
(***************************************************************************)
THEOREM ChannelType == Spec => []TypeOK
<1>1. BaseInv => TypeOK
  <2> SUFFICES ASSUME TypeInv PROVE TypeOK
    BY DEF BaseInv
  <2>1. Puts \subseteq Ids /\ Gets \subseteq Ids
    BY DEF Puts, Gets
  <2>2. chain \in [Client -> [Key -> Seq(Ids)]]
    <3>1. Seq(Puts) \subseteq Seq(Ids)
      BY <2>1
    <3> QED BY <3>1 DEF TypeInv
  <2>3. recvs \in [Client -> Seq(Ids)]
    <3>1. Seq(Gets) \subseteq Seq(Ids)
      BY <2>1
    <3> QED BY <3>1 DEF TypeInv
  <2>4. \A r \in returned : r.id \in Ids /\ r.out \in {"ok", "raise"} /\ r.data \in Seq(Items)
    BY DEF TypeInv, Results
  <2>5. ASSUME NEW c \in Client, NEW n \in 1..Len(inbox[c])
        PROVE  inbox[c][n].query \in Ids \cup {<<>>} /\ inbox[c][n].data \in Seq(Items)
    <3>1. inbox[c][n] \in Replies
      BY DEF TypeInv
    <3> QED BY <2>1, <3>1 DEF Replies
  <2> QED BY <2>2, <2>3, <2>4, <2>5 DEF TypeInv, TypeOK
<1> QED BY <1>1, ChannelBase, PTL

-----------------------------------------------------------------------------
(* The replies of the synchronous gets.                                    *)

NoGet(c) ==
  /\ recvs[c] = <<>> /\ inbox[c] = <<>>
  /\ \A g \in Gets : g[1] = c => ~Live(g)

OneSyncGet(c) ==
  \E id \in Gets :
    /\ id[1] = c /\ ~Call(id).async /\ status[id] = "pending" /\ recvs[c] = <<id>>
    /\ \/ inbox[c] = <<>>
       \/ /\ Len(inbox[c]) = 1 /\ inbox[c][1].query \in {id, <<>>} /\ ~Live(id)
          /\ inbox[c][1].query = <<>> => Call(id).op = "get_nowait"
    /\ \A g \in Gets : g[1] = c /\ Live(g) => g = id

AsyncGets(c) ==
  /\ \E id \in Gets : id[1] = c /\ Issued(id) /\ Call(id).async
  /\ \A n \in 1..Len(recvs[c]) : \A g \in Gets : recvs[c][n] = g => Call(g).async

SyncInv == \A c \in Client \ Driver : NoGet(c) \/ OneSyncGet(c) \/ AsyncGets(c)

LEMMA KeepSync ==
    ASSUME SyncInv, UNCHANGED <<setup, recvs, inbox>>,
           \A g \in Gets : InWorker(g) =>
             (Live(g)' => Live(g)) /\ status'[g] = status[g] /\ (Issued(g) => Issued(g)')
    PROVE  SyncInv'
<1>1. \A j : Call(j)' = Call(j)
  BY DEF Call, Program
<1>2. Gets' = Gets
  BY SetupFacts
<1> SUFFICES ASSUME NEW c \in Client \ Driver
             PROVE  (NoGet(c) \/ OneSyncGet(c) \/ AsyncGets(c))'
  BY DEF SyncInv
<1>3. \A g \in Gets : g[1] = c =>
        (Live(g)' => Live(g)) /\ status'[g] = status[g] /\ (Issued(g) => Issued(g)')
  BY DEF InWorker
<1>4. CASE NoGet(c)
  BY <1>2, <1>3, <1>4 DEF NoGet
<1>5. CASE OneSyncGet(c)
  BY <1>1, <1>2, <1>3, <1>5 DEF OneSyncGet
<1>6. CASE AsyncGets(c)
  BY <1>1, <1>2, <1>3, <1>6 DEF AsyncGets
<1> QED BY <1>4, <1>5, <1>6 DEF SyncInv

LEMMA SyncWorkerGet ==
    ASSUME SyncGetsFirst, BaseInv, SyncInv, NEW id \in Ids, WorkerGet(id)
    PROVE  SyncInv'
<1> USE DEF BaseInv
<1> DEFINE d == id[1]
<1>1. d \in Client /\ d \notin Driver /\ id \in Gets /\ id = <<id[1], id[2]>> /\ id[2] \in 1..Len(Program[d])
      /\ InWorker(id) /\ Call(id).async \in BOOLEAN
  BY CallFacts DEF TypeInv, WorkerGet, InWorker
<1>2. /\ AtCall(id) /\ submitted' = submitted \cup {id}
      /\ recvs' = [recvs EXCEPT ![d] = Append(@, id)]
      /\ UNCHANGED <<setup, chain, returned, inbox, ready, queue, getters, putters, held>>
  BY DEF WorkerGet, worker
<1>3. /\ \A j \in Ids : Issued(j)' <=> (Issued(j) \/ j = id)
      /\ \A j : Live(j)' <=> (Live(j) \/ j = id)
  BY <1>1, <1>2, CallStep
<1>4. \A j : Call(j)' = Call(j)
  BY <1>2 DEF Call, Program
<1>5. Gets' = Gets /\ \A j \in Gets : j \in Ids
  BY <1>2, SetupFacts DEF Gets
<1>6. status' = [status EXCEPT ![id] = "pending"]
  BY <1>2 DEF AtCall
<1>7. ~Issued(id) /\ issued[d] \in Nat /\ id[2] = issued[d] + 1
  BY <1>1, <1>2, NewCall DEF AtCall, TypeInv
<1>8. recvs'[d] = Append(recvs[d], id) /\ recvs[d] \in Seq(Gets)
  BY <1>1, <1>2 DEF TypeInv
<1> HIDE DEF d
<1> SUFFICES ASSUME NEW c \in Client \ Driver
             PROVE  (NoGet(c) \/ OneSyncGet(c) \/ AsyncGets(c))'
  BY DEF SyncInv
<1>9. CASE c # d
  <2>1. recvs'[c] = recvs[c] /\ inbox'[c] = inbox[c]
    BY <1>1, <1>2, <1>9 DEF TypeInv
  <2>2. \A g \in Gets : g[1] = c =>
          (Live(g)' => Live(g)) /\ status'[g] = status[g] /\ (Issued(g) => Issued(g)')
    BY <1>3, <1>5, <1>6, <1>9 DEF TypeInv, d
  <2>3. CASE NoGet(c)
    BY <1>5, <2>1, <2>2, <2>3 DEF NoGet
  <2>4. CASE OneSyncGet(c)
    BY <1>4, <1>5, <2>1, <2>2, <2>4 DEF OneSyncGet
  <2>5. CASE AsyncGets(c)
    BY <1>4, <1>5, <2>1, <2>2, <2>5 DEF AsyncGets
  <2> QED BY <2>3, <2>4, <2>5 DEF SyncInv
<1>10. CASE c = d
  <2>1. CASE NoGet(c)
    <3>1. recvs'[c] = <<id>> /\ inbox'[c] = <<>>
      BY <1>2, <1>8, <1>10, <2>1 DEF NoGet
    <3>2. CASE Call(id).async
      <4>1. (\E j \in Gets : j[1] = c /\ Issued(j) /\ Call(j).async)'
        BY <1>1, <1>3, <1>4, <1>5, <1>10, <3>2 DEF d
      <4>2. (\A n \in 1..Len(recvs[c]) : \A g \in Gets : recvs[c][n] = g => Call(g).async)'
        BY <1>4, <1>5, <3>1, <3>2
      <4> QED BY <4>1, <4>2 DEF AsyncGets
    <3>3. CASE ~Call(id).async
      <4>1. status'[id] = "pending"
        BY <1>6 DEF TypeInv
      <4>2. \A g \in Gets : g[1] = c /\ Live(g)' => g = id
        BY <1>3, <2>1 DEF NoGet
      <4> QED BY <1>1, <1>4, <1>5, <1>10, <3>1, <3>3, <4>1, <4>2 DEF OneSyncGet, d
    <3> QED BY <3>2, <3>3
  <2>2. CASE OneSyncGet(c)
    <3>1. PICK j \in Gets : j[1] = c /\ ~Call(j).async /\ status[j] = "pending"
      BY <2>2 DEF OneSyncGet
    <3>2. Issued(j) /\ j[2] \in Nat \ {0} /\ j = <<c, j[2]>>
      BY <1>5, <3>1, CallFacts DEF IssuedInv, TypeInv
    <3>3. j[2] \in 1..issued[d]
      BY <1>7, <1>10, <3>1, <3>2 DEF Issued
    <3>4. \A i \in 1..issued[d] : Call(<<d, i>>).async \/ status[<<d, i>>] \in {"done", "raised"}
      BY <1>2 DEF AtCall, d
    <3> QED BY <1>10, <3>1, <3>2, <3>3, <3>4
  <2>3. CASE AsyncGets(c)
    <3>1. PICK j \in Gets : j[1] = c /\ Issued(j) /\ Call(j).async
      BY <2>3 DEF AsyncGets
    <3>2. j[2] \in 1..Len(Program[d]) /\ j[2] <= issued[d] /\ j[2] \in Nat /\ j = <<j[1], j[2]>>
      BY <1>5, <1>10, <3>1, CallFacts DEF TypeInv, Issued
    <3>3. j[2] < id[2]
      BY <1>7, <3>2
    <3>4. Program[d][j[2]].async /\ IsGet(Program[d][j[2]]) /\ IsGet(Program[d][id[2]])
      BY <1>1, <1>10, <3>1 DEF Call, IsGet, Gets, Puts, d
    <3>5. Call(id).async
      BY <1>1, <3>2, <3>3, <3>4 DEF SyncGetsFirst, Program, Call, TypeInv, d
    <3>6. (\E i \in Gets : i[1] = c /\ Issued(i) /\ Call(i).async)'
      BY <1>1, <1>3, <1>4, <1>5, <1>10, <3>5 DEF d
    <3>7. ASSUME NEW n \in 1..Len(recvs'[c]), NEW g \in Gets, recvs'[c][n] = g
          PROVE  Call(g).async
      <4>1. Len(recvs[c]) \in Nat /\ Len(recvs'[c]) = Len(recvs[c]) + 1
        BY <1>8, <1>10
      <4>2. CASE n = Len(recvs[c]) + 1
        BY <1>1, <1>8, <1>10, <3>5, <3>7, <4>2
      <4>3. CASE n \in 1..Len(recvs[c])
        BY <1>1, <1>8, <1>10, <2>3, <3>7, <4>3 DEF AsyncGets
      <4> QED BY <4>1, <4>2, <4>3
    <3> QED BY <1>4, <1>5, <3>6, <3>7 DEF AsyncGets
  <2> QED BY <2>1, <2>2, <2>3 DEF SyncInv
<1> QED BY <1>9, <1>10

LEMMA SyncDeliver ==
    ASSUME BaseInv, SyncInv, NEW d \in Client, Deliver(d)
    PROVE  SyncInv'
<1> USE DEF BaseInv
<1>1. /\ recvs[d] # <<>> /\ inbox[d] # <<>>
      /\ recvs[d] \in Seq(Gets) /\ inbox[d] \in Seq(Replies)
      /\ recvs' = [recvs EXCEPT ![d] = Tail(@)]
      /\ inbox' = [inbox EXCEPT ![d] = Tail(@)]
      /\ UNCHANGED <<setup, issued, chain, submitted, returned, sent, ready, queue, getters, putters, held, taken>>
  BY DeliverFacts
<1>2. \/ UNCHANGED status
      \/ \E to \in Gets : /\ to[1] = d
                          /\ \E s \in {"raised", "done"} : status' = [status EXCEPT ![to] = s]
  BY DeliverFacts
<1>3. Gets' = Gets /\ \A j \in Gets : j \in Ids
  BY <1>1, SetupFacts DEF Gets
<1>4. (\A j : Live(j)' <=> Live(j)) /\ (\A j : Issued(j)' <=> Issued(j)) /\ (\A j : Call(j)' = Call(j))
  BY <1>1 DEF Live, Issued, Call, Program
<1> SUFFICES ASSUME NEW c \in Client \ Driver
             PROVE  (NoGet(c) \/ OneSyncGet(c) \/ AsyncGets(c))'
  BY DEF SyncInv
<1>5. CASE c # d
  <2>1. recvs'[c] = recvs[c] /\ inbox'[c] = inbox[c]
    BY <1>1, <1>5 DEF TypeInv
  <2>2. \A g \in Gets : g[1] = c => status'[g] = status[g]
    BY <1>2, <1>3, <1>5 DEF TypeInv
  <2>3. CASE NoGet(c)
    BY <1>3, <1>4, <2>1, <2>3 DEF NoGet
  <2>4. CASE OneSyncGet(c)
    BY <1>3, <1>4, <2>1, <2>2, <2>4 DEF OneSyncGet
  <2>5. CASE AsyncGets(c)
    BY <1>3, <1>4, <2>1, <2>5 DEF AsyncGets
  <2> QED BY <2>3, <2>4, <2>5 DEF SyncInv
<1>6. CASE c = d
  <2>1. recvs'[c] = Tail(recvs[c]) /\ inbox'[c] = Tail(inbox[c])
    BY <1>1, <1>6 DEF TypeInv
  <2>2. CASE NoGet(c)
    BY <1>1, <1>6, <2>2 DEF NoGet
  <2>3. CASE OneSyncGet(c)
    <3>1. PICK id \in Gets :
            /\ recvs[c] = <<id>>
            /\ Len(inbox[c]) = 1 /\ ~Live(id)
            /\ \A g \in Gets : g[1] = c /\ Live(g) => g = id
      BY <1>1, <1>6, <2>3 DEF OneSyncGet
    <3>2. Tail(recvs[c]) = <<>>
      BY <3>1
    <3>3. Tail(inbox[c]) = <<>>
      <4> DEFINE q == inbox[c]
      <4>1. q \in Seq(Replies) /\ Len(q) = 1 /\ q # <<>>
        BY <1>1, <1>6, <3>1
      <4> HIDE DEF q
      <4>2. Tail(q) \in Seq(Replies) /\ Len(Tail(q)) = 0
        BY <4>1
      <4>3. \A t \in Seq(Replies) : Len(t) = 0 => t = <<>>
        OBVIOUS
      <4> QED BY <4>2, <4>3 DEF q
    <3> QED BY <1>3, <1>4, <2>1, <3>1, <3>2, <3>3 DEF NoGet
  <2>4. CASE AsyncGets(c)
    <3>1. Len(recvs'[c]) = Len(recvs[c]) - 1 /\ \A n \in 1..(Len(recvs[c]) - 1) :
            n + 1 \in 1..Len(recvs[c]) /\ recvs'[c][n] = recvs[c][n + 1]
      <4>1. recvs[c] \in Seq(Gets) /\ recvs[c] # <<>>
        BY <1>1, <1>6
      <4>2. Len(Tail(recvs[c])) = Len(recvs[c]) - 1 /\ \A n \in 1..(Len(recvs[c]) - 1) :
              n + 1 \in 1..Len(recvs[c]) /\ Tail(recvs[c])[n] = recvs[c][n + 1]
        BY <4>1, TailFacts
      <4> QED BY <2>1, <4>2
    <3> QED BY <1>3, <1>4, <2>4, <3>1 DEF AsyncGets
  <2> QED BY <2>2, <2>3, <2>4 DEF SyncInv
<1> QED BY <1>5, <1>6

(* A get runs.                                                             *)
LEMMA SyncAnswer ==
    ASSUME BaseInv, SyncInv, NEW id \in Gets, Live(id), Ended(id), NEW q \in {id, <<>>}, NEW data,
           q = <<>> => Call(id).op = "get_nowait",
           Answer(id, q, data), UNCHANGED <<setup, issued, status, recvs>>
    PROVE  SyncInv'
<1> USE DEF BaseInv
<1>1. Gets' = Gets /\ \A j \in Gets : j \in Ids
  BY SetupFacts DEF Gets
<1>2. (\A j : Live(j)' => Live(j) /\ j # id) /\ (\A j : Issued(j)' <=> Issued(j)) /\ (\A j : Call(j)' = Call(j))
  BY DEF Ended, Issued, Call, Program
<1>3. id[1] \in Client
  BY <1>1, CallFacts DEF TypeInv
<1> SUFFICES ASSUME NEW c \in Client \ Driver
             PROVE  (NoGet(c) \/ OneSyncGet(c) \/ AsyncGets(c))'
  BY DEF SyncInv
<1>4. CASE c # id[1]
  <2>1. inbox'[c] = inbox[c]
    BY <1>3, <1>4 DEF Answer, TypeInv
  <2>2. CASE NoGet(c)
    BY <1>1, <1>2, <2>1, <2>2 DEF NoGet
  <2>3. CASE OneSyncGet(c)
    BY <1>1, <1>2, <2>1, <2>3 DEF OneSyncGet
  <2>4. CASE AsyncGets(c)
    BY <1>1, <1>2, <2>4 DEF AsyncGets
  <2> QED BY <2>2, <2>3, <2>4 DEF SyncInv
<1>5. CASE c = id[1]
  <2>1. CASE NoGet(c)
    BY <1>5, <2>1 DEF NoGet
  <2>2. CASE OneSyncGet(c)
    <3>1. PICK j \in Gets :
            /\ j[1] = c /\ ~Call(j).async /\ status[j] = "pending" /\ recvs[c] = <<j>>
            /\ inbox[c] = <<>> \/ ~Live(j)
            /\ \A g \in Gets : g[1] = c /\ Live(g) => g = j
      BY <2>2 DEF OneSyncGet
    <3>2. j = id /\ inbox[c] = <<>>
      BY <1>5, <3>1
    <3>3. inbox'[c] = <<[query |-> q, data |-> data]>>
      BY <1>3, <1>5, <3>2 DEF Answer, InWorker, TypeInv
    <3>4. Len(inbox'[c]) = 1 /\ inbox'[c][1].query = q
      BY <3>3
    <3> QED BY <1>1, <1>2, <3>1, <3>2, <3>4 DEF OneSyncGet
  <2>3. CASE AsyncGets(c)
    BY <1>1, <1>2, <2>3 DEF AsyncGets
  <2> QED BY <2>1, <2>2, <2>3 DEF SyncInv
<1> QED BY <1>4, <1>5

LEMMA SyncNext ==
    ASSUME SyncGetsFirst, BaseInv, SyncInv, [Next]_vars
    PROVE  SyncInv'
<1> USE DEF BaseInv
<1>1. \A g \in Gets : g \in Ids /\ g \notin Puts
  BY DEF Gets
<1>11. \A g \in Gets : g # <<>>
  BY <1>1, CallFacts DEF TypeInv
<1>2. ASSUME NEW id \in Ids, WorkerPut(id) PROVE SyncInv'
  <2>1. /\ id \in Puts /\ AtCall(id) /\ UNCHANGED <<setup, recvs, inbox, ready, getters, putters>>
        /\ submitted' = submitted \cup Executes(chain[id[1]][Call(id).key], id)
    BY <1>2 DEF WorkerPut, worker
  <2>2. \A g \in Gets : Live(g)' => Live(g)
    BY <1>1, <2>1 DEF Live, Executes
  <2>3. \A g \in Gets : status'[g] = status[g] /\ (Issued(g) => Issued(g)')
    <3>1. \A g \in Gets : status'[g] = status[g]
      BY <1>1, <2>1 DEF AtCall, TypeInv
    <3>2. \A g \in Gets : Issued(g) => Issued(g)'
      BY <1>1, <2>1, NewCall DEF Issued
    <3> QED BY <3>1, <3>2
  <2> QED BY <2>1, <2>2, <2>3, KeepSync
<1>3. ASSUME NEW id \in Ids, DriverCall(id) PROVE SyncInv'
  <2>1. /\ ~InWorker(id) /\ AtCall(id) /\ UNCHANGED <<setup, recvs, inbox, ready, getters, putters>>
        /\ submitted' = submitted \cup {id}
    BY <1>3 DEF DriverCall, worker
  <2>2. \A g \in Gets : InWorker(g) => (Live(g)' => Live(g))
    BY <2>1 DEF Live
  <2>3. \A g \in Gets : InWorker(g) => status'[g] = status[g]
    BY <1>1, <2>1 DEF AtCall, TypeInv
  <2>4. \A g \in Gets : Issued(g) => Issued(g)'
    BY <1>1, <2>1, NewCall DEF Issued
  <2> QED BY <2>1, <2>2, <2>3, <2>4, KeepSync
<1>4. ASSUME NEW id \in Ids, Start(id) PROVE SyncInv'
  <2>1. UNCHANGED <<setup, issued, status, recvs, inbox>>
    BY <1>4 DEF Start, client
  <2>2. Stays
    BY <1>4, StartTasks
  <2> QED BY <2>1, <2>2, KeepSync DEF Stays, Issued
<1>5. ASSUME NEW r \in returned, PutCallback(r) PROVE SyncInv'
  <2> DEFINE f == chain[r.id[1]][Call(r.id).key]
  <2>1. /\ UNCHANGED <<setup, issued, recvs, inbox, ready, getters, putters>> /\ InWorker(r.id)
        /\ UNCHANGED <<status, submitted>>
           \/ (status' = [status EXCEPT ![r.id] = "done"] /\ submitted' = submitted \cup Chained(f))
    BY <1>5 DEF PutCallback, worker
  <2>2. r.id \in Ids /\ r.id \in Puts
    <3>1. r.id \in Ids
      BY DEF TypeInv, Results
    <3> QED BY <2>1, <3>1 DEF CommInv
  <2>3. f \in Seq(Puts)
    <3>1. r.id[1] \in Client /\ Call(r.id).key \in Key
      BY <2>2, CallFacts DEF TypeInv
    <3> QED BY <3>1 DEF TypeInv
  <2> HIDE DEF f
  <2>4. Chained(f) \subseteq Puts
    BY <2>3 DEF Chained
  <2>5. \A g \in Gets : Live(g)' => Live(g)
    BY <1>1, <2>1, <2>4 DEF Live
  <2>6. \A g \in Gets : status'[g] = status[g] /\ (Issued(g) => Issued(g)')
    BY <1>1, <2>1, <2>2 DEF TypeInv, Issued
  <2> QED BY <2>1, <2>5, <2>6, KeepSync
<1>6. ASSUME NEW r \in returned, DriverReturn(r) PROVE SyncInv'
  <2>1. /\ UNCHANGED <<setup, issued, recvs, inbox, submitted, ready, getters, putters>> /\ ~InWorker(r.id)
        /\ \E s \in {"raised", "done"} : status' = [status EXCEPT ![r.id] = s]
    BY <1>6 DEF DriverReturn, worker
  <2>2. \A g \in Gets : (Live(g)' <=> Live(g)) /\ (Issued(g)' <=> Issued(g))
    BY <2>1 DEF Live, Issued
  <2>3. \A g \in Gets : InWorker(g) => status'[g] = status[g]
    BY <1>1, <2>1 DEF TypeInv
  <2> QED BY <2>1, <2>2, <2>3, KeepSync
<1>7. ASSUME NEW id \in Ids, RunPut(id) PROVE SyncInv'
  <2>1. UNCHANGED <<setup, issued, status, recvs, inbox>>
    BY <1>7, RunPutFacts
  <2>2. \A g : Live(g)' => Live(g)
    <3>1. Stays \/ Ended(id)
      BY <1>7, RunPutTasks
    <3> QED BY <3>1 DEF Stays, Ended
  <2> QED BY <2>1, <2>2, KeepSync DEF Issued
<1>8. ASSUME NEW id \in Ids, RunGet(id) PROVE SyncInv'
  <2> DEFINE k == Call(id).key
  <2>1. /\ id \in Gets /\ ready # <<>> /\ Head(ready) = id /\ k \in Key
        /\ GetTakes(id, k) \/ GetWaits(id, k) \/ GetFails(id, k)
        /\ UNCHANGED <<setup, issued, status, result, chain, recvs, submitted, sent, held>>
    BY <1>8, RunGetFacts
  <2>2. Live(id)
    BY <2>1, RunningGet
  <2> HIDE DEF k
  <2>3. CASE GetTakes(id, k)
    <3>1. Answer(id, id, <<Head(queue[k])>>) /\ TakeItems(k, 1) /\ UNCHANGED getters
      BY <2>3 DEF GetTakes
    <3>2. UNCHANGED returned \/ \E r : r.id = id /\ returned' = returned \cup {r}
      BY <3>1, AnswerReturned
    <3>3. Ended(id)
      <4>1. 1 \in Nat
        OBVIOUS
      <4> QED BY <2>1, <3>1, <3>2, <4>1, TakeTasks
    <3> QED BY <1>11, <2>1, <2>2, <3>1, <3>3, SyncAnswer
  <2>4. CASE GetWaits(id, k)
    <3>1. Stays /\ UNCHANGED inbox
      BY <2>1, <2>4, GetWaitsTasks DEF GetWaits
    <3> QED BY <2>1, <3>1, KeepSync DEF Stays, Issued
  <2>5. CASE GetFails(id, k)
    <3>1. /\ Answer(id, <<>>, <<>>) /\ ready' = Tail(ready) /\ UNCHANGED <<putters, getters>>
          /\ Call(id).op = "get_nowait"
      BY <2>5 DEF GetFails
    <3>2. UNCHANGED returned \/ \E r : r.id = id /\ returned' = returned \cup {r}
      BY <3>1, AnswerReturned
    <3>3. Ended(id)
      BY <2>1, <3>1, <3>2, GetFailsTasks
    <3> QED BY <1>11, <2>1, <2>2, <3>1, <3>3, SyncAnswer
  <2> QED BY <2>1, <2>3, <2>4, <2>5
<1>9. ASSUME NEW id \in Ids, RunGetBatch(id) PROVE SyncInv'
  <2> DEFINE k == Call(id).key
             n == BatchSize(id)
  <2>1. /\ id \in Gets /\ ready # <<>> /\ Head(ready) = id /\ k \in Key
        /\ n \in 0..Len(queue[k])
        /\ TakeItems(k, n) /\ (BatchEnds(id, k) \/ BatchWaits(id, k))
        /\ UNCHANGED <<setup, issued, status, result, chain, recvs, submitted, sent>>
    BY <1>9, RunBatchFacts
  <2>2. Live(id)
    BY <2>1, RunningGet
  <2>3. n \in Nat
    <3>1. Len(queue[k]) \in Nat
      BY <2>1 DEF TypeInv
    <3> HIDE DEF k, n
    <3> QED BY <2>1, <3>1
  <2> HIDE DEF k, n
  <2>4. CASE BatchEnds(id, k)
    <3>1. Answer(id, id, Batch(id)) /\ UNCHANGED getters
      BY <2>4 DEF BatchEnds
    <3>2. UNCHANGED returned \/ \E r : r.id = id /\ returned' = returned \cup {r}
      BY <3>1, AnswerReturned
    <3>3. Ended(id)
      BY <2>1, <2>3, <3>1, <3>2, TakeTasks
    <3> QED BY <1>11, <2>1, <2>2, <3>1, <3>3, SyncAnswer
  <2>5. CASE BatchWaits(id, k)
    <3>1. Stays /\ UNCHANGED inbox
      BY <2>1, <2>3, <2>5, BatchWaitsTasks DEF BatchWaits
    <3> QED BY <2>1, <3>1, KeepSync DEF Stays, Issued
  <2> QED BY <2>1, <2>4, <2>5
<1>10. CASE UNCHANGED vars
  <2>1. UNCHANGED <<setup, issued, status, recvs, submitted, inbox, ready, getters, putters>>
    BY <1>10 DEF vars, client, wire, worker
  <2> QED BY <2>1, KeepSync DEF Live, Issued
<1> QED BY <1>2, <1>3, <1>4, <1>5, <1>6, <1>7, <1>8, <1>9, <1>10, SyncWorkerGet, SyncDeliver DEF Next, EventLoop

(* What the gets have returned.                                            *)
ResultInv == \A id \in Gets : GoodData(id, result[id])

LEMMA ResultNext ==
    ASSUME BaseInv, SyncInv, ResultInv, [Next]_vars
    PROVE  ResultInv'
<1> USE DEF BaseInv
<1>1. \A g \in Gets : g \in Ids
  BY DEF Gets
<1>2. ASSUME UNCHANGED <<setup, result>> PROVE ResultInv'
  <2>1. \A j : Call(j)' = Call(j)
    BY <1>2 DEF Call, Program
  <2> QED BY <1>2, <2>1, SetupFacts DEF ResultInv, GoodData
<1>3. ASSUME NEW to \in Ids, NEW data, to \in Gets => GoodData(to, data), setup' = setup,
             result' = [result EXCEPT ![to] = data]
      PROVE  ResultInv'
  <2>1. \A j : Call(j)' = Call(j)
    BY <1>3 DEF Call, Program
  <2>2. \A g \in Gets : GoodData(g, result'[g])
    BY <1>1, <1>3 DEF ResultInv, TypeInv
  <2>3. Gets' = Gets
    BY <1>3, SetupFacts
  <2> QED BY <2>1, <2>2, <2>3 DEF ResultInv, GoodData
<1>4. ASSUME NEW r \in returned, DriverReturn(r) PROVE ResultInv'
  <2>1. /\ r.id \in Ids /\ setup' = setup
        /\ result' = [result EXCEPT ![r.id] = r.data]
    BY <1>4 DEF DriverReturn, TypeInv, Results
  <2>2. r.id \in Gets => GoodData(r.id, r.data)
    BY DEF DataInv
  <2> QED BY <1>3, <2>1, <2>2
<1>5. ASSUME NEW c \in Client, Deliver(c) PROVE ResultInv'
  <2> DEFINE id == Head(recvs[c])
             m == Head(inbox[c])
  <2>1. /\ recvs[c] # <<>> /\ inbox[c] # <<>> /\ InWorker(id)
        /\ recvs[c] \in Seq(Gets) /\ inbox[c] \in Seq(Replies)
        /\ id \in Gets /\ id[1] = c /\ m \in Replies /\ setup' = setup
        /\ \/ UNCHANGED <<status, result>>
           \/ \E to \in Gets :
                /\ to = Recipient(id, m)
                /\ to = id \/ Call(to).async
                /\ result' = [result EXCEPT ![to] = m.data]
    BY <1>5, DeliverFacts
  <2>2. id = recvs[c][1] /\ 1 \in 1..Len(recvs[c]) /\ m = inbox[c][1] /\ 1 \in 1..Len(inbox[c])
    BY <2>1
  <2>3. c \in Client \ Driver
    BY <2>1 DEF InWorker
  <2>4. (\A g \in Gets : m.query = g => GoodData(g, m.data)) /\ (m.query = <<>> => m.data = <<>>)
    BY <2>2 DEF DataInv
  <2>5. GoodData(id, <<>>)
    <3>1. Call(id).weight \in Nat
      BY <1>1, <2>1, CallFacts DEF TypeInv
    <3>2. Len(<<>>) = 0
      OBVIOUS
    <3> HIDE DEF id
    <3> QED BY <3>1, <3>2, WeightOfNothing DEF GoodData
  <2>6. ~Call(id).async => m.query \in {id, <<>>}
    <3>1. CASE NoGet(c)
      BY <2>1, <3>1 DEF NoGet
    <3>2. CASE OneSyncGet(c)
      BY <2>1, <2>2, <3>2 DEF OneSyncGet
    <3>3. CASE AsyncGets(c)
      BY <2>1, <2>2, <3>3 DEF AsyncGets
    <3> QED BY <2>3, <3>1, <3>2, <3>3 DEF SyncInv
  <2> HIDE DEF id, m
  <2>7. ASSUME NEW to \in Gets, to = Recipient(id, m), result' = [result EXCEPT ![to] = m.data]
        PROVE  ResultInv'
    <3>1. GoodData(to, m.data)
      <4>1. CASE Call(id).async
        BY <2>4, <2>7, <4>1 DEF Recipient
      <4>2. CASE ~Call(id).async
        BY <2>1, <2>4, <2>5, <2>6, <2>7, <4>2 DEF Recipient
      <4> QED BY <4>1, <4>2
    <3> QED BY <1>1, <1>3, <2>1, <2>7, <3>1
  <2> QED BY <1>2, <2>1, <2>7
<1>6. ASSUME NEW id \in Ids, RunPut(id) \/ RunGet(id) \/ RunGetBatch(id) PROVE ResultInv'
  <2>1. UNCHANGED <<setup, result>>
    BY <1>6, RunPutFacts, RunGetFacts, RunBatchFacts
  <2> QED BY <1>2, <2>1
<1>7. ASSUME NEW id \in Ids, WorkerPut(id) \/ WorkerGet(id) \/ DriverCall(id) \/ Start(id) PROVE ResultInv'
  BY <1>2, <1>7 DEF WorkerPut, WorkerGet, DriverCall, Start, client
<1>8. ASSUME NEW r \in returned, PutCallback(r) PROVE ResultInv'
  BY <1>2, <1>8 DEF PutCallback
<1>9. CASE UNCHANGED vars
  BY <1>2, <1>9 DEF vars, client
<1> QED BY <1>4, <1>5, <1>6, <1>7, <1>8, <1>9 DEF Next, EventLoop

LEMMA SyncInit == ASSUME Init PROVE SyncInv
<1>1. \A c \in Client : recvs[c] = <<>> /\ inbox[c] = <<>>
  BY DEF Init
<1>2. \A g \in Gets : ~Live(g)
  BY DEF Init, Live, Range
<1> QED BY <1>1, <1>2 DEF SyncInv, NoGet

LEMMA ResultInit == ASSUME Init PROVE ResultInv
<1>1. \A g \in Gets : result[g] = <<>> /\ Call(g).weight \in Nat
  <2>1. \A g \in Gets : g \in Ids
    BY DEF Gets
  <2> QED BY <2>1, BaseInit, CallFacts DEF Init, BaseInv, TypeInv
<1>2. Len(<<>>) = 0
  OBVIOUS
<1> QED BY <1>1, <1>2, WeightOfNothing DEF ResultInv, GoodData

(***************************************************************************)
(* A get returns items of its own key, although a client's replies share   *)
(* one link and are claimed by the oldest recv (AsyncChannelCommWork),     *)
(* when no worker makes a synchronous get after an asynchronous one.       *)
(***************************************************************************)
THEOREM ChannelRightItems ==
    ASSUME SyncGetsFirst
    PROVE  Spec => []RightItems
<1> DEFINE Inv == BaseInv /\ SyncInv /\ ResultInv
<1>1. Init => Inv
  <2> SUFFICES ASSUME Init PROVE Inv
    OBVIOUS
  <2>1. BaseInv
    BY BaseInit
  <2>2. SyncInv
    BY SyncInit
  <2>3. ResultInv
    BY ResultInit
  <2> QED BY <2>1, <2>2, <2>3
<1>2. Inv /\ [Next]_vars => Inv'
  BY BaseNext, SyncNext, ResultNext
<1>3. Inv => RightItems
  BY DEF ResultInv, GoodData, RightItems
<1> QED BY <1>1, <1>2, <1>3, PTL DEF Spec

-----------------------------------------------------------------------------
(* The order of each client's items.                                       *)

Line(k) == taken[k] \o queue[k]

SentInv ==
  \A c \in Client :
    /\ c \in Driver => sent[c] = <<>>
    /\ \A y \in Range(sent[c]) : y.id[1] = c /\ y.id[2] <= issued[c]
    /\ \A m, n \in 1..Len(sent[c]) : m < n => sent[c][m].id[2] < sent[c][n].id[2]

LineInv ==
  \A k \in Key :
    /\ \A m, n \in 1..Len(Line(k)) :
         m < n /\ Line(k)[m].id[1] = Line(k)[n].id[1] => Line(k)[m].id[2] < Line(k)[n].id[2]
    /\ \A x \in Range(Line(k)) : \A c \in Client : x.id[1] = c =>
         /\ x.id[2] <= issued[c]
         /\ \A y \in Range(sent[c]) : x.id[2] < y.id[2]
         /\ \A p \in Puts : p[1] = c /\ ~InWorker(p) /\ Live(p) => x.id[2] < p[2]
         /\ \A p \in Puts : p[1] = c /\ held[p] # <<>> => x.id[2] < held[p][1].id[2]

HeldFifo ==
  \A c \in Client : \A p \in Puts : p[1] = c /\ held[p] # <<>> =>
    /\ MaxSize > 0 /\ held[p][1].id[1] = c /\ held[p][1].id[2] <= issued[c]
    /\ ~InWorker(p) => held[p][1] = Item(p)
    /\ \A y \in Range(sent[c]) : held[p][1].id[2] < y.id[2]

DriverInv ==
  \A c \in Client : \A p \in Puts : p[1] = c /\ ~InWorker(p) /\ Live(p) => p[2] = issued[c]

FifoInv == SentInv /\ LineInv /\ HeldFifo /\ DriverInv

LEMMA LineType == ASSUME TypeInv PROVE \A k \in Key : Line(k) \in Seq(Items)
  BY DEF TypeInv, Line

(* Taking items from a queue does not change the line.                     *)
LEMMA LineTake ==
    ASSUME TypeInv, NEW k \in Key, NEW n \in 0..Len(queue[k]), TakeItems(k, n)
    PROVE  \A j \in Key : Line(j)' = Line(j)
<1> DEFINE q == queue[k]
           t == taken[k]
           u == SubSeq(q, 1, n)
           v == SubSeq(q, n + 1, Len(q))
<1>1. q \in Seq(Items) /\ t \in Seq(Items) /\ Len(q) \in Nat /\ n \in 0..Len(q)
  BY DEF TypeInv
<1>2. \A j \in Key : j # k => queue'[j] = queue[j] /\ taken'[j] = taken[j]
  BY DEF TakeItems, TypeInv
<1>3. queue'[k] = v /\ taken'[k] = t \o u
  BY DEF TakeItems, TypeInv
<1> HIDE DEF q, t
<1>4. u \o v = SubSeq(q, 1, Len(q))
  <2>1. 1 \in 1..Len(q) + 1 /\ n \in (1 - 1)..Len(q) /\ Len(q) \in n..Len(q)
    BY <1>1
  <2> QED BY <1>1, <2>1, ConcatAdjacentSubSeq
<1>5. SubSeq(q, 1, Len(q)) = q
  BY <1>1, SubSeqFull
<1>6. u \in Seq(Items) /\ v \in Seq(Items)
  BY <1>1
<1> HIDE DEF u, v
<1>7. (t \o u) \o v = t \o q
  <2>1. (t \o u) \o v = t \o (u \o v)
    BY <1>1, <1>6, ConcatAssociative
  <2>2. u \o v = q
    BY <1>4, <1>5, Zenon
  <2> QED BY <2>1, <2>2, Zenon
<1> QED BY <1>2, <1>3, <1>7 DEF Line, q, t

(* Putting an item extends it.                                             *)
LEMMA LinePut ==
    ASSUME TypeInv, NEW k \in Key, NEW x \in Items, taken' = taken,
           queue' = [queue EXCEPT ![k] = Append(@, x)]
    PROVE  /\ Line(k)' = Append(Line(k), x)
           /\ \A j \in Key : j # k => Line(j)' = Line(j)
<1> DEFINE q == queue[k]
           t == taken[k]
<1>1. q \in Seq(Items) /\ t \in Seq(Items)
  BY DEF TypeInv
<1>2. queue'[k] = Append(q, x) /\ taken'[k] = t /\ \A j \in Key : j # k => queue'[j] = queue[j]
  BY DEF TypeInv
<1> HIDE DEF q, t
<1>3. t \o Append(q, x) = Append(t \o q, x)
  BY <1>1
<1> QED BY <1>2, <1>3 DEF Line, q, t

(* Every step but those that put.                                          *)
LEMMA KeepFifo ==
    ASSUME BaseInv, FifoInv, UNCHANGED <<setup, sent>>, \A k \in Key : Line(k)' = Line(k),
           \A c \in Client : issued'[c] \in Nat /\ issued[c] <= issued'[c] /\ (c \in Driver => issued'[c] = issued[c]),
           \A p \in Puts : held'[p] = held[p] /\ (~InWorker(p) /\ Live(p)' => Live(p))
    PROVE  FifoInv'
<1>1. /\ \A j : Call(j)' = Call(j) /\ InWorker(j)' = InWorker(j) /\ Item(j)' = Item(j)
      /\ MaxSize' = MaxSize /\ Puts' = Puts
  BY SetupFacts DEF Call, Program, InWorker, Item
<1>2. \A c \in Client : issued[c] \in Nat /\ \A y \in Range(sent[c]) : y.id[2] \in Nat
  <2> TAKE c \in Client
  <2>1. sent[c] \in Seq(Items) /\ issued[c] \in Nat
    BY DEF BaseInv, TypeInv
  <2> QED BY <2>1, ItemFacts DEF Range, BaseInv, TypeInv
<1>3. \A k \in Key : \A x \in Range(Line(k)) : x.id[2] \in Nat /\ x.id[1] \in Client
  <2> TAKE k \in Key
  <2>1. Line(k) \in Seq(Items)
    BY LineType DEF BaseInv
  <2> QED BY <2>1, ItemFacts DEF Range, BaseInv, TypeInv
<1>4. \A p \in Puts : held[p] # <<>> => held[p][1].id[2] \in Nat
  <2> TAKE p \in Puts
  <2>1. held[p] \in Seq(Items)
    BY DEF BaseInv, TypeInv, Puts
  <2> QED BY <2>1, ItemFacts DEF BaseInv, TypeInv
<1>5. SentInv'
  BY <1>2 DEF FifoInv, SentInv
<1>6. LineInv'
  <2> SUFFICES ASSUME NEW k \in Key
               PROVE  /\ \A m, n \in 1..Len(Line(k)) :
                           m < n /\ Line(k)[m].id[1] = Line(k)[n].id[1] => Line(k)[m].id[2] < Line(k)[n].id[2]
                      /\ \A x \in Range(Line(k)) : \A c \in Client : x.id[1] = c =>
                           /\ x.id[2] <= issued'[c]
                           /\ \A y \in Range(sent[c]) : x.id[2] < y.id[2]
                           /\ \A p \in Puts : p[1] = c /\ ~InWorker(p) /\ Live(p)' => x.id[2] < p[2]
                           /\ \A p \in Puts : p[1] = c /\ held'[p] # <<>> => x.id[2] < held'[p][1].id[2]
    BY <1>1 DEF LineInv
  <2>1. \A m, n \in 1..Len(Line(k)) :
          m < n /\ Line(k)[m].id[1] = Line(k)[n].id[1] => Line(k)[m].id[2] < Line(k)[n].id[2]
    BY DEF FifoInv, LineInv
  <2>2. ASSUME NEW x \in Range(Line(k)), NEW c \in Client, x.id[1] = c
        PROVE  /\ x.id[2] <= issued'[c]
               /\ \A y \in Range(sent[c]) : x.id[2] < y.id[2]
               /\ \A p \in Puts : p[1] = c /\ ~InWorker(p) /\ Live(p)' => x.id[2] < p[2]
               /\ \A p \in Puts : p[1] = c /\ held'[p] # <<>> => x.id[2] < held'[p][1].id[2]
    <3>1. x.id[2] <= issued[c] /\ issued[c] <= issued'[c]
      BY <2>2 DEF FifoInv, LineInv
    <3>2. x.id[2] <= issued'[c]
      BY <1>2, <1>3, <3>1
    <3> QED BY <2>2, <3>2 DEF FifoInv, LineInv
  <2> QED BY <2>1, <2>2
<1>7. HeldFifo'
  <2> SUFFICES ASSUME NEW c \in Client, NEW p \in Puts, p[1] = c, held[p] # <<>>
               PROVE  /\ MaxSize > 0 /\ held[p][1].id[1] = c /\ held[p][1].id[2] <= issued'[c]
                      /\ ~InWorker(p) => held[p][1] = Item(p)
                      /\ \A y \in Range(sent[c]) : held[p][1].id[2] < y.id[2]
    BY <1>1 DEF HeldFifo
  <2>1. held[p][1].id[2] <= issued[c] /\ issued[c] <= issued'[c]
    BY DEF FifoInv, HeldFifo
  <2>2. held[p][1].id[2] <= issued'[c]
    BY <1>2, <1>4, <2>1
  <2> QED BY <2>2 DEF FifoInv, HeldFifo
<1>8. DriverInv'
  BY <1>1 DEF FifoInv, DriverInv, InWorker
<1> QED BY <1>5, <1>6, <1>7, <1>8 DEF FifoInv

(* The numbers that are compared.                                          *)
LEMMA FifoTypes ==
    ASSUME BaseInv
    PROVE  /\ \A c \in Client : issued[c] \in Nat /\ \A y \in Range(sent[c]) : y.id[2] \in Nat
           /\ \A k \in Key : \A x \in Range(Line(k)) : x.id[2] \in Nat /\ x.id[1] \in Client
           /\ \A p \in Puts : held[p] # <<>> => held[p][1].id[2] \in Nat
           /\ \A p \in Puts : p \in Ids /\ p[1] \in Client /\ p[2] \in Nat
           /\ \A k \in Key : Line(k) \in Seq(Items) /\ \A n \in 1..Len(Line(k)) : Line(k)[n] \in Range(Line(k))
<1>1. \A c \in Client : issued[c] \in Nat /\ \A y \in Range(sent[c]) : y.id[2] \in Nat
  <2> TAKE c \in Client
  <2>1. sent[c] \in Seq(Items) /\ issued[c] \in Nat
    BY DEF BaseInv, TypeInv
  <2> QED BY <2>1, ItemFacts DEF Range, BaseInv, TypeInv
<1>2. \A k \in Key : Line(k) \in Seq(Items)
  BY LineType DEF BaseInv
<1>3. \A k \in Key : \A x \in Range(Line(k)) : x.id[2] \in Nat /\ x.id[1] \in Client
  BY <1>2, ItemFacts DEF Range, BaseInv, TypeInv
<1>4. \A k \in Key : \A n \in 1..Len(Line(k)) : Line(k)[n] \in Range(Line(k))
  BY <1>2 DEF Range
<1>5. \A p \in Puts : p \in Ids /\ p[1] \in Client /\ p[2] \in Nat
  BY CallFacts DEF Puts, BaseInv, TypeInv
<1>6. \A p \in Puts : held[p] # <<>> => held[p][1].id[2] \in Nat
  <2> TAKE p \in Puts
  <2>1. held[p] \in Seq(Items)
    BY <1>5 DEF BaseInv, TypeInv
  <2> QED BY <2>1, ItemFacts DEF BaseInv, TypeInv
<1> QED BY <1>1, <1>2, <1>3, <1>4, <1>5, <1>6

LEMMA FifoWorkerPut ==
    ASSUME BaseInv, FifoInv, NEW id \in Ids, WorkerPut(id)
    PROVE  FifoInv'
<1> DEFINE d == id[1]
           z == Item(id)
<1>1. d \in Client /\ d \notin Driver /\ id \in Puts /\ z \in Items /\ z.id = id /\ InWorker(id)
  BY CallFacts DEF WorkerPut, BaseInv, TypeInv, InWorker, Item
<1>2. /\ AtCall(id) /\ submitted' = submitted \cup Executes(chain[id[1]][Call(id).key], id)
      /\ sent' = [sent EXCEPT ![d] = Append(@, z)]
      /\ UNCHANGED <<setup, ready, getters, putters, queue, taken, held>>
  BY DEF WorkerPut, worker
<1>3. /\ \A j : Call(j)' = Call(j) /\ InWorker(j)' = InWorker(j) /\ Item(j)' = Item(j)
      /\ MaxSize' = MaxSize /\ Puts' = Puts
  BY <1>2, SetupFacts DEF Call, Program, InWorker, Item
<1>4. /\ issued' = [issued EXCEPT ![d] = id[2]] /\ id[2] = issued[d] + 1
  BY <1>2 DEF AtCall
<1>5. \A k \in Key : Line(k)' = Line(k)
  BY <1>2 DEF Line
<1>6. \A p \in Puts : ~InWorker(p) /\ Live(p)' => Live(p)
  BY <1>1, <1>2 DEF Live, Executes
<1>7. sent[d] \in Seq(Items)
  BY <1>1 DEF BaseInv, TypeInv
<1>8. /\ Range(Append(sent[d], z)) = Range(sent[d]) \cup {z}
      /\ Len(Append(sent[d], z)) = Len(sent[d]) + 1 /\ Len(sent[d]) \in Nat
      /\ Append(sent[d], z)[Len(sent[d]) + 1] = z
      /\ \A i \in 1..Len(sent[d]) : Append(sent[d], z)[i] = sent[d][i] /\ sent[d][i] \in Range(sent[d])
  <2>1. Range(Append(sent[d], z)) = Range(sent[d]) \cup {z}
    BY <1>1, <1>7, InjectiveAppend
  <2> HIDE DEF z, d
  <2>2. \A i \in 1..Len(sent[d]) : sent[d][i] \in Range(sent[d])
    BY <1>7 DEF Range
  <2> QED BY <1>1, <1>7, <2>1, <2>2
<1>9. \A c \in Client : sent'[c] = IF c = d THEN Append(sent[d], z) ELSE sent[c]
  BY <1>1, <1>2 DEF BaseInv, TypeInv
<1>10. \A c \in Client : issued'[c] = IF c = d THEN issued[d] + 1 ELSE issued[c]
  BY <1>1, <1>4 DEF BaseInv, TypeInv
<1>11. z.id[1] = d /\ z.id[2] = issued[d] + 1
  BY <1>1, <1>4
<1> HIDE DEF d, z
<1>12. SentInv'
  <2> SUFFICES ASSUME NEW c \in Client
               PROVE  /\ c \in Driver => sent'[c] = <<>>
                      /\ \A y \in Range(sent'[c]) : y.id[1] = c /\ y.id[2] <= issued'[c]
                      /\ \A m, n \in 1..Len(sent'[c]) : m < n => sent'[c][m].id[2] < sent'[c][n].id[2]
    BY DEF SentInv
  <2>1. CASE c # d
    BY <1>9, <1>10, <2>1 DEF FifoInv, SentInv
  <2>2. CASE c = d
    <3>1. sent'[c] = Append(sent[d], z) /\ issued'[c] = issued[d] + 1 /\ issued[d] \in Nat
      BY <1>1, <1>9, <1>10, <2>2, FifoTypes
    <3>2. \A y \in Range(sent[d]) : y.id[1] = d /\ y.id[2] <= issued[d] /\ y.id[2] \in Nat
      BY <1>1, FifoTypes DEF FifoInv, SentInv
    <3>3. \A y \in Range(sent'[c]) : y.id[1] = c /\ y.id[2] <= issued'[c]
      BY <1>8, <1>11, <2>2, <3>1, <3>2
    <3>4. \A m, n \in 1..Len(sent[d]) : m < n => sent[d][m].id[2] < sent[d][n].id[2]
      BY <1>1 DEF FifoInv, SentInv
    <3>5. \A i \in 1..Len(sent[d]) : sent[d][i].id[2] < issued[d] + 1
      <4> TAKE i \in 1..Len(sent[d])
      <4>1. sent[d][i].id[2] <= issued[d] /\ sent[d][i].id[2] \in Nat
        BY <1>8, <3>2
      <4>2. \A a, b \in Nat : a <= b => a < b + 1
        OBVIOUS
      <4> QED BY <3>1, <4>1, <4>2, Zenon
    <3>6. ASSUME NEW m \in 1..Len(sent'[c]), NEW n \in 1..Len(sent'[c]), m < n
          PROVE  sent'[c][m].id[2] < sent'[c][n].id[2]
      <4>1. m \in 1..Len(sent[d]) /\ sent'[c][m] = sent[d][m]
        BY <1>8, <3>1, <3>6
      <4>2. CASE n \in 1..Len(sent[d])
        BY <1>8, <3>1, <3>4, <3>6, <4>1, <4>2
      <4>3. CASE n = Len(sent[d]) + 1
        BY <1>8, <1>11, <3>1, <3>5, <4>1, <4>3
      <4> QED BY <1>8, <3>1, <4>2, <4>3
    <3> QED BY <1>1, <2>2, <3>3, <3>6
  <2> QED BY <2>1, <2>2
<1>13. LineInv'
  <2> SUFFICES ASSUME NEW k \in Key
               PROVE  /\ \A m, n \in 1..Len(Line(k)) :
                           m < n /\ Line(k)[m].id[1] = Line(k)[n].id[1] => Line(k)[m].id[2] < Line(k)[n].id[2]
                      /\ \A x \in Range(Line(k)) : \A c \in Client : x.id[1] = c =>
                           /\ x.id[2] <= issued'[c]
                           /\ \A y \in Range(sent'[c]) : x.id[2] < y.id[2]
                           /\ \A p \in Puts : p[1] = c /\ ~InWorker(p) /\ Live(p)' => x.id[2] < p[2]
                           /\ \A p \in Puts : p[1] = c /\ held[p] # <<>> => x.id[2] < held[p][1].id[2]
    BY <1>2, <1>3, <1>5 DEF LineInv
  <2>1. \A m, n \in 1..Len(Line(k)) :
          m < n /\ Line(k)[m].id[1] = Line(k)[n].id[1] => Line(k)[m].id[2] < Line(k)[n].id[2]
    BY DEF FifoInv, LineInv
  <2>2. ASSUME NEW x \in Range(Line(k)), NEW c \in Client, x.id[1] = c
        PROVE  /\ x.id[2] <= issued'[c]
               /\ \A y \in Range(sent'[c]) : x.id[2] < y.id[2]
               /\ \A p \in Puts : p[1] = c /\ ~InWorker(p) /\ Live(p)' => x.id[2] < p[2]
               /\ \A p \in Puts : p[1] = c /\ held[p] # <<>> => x.id[2] < held[p][1].id[2]
    <3>1. x.id[2] <= issued[c] /\ x.id[2] \in Nat /\ issued[c] \in Nat
      BY <2>2, FifoTypes DEF FifoInv, LineInv
    <3>2. x.id[2] <= issued'[c]
      BY <1>10, <3>1
    <3>3. \A y \in Range(sent[c]) : x.id[2] < y.id[2]
      BY <2>2 DEF FifoInv, LineInv
    <3>4. \A y \in Range(sent'[c]) : x.id[2] < y.id[2]
      BY <1>8, <1>9, <1>11, <3>1, <3>3
    <3>5. /\ \A p \in Puts : p[1] = c /\ ~InWorker(p) /\ Live(p) => x.id[2] < p[2]
          /\ \A p \in Puts : p[1] = c /\ held[p] # <<>> => x.id[2] < held[p][1].id[2]
      BY <2>2 DEF FifoInv, LineInv
    <3> QED BY <1>6, <3>2, <3>4, <3>5
  <2> QED BY <2>1, <2>2
<1>14. HeldFifo'
  <2> SUFFICES ASSUME NEW c \in Client, NEW p \in Puts, p[1] = c, held[p] # <<>>
               PROVE  /\ MaxSize > 0 /\ held[p][1].id[1] = c /\ held[p][1].id[2] <= issued'[c]
                      /\ ~InWorker(p) => held[p][1] = Item(p)
                      /\ \A y \in Range(sent'[c]) : held[p][1].id[2] < y.id[2]
    BY <1>2, <1>3 DEF HeldFifo
  <2>1. /\ MaxSize > 0 /\ held[p][1].id[1] = c /\ held[p][1].id[2] <= issued[c]
        /\ ~InWorker(p) => held[p][1] = Item(p)
        /\ \A y \in Range(sent[c]) : held[p][1].id[2] < y.id[2]
    BY DEF FifoInv, HeldFifo
  <2>2. held[p][1].id[2] \in Nat /\ issued[c] \in Nat
    BY FifoTypes
  <2>3. held[p][1].id[2] <= issued'[c]
    BY <1>10, <2>1, <2>2
  <2>4. \A y \in Range(sent'[c]) : held[p][1].id[2] < y.id[2]
    BY <1>8, <1>9, <1>11, <2>1, <2>2
  <2> QED BY <2>1, <2>3, <2>4
<1>15. DriverInv'
  <2>1. \A c \in Client : \A p \in Puts : p[1] = c /\ ~InWorker(p) => c # d
    BY <1>1 DEF InWorker, d
  <2> QED BY <1>3, <1>6, <1>10, <2>1 DEF FifoInv, DriverInv
<1> QED BY <1>12, <1>13, <1>14, <1>15 DEF FifoInv

LEMMA FifoDriverCall ==
    ASSUME FifoPrograms, BaseInv, FifoInv, NEW id \in Ids, DriverCall(id)
    PROVE  FifoInv'
<1> DEFINE d == id[1]
<1>1. d \in Client /\ d \in Driver /\ id[2] \in Nat
  BY CallFacts DEF DriverCall, BaseInv, TypeInv, InWorker
<1>2. /\ AtCall(id) /\ submitted' = submitted \cup {id}
      /\ UNCHANGED <<setup, sent, ready, getters, putters, queue, taken, held>>
  BY DEF DriverCall, worker
<1>3. /\ \A j : Call(j)' = Call(j) /\ InWorker(j)' = InWorker(j) /\ Item(j)' = Item(j)
      /\ MaxSize' = MaxSize /\ Puts' = Puts
  BY <1>2, SetupFacts DEF Call, Program, InWorker, Item
<1>4. /\ issued' = [issued EXCEPT ![d] = id[2]] /\ id[2] = issued[d] + 1
  BY <1>2 DEF AtCall
<1>5. \A k \in Key : Line(k)' = Line(k)
  BY <1>2 DEF Line
<1>6. \A j : Live(j)' => Live(j) \/ j = id
  BY <1>2 DEF Live
<1>7. \A c \in Client : issued'[c] = IF c = d THEN issued[d] + 1 ELSE issued[c]
  BY <1>1, <1>4 DEF BaseInv, TypeInv
<1>8. \A p \in Puts : p[1] = d => ~Live(p)
  <2> SUFFICES ASSUME NEW p \in Puts, p[1] = d, Live(p) PROVE FALSE
    OBVIOUS
  <2>1. p \in Ids /\ p[2] \in 1..Len(Program[d]) /\ p = <<d, p[2]>> /\ p[2] \in Nat \ {0}
    BY CallFacts DEF Puts, BaseInv, TypeInv
  <2>2. ~Call(p).async
    <3>1. ~IsGet(Program[d][p[2]])
      BY <2>1 DEF Puts, Call, IsGet
    <3> QED BY <1>1, <2>1, <3>1 DEF FifoPrograms, Call, Program, BaseInv, TypeInv
  <2>3. p[2] <= issued[d] /\ issued[d] \in Nat
    BY <1>1, <2>1 DEF BaseInv, IssuedInv, Issued, TypeInv
  <2>4. status[p] = "pending"
    BY DEF BaseInv, PendingInv
  <2>5. p[2] \in 1..issued[d]
    BY <2>1, <2>3
  <2>6. \A i \in 1..issued[d] : Call(<<d, i>>).async \/ status[<<d, i>>] \in {"done", "raised"}
    BY <1>2 DEF AtCall
  <2>7. Call(<<d, p[2]>>).async \/ status[<<d, p[2]>>] \in {"done", "raised"}
    BY <2>5, <2>6
  <2> HIDE DEF d
  <2> QED BY <2>1, <2>2, <2>4, <2>7
<1> HIDE DEF d
<1>9. SentInv'
  <2> SUFFICES ASSUME NEW c \in Client, NEW y \in Range(sent[c])
               PROVE  y.id[2] <= issued'[c]
    BY <1>2 DEF FifoInv, SentInv
  <2>1. y.id[2] <= issued[c] /\ y.id[2] \in Nat /\ issued[c] \in Nat
    BY FifoTypes DEF FifoInv, SentInv
  <2> QED BY <1>7, <2>1
<1>10. LineInv'
  <2> SUFFICES ASSUME NEW k \in Key
               PROVE  /\ \A m, n \in 1..Len(Line(k)) :
                           m < n /\ Line(k)[m].id[1] = Line(k)[n].id[1] => Line(k)[m].id[2] < Line(k)[n].id[2]
                      /\ \A x \in Range(Line(k)) : \A c \in Client : x.id[1] = c =>
                           /\ x.id[2] <= issued'[c]
                           /\ \A y \in Range(sent[c]) : x.id[2] < y.id[2]
                           /\ \A p \in Puts : p[1] = c /\ ~InWorker(p) /\ Live(p)' => x.id[2] < p[2]
                           /\ \A p \in Puts : p[1] = c /\ held[p] # <<>> => x.id[2] < held[p][1].id[2]
    BY <1>2, <1>3, <1>5 DEF LineInv
  <2>1. \A m, n \in 1..Len(Line(k)) :
          m < n /\ Line(k)[m].id[1] = Line(k)[n].id[1] => Line(k)[m].id[2] < Line(k)[n].id[2]
    BY DEF FifoInv, LineInv
  <2>2. ASSUME NEW x \in Range(Line(k)), NEW c \in Client, x.id[1] = c
        PROVE  /\ x.id[2] <= issued'[c]
               /\ \A y \in Range(sent[c]) : x.id[2] < y.id[2]
               /\ \A p \in Puts : p[1] = c /\ ~InWorker(p) /\ Live(p)' => x.id[2] < p[2]
               /\ \A p \in Puts : p[1] = c /\ held[p] # <<>> => x.id[2] < held[p][1].id[2]
    <3>1. x.id[2] <= issued[c] /\ x.id[2] \in Nat /\ issued[c] \in Nat
      BY <2>2, FifoTypes DEF FifoInv, LineInv
    <3>2. x.id[2] <= issued'[c]
      BY <1>7, <3>1
    <3>3. /\ \A y \in Range(sent[c]) : x.id[2] < y.id[2]
          /\ \A p \in Puts : p[1] = c /\ ~InWorker(p) /\ Live(p) => x.id[2] < p[2]
          /\ \A p \in Puts : p[1] = c /\ held[p] # <<>> => x.id[2] < held[p][1].id[2]
      BY <2>2 DEF FifoInv, LineInv
    <3>4. id[1] = c => x.id[2] < id[2]
      BY <1>4, <3>1 DEF d
    <3> QED BY <1>6, <3>2, <3>3, <3>4
  <2> QED BY <2>1, <2>2
<1>11. HeldFifo'
  <2> SUFFICES ASSUME NEW c \in Client, NEW p \in Puts, p[1] = c, held[p] # <<>>
               PROVE  /\ MaxSize > 0 /\ held[p][1].id[1] = c /\ held[p][1].id[2] <= issued'[c]
                      /\ ~InWorker(p) => held[p][1] = Item(p)
                      /\ \A y \in Range(sent[c]) : held[p][1].id[2] < y.id[2]
    BY <1>2, <1>3 DEF HeldFifo
  <2>1. /\ MaxSize > 0 /\ held[p][1].id[1] = c /\ held[p][1].id[2] <= issued[c]
        /\ ~InWorker(p) => held[p][1] = Item(p)
        /\ \A y \in Range(sent[c]) : held[p][1].id[2] < y.id[2]
    BY DEF FifoInv, HeldFifo
  <2>2. held[p][1].id[2] \in Nat /\ issued[c] \in Nat
    BY FifoTypes
  <2>3. held[p][1].id[2] <= issued'[c]
    BY <1>7, <2>1, <2>2
  <2> QED BY <2>1, <2>3
<1>12. DriverInv'
  <2> SUFFICES ASSUME NEW c \in Client, NEW p \in Puts, p[1] = c, ~InWorker(p), Live(p)'
               PROVE  p[2] = issued'[c]
    BY <1>3 DEF DriverInv
  <2>1. CASE p = id
    BY <1>1, <1>4, <1>7, <2>1 DEF d
  <2>2. CASE p # id
    <3>1. Live(p)
      BY <1>6, <2>2
    <3>2. c # d /\ p[2] = issued[c]
      BY <1>8, <3>1 DEF FifoInv, DriverInv
    <3> QED BY <1>7, <3>2
  <2> QED BY <2>1, <2>2
<1> QED BY <1>9, <1>10, <1>11, <1>12 DEF FifoInv

(* Puts of a bounded channel run one at a time in each client.             *)
LEMMA OnePut ==
    ASSUME FifoPrograms, BaseInv, DriverInv, MaxSize > 0,
           NEW p \in Puts, NEW q \in Puts, p[1] = q[1], Live(p), Live(q)
    PROVE  p = q
<1>1. /\ p \in Ids /\ p[1] \in Client /\ p[2] \in 1..Len(Program[p[1]]) /\ p = <<p[1], p[2]>>
      /\ q \in Ids /\ q[2] \in 1..Len(Program[q[1]]) /\ q = <<q[1], q[2]>>
  BY CallFacts DEF Puts, BaseInv, TypeInv
<1>2. CASE InWorker(p)
  <2>1. p[1] \in Client \ Driver /\ InWorker(q)
    BY <1>1, <1>2 DEF InWorker
  <2>2. ~IsGet(Program[p[1]][p[2]]) /\ ~IsGet(Program[p[1]][q[2]])
    BY DEF Puts, Call, IsGet
  <2>3. setup \in Setups /\ setup.maxSize # 0
    BY ChannelAssumption DEF BaseInv, TypeInv, MaxSize
  <2>4. Call(p).key = Call(q).key
    BY <1>1, <2>1, <2>2, <2>3 DEF FifoPrograms, Call, Program
  <2>5. /\ Head(chain[p[1]][Call(p).key]) = p
        /\ Head(chain[q[1]][Call(q).key]) = q
    BY <1>2, <2>1 DEF BaseInv, ChainInv
  <2> QED BY <2>4, <2>5
<1>3. CASE ~InWorker(p)
  <2>1. ~InWorker(q)
    BY <1>3 DEF InWorker
  <2>2. p[2] = issued[p[1]] /\ q[2] = issued[p[1]]
    BY <1>1, <1>3, <2>1 DEF DriverInv
  <2> QED BY <1>1, <2>2
<1> QED BY <1>2, <1>3

(* The item of a running put is the next of its client.                    *)
NextItem(id, x) ==
  /\ x.id[1] = id[1] /\ x.id[2] \in Nat /\ x.id[2] <= issued[id[1]]
  /\ ~InWorker(id) => x = Item(id)
  /\ \A k \in Key : \A y \in Range(Line(k)) : y.id[1] = id[1] => y.id[2] < x.id[2]
  /\ \A y \in Range(sent'[id[1]]) : x.id[2] < y.id[2]

LEMMA FifoPutItem ==
    ASSUME BaseInv, FifoInv, NEW id \in Ids, RunPut(id)
    PROVE  /\ NextItem(id, PutItem(id))
           /\ \A c \in Client : /\ sent'[c] \in Seq(Items)
                                /\ Range(sent'[c]) \subseteq Range(sent[c])
                                /\ sent'[c] = sent[c] \/ (sent[c] # <<>> /\ sent'[c] = Tail(sent[c]))
<1> DEFINE x == PutItem(id)
           c == id[1]
<1>1. /\ id \in Puts /\ c \in Client /\ x \in Items
      /\ \/ /\ held[id] = <<>> /\ InWorker(id)
            /\ sent[c] # <<>> /\ x = Head(sent[c])
            /\ sent' = [sent EXCEPT ![c] = Tail(@)]
         \/ /\ held[id] = <<>> /\ ~InWorker(id)
            /\ x = Item(id) /\ UNCHANGED sent
         \/ /\ held[id] # <<>> /\ x = held[id][1] /\ UNCHANGED sent
  BY RunPutFacts DEF BaseInv
<1>2. x.id[2] \in Nat /\ sent[c] \in Seq(Items)
  BY <1>1, ItemFacts DEF BaseInv, TypeInv
<1>3. Live(id) /\ Issued(id)
  BY RunPutTasks DEF BaseInv, IssuedInv
<1>4. \A k \in Key : \A y \in Range(Line(k)) : y.id[1] = c =>
        /\ \A z \in Range(sent[c]) : y.id[2] < z.id[2]
        /\ ~InWorker(id) => y.id[2] < id[2]
        /\ held[id] # <<>> => y.id[2] < held[id][1].id[2]
  BY <1>1, <1>3 DEF FifoInv, LineInv
<1> HIDE DEF x, c
<1>5. CASE /\ held[id] = <<>> /\ InWorker(id)
           /\ sent[c] # <<>> /\ x = Head(sent[c])
           /\ sent' = [sent EXCEPT ![c] = Tail(@)]
  <2>1. sent'[c] = Tail(sent[c]) /\ \A d \in Client : d # c => sent'[d] = sent[d]
    BY <1>1, <1>5 DEF BaseInv, TypeInv
  <2>2. /\ x \in Range(sent[c]) /\ x = sent[c][1] /\ Range(Tail(sent[c])) \subseteq Range(sent[c])
        /\ Len(sent[c]) \in Nat \ {0} /\ DOMAIN Tail(sent[c]) = 1..(Len(sent[c]) - 1)
        /\ \A i \in 1..(Len(sent[c]) - 1) : i + 1 \in 1..Len(sent[c]) /\ Tail(sent[c])[i] = sent[c][i + 1]
        /\ Tail(sent[c]) \in Seq(Items)
    BY <1>2, <1>5, TailFacts
  <2>3. \A y \in Range(sent'[c]) : x.id[2] < y.id[2]
    <3>1. \A i \in 1..(Len(sent[c]) - 1) : x.id[2] < sent[c][i + 1].id[2]
      <4> TAKE i \in 1..(Len(sent[c]) - 1)
      <4>1. 1 < i + 1 /\ 1 \in 1..Len(sent[c]) /\ i + 1 \in 1..Len(sent[c])
        BY <2>2
      <4> QED BY <1>1, <2>2, <4>1 DEF FifoInv, SentInv
    <3>2. Range(Tail(sent[c])) = {Tail(sent[c])[i] : i \in 1..(Len(sent[c]) - 1)}
      BY <2>2 DEF Range
    <3> QED BY <2>1, <2>2, <3>1, <3>2
  <2>4. x.id[1] = c /\ x.id[2] <= issued[c]
    BY <1>1, <2>2 DEF FifoInv, SentInv
  <2>5. NextItem(id, x)
    BY <1>2, <1>4, <1>5, <2>2, <2>3, <2>4 DEF NextItem, c
  <2>6. \A d \in Client : /\ sent'[d] \in Seq(Items)
                          /\ Range(sent'[d]) \subseteq Range(sent[d])
                          /\ sent'[d] = sent[d] \/ (sent[d] # <<>> /\ sent'[d] = Tail(sent[d]))
    BY <1>5, <2>1, <2>2 DEF BaseInv, TypeInv
  <2> QED BY <2>5, <2>6 DEF x
<1>6. CASE held[id] = <<>> /\ ~InWorker(id) /\ x = Item(id) /\ UNCHANGED sent
  <2>1. x.id = id /\ id[2] <= issued[c]
    BY <1>3, <1>6 DEF Item, Issued, c
  <2>2. sent[c] = <<>>
    BY <1>1, <1>6 DEF FifoInv, SentInv, InWorker, c
  <2>3. Range(sent'[c]) = {}
    BY <1>6, <2>2 DEF Range
  <2>4. NextItem(id, x)
    BY <1>2, <1>4, <1>6, <2>1, <2>3 DEF NextItem, c
  <2> QED BY <1>6, <2>4 DEF x, BaseInv, TypeInv
<1>7. CASE held[id] # <<>> /\ x = held[id][1] /\ UNCHANGED sent
  <2>1. NextItem(id, x)
    BY <1>1, <1>2, <1>4, <1>7 DEF NextItem, FifoInv, HeldFifo, c
  <2> QED BY <1>7, <2>1 DEF x, BaseInv, TypeInv
<1> QED BY <1>1, <1>5, <1>6, <1>7

LEMMA FifoRunPut ==
    ASSUME FifoPrograms, BaseInv, FifoInv, NEW id \in Ids, RunPut(id)
    PROVE  FifoInv'
<1> DEFINE x == PutItem(id)
           k == PutItem(id).key
           d == id[1]
<1>1. /\ id \in Puts /\ d \in Client /\ x \in Items /\ k \in Key
      /\ PutRoom(id, k) \/ PutWaits(id, k) \/ PutRaises(id, k)
      /\ UNCHANGED <<setup, issued, taken>>
  BY RunPutFacts DEF BaseInv
<1>2. NextItem(id, x)
  BY FifoPutItem
<1>3. \A c \in Client : /\ Range(sent'[c]) \subseteq Range(sent[c])
                        /\ sent'[c] = sent[c] \/ (sent[c] # <<>> /\ sent'[c] = Tail(sent[c]))
  BY FifoPutItem
<1>4. Live(id) /\ (PutWaits(id, k) => Stays) /\ (~PutWaits(id, k) => Ended(id)) /\ \A j : Live(j)' => Live(j)
  BY RunPutTasks DEF BaseInv, Stays, Ended
<1>5. /\ \A j : Call(j)' = Call(j) /\ InWorker(j)' = InWorker(j) /\ Item(j)' = Item(j)
      /\ MaxSize' = MaxSize /\ Puts' = Puts
  BY <1>1, SetupFacts DEF Call, Program, InWorker, Item
<1>6. \A j \in Ids : j # id => held'[j] = held[j]
  BY <1>1 DEF PutRoom, PutWaits, PutRaises, BaseInv, TypeInv
<1>7. held'[id] # <<>> => PutWaits(id, k) /\ held'[id] = <<x>> /\ MaxSize > 0
  <2>1. CASE PutRoom(id, k)
    BY <1>1, <2>1 DEF PutRoom, BaseInv, TypeInv
  <2>2. CASE PutWaits(id, k)
    BY <1>1, <2>2 DEF PutWaits, Full, BaseInv, TypeInv
  <2>3. CASE PutRaises(id, k)
    BY <1>1, <2>3 DEF PutRaises, BaseInv, HeldInv
  <2> QED BY <1>1, <2>1, <2>2, <2>3
<1>8. \/ \A j \in Key : Line(j)' = Line(j)
      \/ \E l \in Key : /\ l = k /\ PutRoom(id, k) /\ Line(l)' = Append(Line(l), x)
                        /\ \A j \in Key : j # l => Line(j)' = Line(j)
  <2>1. CASE PutRoom(id, k)
    <3>1. PICK l \in Key : l = k
      BY <1>1
    <3>2. queue' = [queue EXCEPT ![l] = Append(@, x)] /\ taken' = taken /\ x \in Items
      BY <1>1, <2>1, <3>1 DEF PutRoom
    <3> HIDE DEF x, k
    <3>3. Line(l)' = Append(Line(l), x) /\ \A j \in Key : j # l => Line(j)' = Line(j)
      BY <3>2, LinePut DEF BaseInv
    <3> QED BY <2>1, <3>1, <3>3
  <2>2. CASE PutWaits(id, k) \/ PutRaises(id, k)
    BY <1>1, <2>2 DEF PutWaits, PutRaises, Line
  <2> QED BY <1>1, <2>1, <2>2
<1> HIDE DEF x, k, d
<1>9. \A j \in Key : /\ Range(Line(j)') \subseteq Range(Line(j)) \cup {x}
                     /\ x \in Range(Line(j)') => x \in Range(Line(j)) \/ PutRoom(id, k)
  <2>1. \A l \in Key : Line(l) \in Seq(Items)
    BY FifoTypes
  <2>2. ASSUME NEW l \in Key PROVE Range(Append(Line(l), x)) = Range(Line(l)) \cup {x}
    BY <1>1, <2>1, InjectiveAppend
  <2> QED BY <1>8, <2>2
<1>10. SentInv'
  <2> SUFFICES ASSUME NEW c \in Client
               PROVE  /\ c \in Driver => sent'[c] = <<>>
                      /\ \A y \in Range(sent'[c]) : y.id[1] = c /\ y.id[2] <= issued[c]
                      /\ \A m, n \in 1..Len(sent'[c]) : m < n => sent'[c][m].id[2] < sent'[c][n].id[2]
    BY <1>1 DEF SentInv
  <2>1. CASE sent'[c] = sent[c]
    BY <2>1 DEF FifoInv, SentInv
  <2>2. CASE sent[c] # <<>> /\ sent'[c] = Tail(sent[c])
    <3>1. c \notin Driver
      BY <2>2 DEF FifoInv, SentInv
    <3>2. \A y \in Range(sent'[c]) : y.id[1] = c /\ y.id[2] <= issued[c]
      BY <1>3 DEF FifoInv, SentInv
    <3>3. /\ Len(sent'[c]) = Len(sent[c]) - 1 /\ Len(sent[c]) \in Nat
          /\ \A i \in 1..(Len(sent[c]) - 1) : i + 1 \in 1..Len(sent[c]) /\ sent'[c][i] = sent[c][i + 1]
      <4>1. sent[c] \in Seq(Items)
        BY DEF BaseInv, TypeInv
      <4>2. /\ Len(Tail(sent[c])) = Len(sent[c]) - 1 /\ Len(sent[c]) \in Nat
            /\ \A i \in 1..(Len(sent[c]) - 1) : i + 1 \in 1..Len(sent[c]) /\ Tail(sent[c])[i] = sent[c][i + 1]
        BY <2>2, <4>1, TailFacts
      <4> QED BY <2>2, <4>2
    <3>4. ASSUME NEW m \in 1..Len(sent'[c]), NEW n \in 1..Len(sent'[c]), m < n
          PROVE  sent'[c][m].id[2] < sent'[c][n].id[2]
      <4>1. m + 1 \in 1..Len(sent[c]) /\ n + 1 \in 1..Len(sent[c]) /\ m + 1 < n + 1
        BY <3>3, <3>4
      <4>2. sent[c][m + 1].id[2] < sent[c][n + 1].id[2]
        BY <4>1 DEF FifoInv, SentInv
      <4>3. sent'[c][m] = sent[c][m + 1] /\ sent'[c][n] = sent[c][n + 1]
        BY <3>3
      <4> QED BY <4>2, <4>3
    <3> QED BY <3>1, <3>2, <3>4
  <2> QED BY <1>3, <2>1, <2>2
<1>11. ASSUME NEW j \in Key
       PROVE  \A m, n \in 1..Len(Line(j)') : m < n /\ Line(j)'[m].id[1] = Line(j)'[n].id[1]
                => Line(j)'[m].id[2] < Line(j)'[n].id[2]
  <2>1. CASE Line(j)' = Line(j)
    BY <2>1 DEF FifoInv, LineInv
  <2>2. CASE Line(j)' = Append(Line(j), x)
    <3> DEFINE s == Line(j)
               t == Append(s, x)
    <3>1. s \in Seq(Items) /\ Len(s) \in Nat /\ Len(t) = Len(s) + 1 /\ t[Len(s) + 1] = x
          /\ \A i \in 1..Len(s) : t[i] = s[i] /\ s[i] \in Range(s)
      <4>1. s \in Seq(Items) /\ \A i \in 1..Len(s) : s[i] \in Range(s)
        BY FifoTypes
      <4> HIDE DEF s
      <4> QED BY <1>1, <4>1
    <3>2. \A i \in 1..Len(s) : s[i].id[1] = d => s[i].id[2] < x.id[2]
      BY <1>2, <3>1 DEF NextItem, d
    <3>3. \A m, n \in 1..Len(s) : m < n /\ s[m].id[1] = s[n].id[1] => s[m].id[2] < s[n].id[2]
      BY DEF FifoInv, LineInv
    <3>4. x.id[1] = d
      BY <1>2 DEF NextItem, d
    <3> HIDE DEF s, t
    <3>5. ASSUME NEW m \in 1..Len(t), NEW n \in 1..Len(t), m < n, t[m].id[1] = t[n].id[1]
          PROVE  t[m].id[2] < t[n].id[2]
      <4>1. m \in 1..Len(s) /\ t[m] = s[m]
        BY <3>1, <3>5
      <4>2. CASE n \in 1..Len(s)
        BY <3>1, <3>3, <3>5, <4>1, <4>2
      <4>3. CASE n = Len(s) + 1
        BY <3>1, <3>2, <3>4, <3>5, <4>1, <4>3
      <4> QED BY <3>1, <4>2, <4>3
    <3> QED BY <2>2, <3>5 DEF s, t
  <2> QED BY <1>8, <2>1, <2>2
<1>12. ASSUME NEW j \in Key, NEW z \in Range(Line(j)'), NEW c \in Client, z.id[1] = c
       PROVE  /\ z.id[2] <= issued[c]
              /\ \A y \in Range(sent'[c]) : z.id[2] < y.id[2]
              /\ \A p \in Puts : p[1] = c /\ ~InWorker(p) /\ Live(p)' => z.id[2] < p[2]
              /\ \A p \in Puts : p[1] = c /\ held'[p] # <<>> => z.id[2] < held'[p][1].id[2]
  <2>1. \A p \in Puts : p \in Ids
    BY FifoTypes
  <2>2. CASE z \in Range(Line(j))
    <3>1. /\ z.id[2] <= issued[c]
          /\ \A y \in Range(sent[c]) : z.id[2] < y.id[2]
          /\ \A p \in Puts : p[1] = c /\ ~InWorker(p) /\ Live(p) => z.id[2] < p[2]
          /\ \A p \in Puts : p[1] = c /\ held[p] # <<>> => z.id[2] < held[p][1].id[2]
      BY <1>12, <2>2 DEF FifoInv, LineInv
    <3>2. held'[id] # <<>> /\ id[1] = c => z.id[2] < held'[id][1].id[2]
      <4>1. id[1] = c => z.id[2] < x.id[2]
        BY <1>2, <1>12, <2>2 DEF NextItem
      <4> QED BY <1>7, <4>1
    <3> QED BY <1>3, <1>4, <1>6, <2>1, <3>1, <3>2
  <2>3. CASE z \notin Range(Line(j))
    <3>1. z = x /\ PutRoom(id, k)
      BY <1>9, <2>3
    <3>2. c = d /\ Ended(id) /\ held'[id] = <<>>
      <4>1. ~PutWaits(id, k)
        BY <3>1 DEF PutRoom, PutWaits
      <4> QED BY <1>2, <1>4, <1>7, <1>12, <3>1, <4>1 DEF NextItem, d
    <3>3. z.id[2] <= issued[c] /\ \A y \in Range(sent'[c]) : z.id[2] < y.id[2]
      BY <1>2, <3>1, <3>2 DEF NextItem, d
    <3>4. ASSUME NEW p \in Puts, p[1] = c, ~InWorker(p), Live(p)'
          PROVE  FALSE
      <4>1. Live(p) /\ p # id /\ ~InWorker(id)
        BY <3>2, <3>4 DEF Ended, InWorker, d
      <4>2. p[2] = issued[c] /\ id[2] = issued[c]
        BY <1>1, <1>4, <3>2, <3>4, <4>1 DEF FifoInv, DriverInv, d
      <4>3. p = <<p[1], p[2]>> /\ id = <<id[1], id[2]>>
        BY <2>1, CallFacts DEF BaseInv, TypeInv
      <4> QED BY <3>2, <3>4, <4>1, <4>2, <4>3 DEF d
    <3>5. ASSUME NEW p \in Puts, p[1] = c, held'[p] # <<>>
          PROVE  FALSE
      <4>1. p # id /\ held[p] # <<>>
        BY <1>6, <2>1, <3>2, <3>5
      <4>2. Live(p) /\ MaxSize > 0
        BY <1>12, <2>1, <3>5, <4>1 DEF BaseInv, HeldInv, FifoInv, HeldFifo
      <4>3. p = id
        BY <1>1, <1>4, <3>2, <3>5, <4>2, OnePut DEF FifoInv, d
      <4> QED BY <4>1, <4>3
    <3> QED BY <3>3, <3>4, <3>5
  <2> QED BY <2>2, <2>3
<1>13. LineInv'
  BY <1>1, <1>5, <1>11, <1>12 DEF LineInv
<1>14. HeldFifo'
  <2> SUFFICES ASSUME NEW c \in Client, NEW p \in Puts, p[1] = c, held'[p] # <<>>
               PROVE  /\ MaxSize > 0 /\ held'[p][1].id[1] = c /\ held'[p][1].id[2] <= issued[c]
                      /\ ~InWorker(p) => held'[p][1] = Item(p)
                      /\ \A y \in Range(sent'[c]) : held'[p][1].id[2] < y.id[2]
    BY <1>1, <1>5 DEF HeldFifo
  <2>1. CASE p = id
    <3>1. held'[id][1] = x /\ MaxSize > 0
      BY <1>7, <2>1
    <3> QED BY <1>2, <2>1, <3>1 DEF NextItem
  <2>2. CASE p # id
    <3>1. held'[p] = held[p]
      BY <1>6, <2>2, FifoTypes
    <3>2. /\ MaxSize > 0 /\ held[p][1].id[1] = c /\ held[p][1].id[2] <= issued[c]
          /\ ~InWorker(p) => held[p][1] = Item(p)
          /\ \A y \in Range(sent[c]) : held[p][1].id[2] < y.id[2]
      BY <3>1 DEF FifoInv, HeldFifo
    <3> QED BY <1>3, <3>1, <3>2
  <2> QED BY <2>1, <2>2
<1>15. DriverInv'
  BY <1>1, <1>4, <1>5 DEF FifoInv, DriverInv
<1> QED BY <1>10, <1>13, <1>14, <1>15 DEF FifoInv

(* The steps that neither put nor make a put.                              *)
LEMMA FifoQuiet ==
    ASSUME BaseInv, FifoInv, UNCHANGED <<setup, sent, queue, taken, held>>,
           \A c \in Client : issued'[c] \in Nat /\ issued[c] <= issued'[c] /\ (c \in Driver => issued'[c] = issued[c]),
           \A p \in Puts : ~InWorker(p) /\ Live(p)' => Live(p)
    PROVE  FifoInv'
<1>1. \A k \in Key : Line(k)' = Line(k)
  BY DEF Line
<1> QED BY <1>1, KeepFifo

LEMMA FifoNext ==
    ASSUME FifoPrograms, BaseInv, FifoInv, [Next]_vars
    PROVE  FifoInv'
<1> USE DEF BaseInv
<1>1. \A p \in Puts : p \in Ids /\ p \notin Gets
  BY DEF Puts, Gets
<1>2. \A c \in Client : issued[c] \in Nat
  BY DEF TypeInv
<1>3. issued' = issued => \A c \in Client : issued'[c] \in Nat /\ issued[c] <= issued'[c]
                             /\ (c \in Driver => issued'[c] = issued[c])
  BY <1>2
<1>4. ASSUME NEW id \in Ids, WorkerGet(id) PROVE FifoInv'
  <2>1. /\ id \in Gets /\ InWorker(id) /\ AtCall(id) /\ submitted' = submitted \cup {id}
        /\ UNCHANGED <<setup, sent, queue, taken, held, ready, getters, putters>>
    BY <1>4 DEF WorkerGet, worker
  <2>2. \A p \in Puts : Live(p)' => Live(p)
    BY <1>1, <2>1 DEF Live
  <2>3. \A c \in Client : issued'[c] \in Nat /\ issued[c] <= issued'[c] /\ (c \in Driver => issued'[c] = issued[c])
    <3> TAKE c \in Client
    <3>1. issued'[c] = IF c = id[1] THEN issued[c] + 1 ELSE issued[c]
      BY <2>1 DEF AtCall, TypeInv
    <3>2. c = id[1] => c \notin Driver
      BY <2>1 DEF InWorker
    <3> QED BY <1>2, <3>1, <3>2
  <2> QED BY <2>1, <2>2, <2>3, FifoQuiet
<1>5. ASSUME NEW id \in Ids, Start(id) PROVE FifoInv'
  <2>1. UNCHANGED <<setup, issued, sent, queue, taken, held>>
    BY <1>5 DEF Start, client
  <2>2. Stays
    BY <1>5, StartTasks
  <2> QED BY <1>3, <2>1, <2>2, FifoQuiet DEF Stays
<1>6. ASSUME NEW r \in returned, PutCallback(r) PROVE FifoInv'
  <2> DEFINE f == chain[r.id[1]][Call(r.id).key]
  <2>1. /\ UNCHANGED <<setup, issued, sent, queue, taken, held, ready, getters, putters>> /\ InWorker(r.id)
        /\ submitted' = submitted \/ submitted' = submitted \cup Chained(f)
    BY <1>6 DEF PutCallback, worker
  <2>2. r.id[1] \in Client /\ Call(r.id).key \in Key
    BY CallFacts DEF TypeInv, Results
  <2>3. f \in Seq(Puts) /\ \A j \in Range(f) : InWorker(j)
    BY <2>2 DEF TypeInv, ChainInv
  <2> HIDE DEF f
  <2>4. \A j \in Chained(f) : InWorker(j)
    <3>1. Len(f) > 1 => 2 \in DOMAIN f
      BY <2>3
    <3> QED BY <2>3, <3>1 DEF Chained, Range
  <2>5. \A p \in Puts : ~InWorker(p) /\ Live(p)' => Live(p)
    BY <2>1, <2>4 DEF Live
  <2> QED BY <1>3, <2>1, <2>5, FifoQuiet
<1>7. ASSUME NEW r \in returned, DriverReturn(r) PROVE FifoInv'
  <2>1. UNCHANGED <<setup, issued, sent, queue, taken, held, submitted, ready, getters, putters>>
    BY <1>7 DEF DriverReturn, worker
  <2>2. \A p \in Puts : Live(p)' => Live(p)
    BY <2>1 DEF Live
  <2> QED BY <1>3, <2>1, <2>2, FifoQuiet
<1>8. ASSUME NEW c \in Client, Deliver(c) PROVE FifoInv'
  <2>1. UNCHANGED <<setup, issued, sent, queue, taken, held, submitted, ready, getters, putters>>
    BY <1>8 DEF Deliver, worker
  <2>2. \A p \in Puts : Live(p)' => Live(p)
    BY <2>1 DEF Live
  <2> QED BY <1>3, <2>1, <2>2, FifoQuiet
<1>9. ASSUME NEW id \in Ids, RunGet(id) PROVE FifoInv'
  <2> DEFINE k == Call(id).key
  <2>1. /\ id \in Gets /\ ready # <<>> /\ Head(ready) = id /\ k \in Key
        /\ GetTakes(id, k) \/ GetWaits(id, k) \/ GetFails(id, k)
        /\ UNCHANGED <<setup, issued, status, result, chain, recvs, submitted, sent, held>>
    BY <1>9, RunGetFacts
  <2> HIDE DEF k
  <2>2. CASE GetTakes(id, k)
    <3>1. Answer(id, id, <<Head(queue[k])>>) /\ TakeItems(k, 1) /\ UNCHANGED getters /\ queue[k] # <<>>
      BY <2>2 DEF GetTakes
    <3>2. UNCHANGED returned \/ \E r : r.id = id /\ returned' = returned \cup {r}
      BY <3>1, AnswerReturned
    <3>3. Ended(id)
      <4>1. 1 \in Nat
        OBVIOUS
      <4> QED BY <2>1, <3>1, <3>2, <4>1, TakeTasks
    <3>4. \A j \in Key : Line(j)' = Line(j)
      <4>1. queue[k] \in Seq(Items)
        BY <2>1 DEF TypeInv
      <4>2. 1 \in 0..Len(queue[k])
        BY <3>1, <4>1
      <4> QED BY <2>1, <3>1, <4>2, LineTake
    <3> QED BY <1>3, <2>1, <3>3, <3>4, KeepFifo DEF Ended
  <2>3. CASE GetWaits(id, k)
    <3>1. Stays /\ UNCHANGED <<queue, taken>>
      BY <2>1, <2>3, GetWaitsTasks DEF GetWaits
    <3> QED BY <1>3, <2>1, <3>1, FifoQuiet DEF Stays
  <2>4. CASE GetFails(id, k)
    <3>1. Answer(id, <<>>, <<>>) /\ ready' = Tail(ready) /\ UNCHANGED <<queue, taken, putters, getters>>
      BY <2>4 DEF GetFails
    <3>2. UNCHANGED returned \/ \E r : r.id = id /\ returned' = returned \cup {r}
      BY <3>1, AnswerReturned
    <3>3. Ended(id)
      BY <2>1, <3>1, <3>2, GetFailsTasks
    <3> QED BY <1>3, <2>1, <3>1, <3>3, FifoQuiet DEF Ended
  <2> QED BY <2>1, <2>2, <2>3, <2>4
<1>10. ASSUME NEW id \in Ids, RunGetBatch(id) PROVE FifoInv'
  <2> DEFINE k == Call(id).key
             n == BatchSize(id)
  <2>1. /\ id \in Gets /\ ready # <<>> /\ Head(ready) = id /\ k \in Key
        /\ n \in 0..Len(queue[k])
        /\ TakeItems(k, n) /\ (BatchEnds(id, k) \/ BatchWaits(id, k))
        /\ UNCHANGED <<setup, issued, status, result, chain, recvs, submitted, sent>>
    BY <1>10, RunBatchFacts
  <2>2. n \in Nat
    <3>1. Len(queue[k]) \in Nat
      BY <2>1 DEF TypeInv
    <3> HIDE DEF k, n
    <3> QED BY <2>1, <3>1
  <2>3. \A j \in Key : Line(j)' = Line(j)
    <3> HIDE DEF k, n
    <3> QED BY <2>1, LineTake
  <2> HIDE DEF k, n
  <2>4. \A p \in Puts : held'[p] = held[p]
    BY <1>1, <2>1 DEF BatchEnds, BatchWaits, TypeInv
  <2>5. \A j : Live(j)' => Live(j)
    <3>1. CASE BatchEnds(id, k)
      <4>1. Answer(id, id, Batch(id)) /\ UNCHANGED getters
        BY <3>1 DEF BatchEnds
      <4>2. UNCHANGED returned \/ \E r : r.id = id /\ returned' = returned \cup {r}
        BY <4>1, AnswerReturned
      <4>3. Ended(id)
        BY <2>1, <2>2, <4>1, <4>2, TakeTasks
      <4> QED BY <4>3 DEF Ended
    <3>2. CASE BatchWaits(id, k)
      <4>1. Stays
        BY <2>1, <2>2, <3>2, BatchWaitsTasks
      <4> QED BY <4>1 DEF Stays
    <3> QED BY <2>1, <3>1, <3>2
  <2> QED BY <1>3, <2>1, <2>3, <2>4, <2>5, KeepFifo
<1>11. CASE UNCHANGED vars
  <2>1. UNCHANGED <<setup, issued, sent, queue, taken, held, submitted, ready, getters, putters>>
    BY <1>11 DEF vars, client, wire, worker
  <2>2. \A p \in Puts : Live(p)' => Live(p)
    BY <2>1 DEF Live
  <2> QED BY <1>3, <2>1, <2>2, FifoQuiet
<1> QED BY <1>4, <1>5, <1>6, <1>7, <1>8, <1>9, <1>10, <1>11, FifoWorkerPut, FifoDriverCall, FifoRunPut DEF Next, EventLoop

(***************************************************************************)
(* The items a client puts on one key enter and leave its queue in the     *)
(* order of the calls, although a put task receives whatever item comes    *)
(* next (ChannelWorker.put) and may be woken from a full queue.            *)
(***************************************************************************)
THEOREM ChannelFifo ==
    ASSUME FifoPrograms
    PROVE  Spec => []PerClientFifo
<1>1. Init => FifoInv
  <2> SUFFICES ASSUME Init PROVE FifoInv
    OBVIOUS
  <2>1. \A c \in Client : sent[c] = <<>>
    BY DEF Init
  <2>2. \A k \in Key : Line(k) = <<>>
    BY DEF Init, Line
  <2>3. \A p \in Puts : held[p] = <<>>
    BY DEF Init, Puts
  <2>4. \A p : ~Live(p)
    BY DEF Init, Live, Range
  <2>5. Range(<<>>) = {} /\ Len(<<>>) = 0
    BY DEF Range
  <2> QED BY <2>1, <2>2, <2>3, <2>4, <2>5 DEF FifoInv, SentInv, LineInv, HeldFifo, DriverInv
<1>2. BaseInv /\ FifoInv /\ [Next]_vars => FifoInv'
  BY FifoNext
<1>3. FifoInv => PerClientFifo
  BY DEF FifoInv, LineInv, PerClientFifo, Line
<1> QED BY <1>1, <1>2, <1>3, BaseInit, BaseNext, PTL DEF Spec

-----------------------------------------------------------------------------
(* How full the batches are.                                               *)

IsBatch(id) == Call(id).op = "get_batch"

(* A batch being formed holds items that have left the queue; a batch that *)
(* was sent or returned was ended for one of the two reasons.              *)
FilledInv ==
  /\ \A id \in Gets : IsBatch(id) => Range(held[id]) \subseteq Range(taken[Call(id).key])
  /\ \A r \in returned : r.id \in Gets /\ IsBatch(r.id) => Stopped(r.id, r.data)
  /\ \A c \in Client : \A n \in 1..Len(inbox[c]) : \A g \in Gets :
       inbox[c][n].query = g /\ IsBatch(g) => Stopped(g, inbox[c][n].data)
  /\ \A id \in Gets : IsBatch(id) /\ status[id] = "done" => Stopped(id, result[id])

(* t is s with more items behind.                                          *)
Grown(s, t) == Len(s) <= Len(t) /\ \A n \in 1..Len(s) : t[n] = s[n]

LEMMA GrownFirst ==
    ASSUME NEW S, NEW s \in Seq(S), NEW t \in Seq(S), Grown(s, t), NEW n \in 1..Len(s)
    PROVE  n \in 1..Len(t) /\ t[n] = s[n] /\ SubSeq(t, 1, n - 1) = SubSeq(s, 1, n - 1)
<1>1. Len(s) \in Nat /\ Len(t) \in Nat /\ Len(s) <= Len(t) /\ \A i \in 1..Len(s) : t[i] = s[i]
  BY DEF Grown
<1>2. n \in 1..Len(t) /\ t[n] = s[n]
  BY <1>1
<1>3. /\ SubSeq(t, 1, n - 1) \in Seq(S) /\ Len(SubSeq(t, 1, n - 1)) = n - 1
      /\ \A i \in 1..(n - 1) : SubSeq(t, 1, n - 1)[i] = t[i]
  BY <1>1
<1>4. /\ SubSeq(s, 1, n - 1) \in Seq(S) /\ Len(SubSeq(s, 1, n - 1)) = n - 1
      /\ \A i \in 1..(n - 1) : SubSeq(s, 1, n - 1)[i] = s[i]
  BY <1>1
<1>5. \A i \in 1..(n - 1) : t[i] = s[i]
  BY <1>1
<1>6. \A u, v \in Seq(S) : Len(u) = n - 1 /\ Len(v) = n - 1 /\ (\A i \in 1..(n - 1) : u[i] = v[i]) => u = v
  BY <1>1
<1> QED BY <1>2, <1>3, <1>4, <1>5, <1>6

(* The line of a key only grows.                                           *)
LEMMA LineGrows ==
    ASSUME BaseInv, [Next]_vars
    PROVE  \A k \in Key : Grown(Line(k), Line(k)') /\ Range(taken[k]) \subseteq Range(taken'[k])
<1> USE DEF BaseInv
<1>1. ASSUME UNCHANGED <<queue, taken>>
      PROVE  \A k \in Key : Grown(Line(k), Line(k)') /\ Range(taken[k]) \subseteq Range(taken'[k])
  <2> TAKE k \in Key
  <2>1. Line(k)' = Line(k)
    BY <1>1 DEF Line
  <2>2. Len(Line(k)) \in Nat
    BY LineType
  <2> QED BY <1>1, <2>1, <2>2 DEF Grown
<1>2. ASSUME NEW k \in Key, NEW n \in 0..Len(queue[k]), TakeItems(k, n)
      PROVE  \A j \in Key : Grown(Line(j), Line(j)') /\ Range(taken[j]) \subseteq Range(taken'[j])
  <2> TAKE j \in Key
  <2>1. Line(j)' = Line(j) /\ Len(Line(j)) \in Nat
    BY <1>2, LineTake, LineType
  <2>2. Range(taken[j]) \subseteq Range(taken'[j])
    <3>1. taken[k] \in Seq(Items) /\ SubSeq(queue[k], 1, n) \in Seq(Items)
      BY <1>2 DEF TypeInv
    <3>2. Range(taken[k] \o SubSeq(queue[k], 1, n)) = Range(taken[k]) \cup Range(SubSeq(queue[k], 1, n))
      BY <3>1, ConcatFacts
    <3>3. taken'[j] = IF j = k THEN taken[k] \o SubSeq(queue[k], 1, n) ELSE taken[j]
      BY <1>2 DEF TakeItems, TypeInv
    <3> QED BY <3>2, <3>3
  <2> QED BY <2>1, <2>2 DEF Grown
<1>3. ASSUME NEW k \in Key, NEW x \in Items, taken' = taken, queue' = [queue EXCEPT ![k] = Append(@, x)]
      PROVE  \A j \in Key : Grown(Line(j), Line(j)') /\ Range(taken[j]) \subseteq Range(taken'[j])
  <2> TAKE j \in Key
  <2>1. Line(j) \in Seq(Items)
    BY LineType
  <2>2. Line(j)' = Line(j) \/ Line(j)' = Append(Line(j), x)
    BY <1>3, LinePut
  <2> DEFINE l == Line(j)
  <2>3. Grown(l, l) /\ Grown(l, Append(l, x))
    <3> HIDE DEF l
    <3>1. ASSUME l \in Seq(Items) PROVE Grown(l, l) /\ Grown(l, Append(l, x))
      BY <3>1 DEF Grown
    <3> QED BY <2>1, <3>1 DEF l
  <2> QED BY <1>3, <2>2, <2>3
<1>4. ASSUME NEW id \in Ids, RunPut(id)
      PROVE  \A k \in Key : Grown(Line(k), Line(k)') /\ Range(taken[k]) \subseteq Range(taken'[k])
  <2> DEFINE x == PutItem(id)
  <2>1. /\ x \in Items /\ x.key \in Key /\ taken' = taken
        /\ PutRoom(id, x.key) \/ PutWaits(id, x.key) \/ PutRaises(id, x.key)
    BY <1>4, RunPutFacts
  <2>2. queue' = queue \/ queue' = [queue EXCEPT ![x.key] = Append(@, x)]
    BY <2>1 DEF PutRoom, PutWaits, PutRaises
  <2> HIDE DEF x
  <2> QED BY <1>1, <1>3, <2>1, <2>2
<1>5. ASSUME NEW id \in Ids, RunGet(id)
      PROVE  \A k \in Key : Grown(Line(k), Line(k)') /\ Range(taken[k]) \subseteq Range(taken'[k])
  <2> DEFINE k == Call(id).key
  <2>1. k \in Key /\ (GetTakes(id, k) \/ GetWaits(id, k) \/ GetFails(id, k))
    BY <1>5, RunGetFacts
  <2> HIDE DEF k
  <2>2. CASE GetTakes(id, k)
    <3>1. 1 \in 0..Len(queue[k]) /\ TakeItems(k, 1)
      BY <2>1, <2>2 DEF GetTakes, TypeInv
    <3> QED BY <1>2, <2>1, <3>1
  <2>3. CASE GetWaits(id, k) \/ GetFails(id, k)
    BY <1>1, <2>3 DEF GetWaits, GetFails
  <2> QED BY <2>1, <2>2, <2>3
<1>6. ASSUME NEW id \in Ids, RunGetBatch(id)
      PROVE  \A k \in Key : Grown(Line(k), Line(k)') /\ Range(taken[k]) \subseteq Range(taken'[k])
  BY <1>2, <1>6, RunBatchFacts
<1>7. ASSUME NEW id \in Ids, WorkerPut(id) \/ WorkerGet(id) \/ DriverCall(id) \/ Start(id)
      PROVE  \A k \in Key : Grown(Line(k), Line(k)') /\ Range(taken[k]) \subseteq Range(taken'[k])
  BY <1>1, <1>7 DEF WorkerPut, WorkerGet, DriverCall, Start, worker
<1>8. ASSUME NEW r \in returned, PutCallback(r) \/ DriverReturn(r)
      PROVE  \A k \in Key : Grown(Line(k), Line(k)') /\ Range(taken[k]) \subseteq Range(taken'[k])
  BY <1>1, <1>8 DEF PutCallback, DriverReturn, worker
<1>9. ASSUME NEW c \in Client, Deliver(c)
      PROVE  \A k \in Key : Grown(Line(k), Line(k)') /\ Range(taken[k]) \subseteq Range(taken'[k])
  BY <1>1, <1>9, DeliverFacts
<1>10. CASE UNCHANGED vars
  BY <1>1, <1>10 DEF vars, worker
<1> QED BY <1>4, <1>5, <1>6, <1>7, <1>8, <1>9, <1>10 DEF Next, EventLoop

(* So an ended batch stays ended, and a batch keeps holding taken items.   *)
LEMMA FilledKeeps ==
    ASSUME BaseInv, FilledInv, [Next]_vars, setup' = setup
    PROVE  /\ \A id \in Gets : \A batch : Stopped(id, batch) => Stopped(id, batch)'
           /\ \A id \in Gets : IsBatch(id) => Range(held[id]) \subseteq Range(taken'[Call(id).key])
           /\ Gets' = Gets /\ \A id : Call(id)' = Call(id) /\ IsBatch(id)' = IsBatch(id)
<1> USE DEF BaseInv
<1>1. Gets' = Gets /\ \A id : Call(id)' = Call(id) /\ IsBatch(id)' = IsBatch(id)
  BY SetupFacts DEF Call, Program, IsBatch
<1>2. \A id \in Gets : id \in Ids /\ Call(id).key \in Key
  BY CallFacts DEF Gets, TypeInv
<1>3. ASSUME NEW id \in Gets, NEW batch, Stopped(id, batch)
      PROVE  Stopped(id, batch)'
  <2>1. PICK k \in Key : k = Call(id).key
    BY <1>2
  <2> DEFINE l == Line(k)
             m == Line(k)'
  <2>2. l \in Seq(Items)
    BY LineType
  <2>3. m \in Seq(Items)
    <3>1. TypeInv' /\ Items' = Items
      BY BaseNext, SetupFacts
    <3>2. taken'[k] \in Seq(Items) /\ queue'[k] \in Seq(Items)
      BY <3>1 DEF TypeInv
    <3> QED BY <3>2 DEF Line
  <2>4. Grown(l, m)
    BY LineGrows
  <2>5. \/ Weight(batch) >= Call(id).weight
        \/ \E n \in 1..Len(l) :
             /\ Range(batch) \subseteq Range(SubSeq(l, 1, n - 1))
             /\ ~(Weight(Append(batch, l[n])) <= Call(id).weight)
    BY <1>3, <2>1 DEF Stopped, Line
  <2>6. m = taken'[k] \o queue'[k]
    BY DEF Line
  <2> HIDE DEF l, m
  <2>7. \A n \in 1..Len(l) : n \in 1..Len(m) /\ m[n] = l[n] /\ SubSeq(m, 1, n - 1) = SubSeq(l, 1, n - 1)
    BY <2>2, <2>3, <2>4, GrownFirst
  <2>8. \/ Weight(batch) >= Call(id).weight
        \/ \E n \in 1..Len(m) :
             /\ Range(batch) \subseteq Range(SubSeq(m, 1, n - 1))
             /\ ~(Weight(Append(batch, m[n])) <= Call(id).weight)
    BY <2>5, <2>7
  <2>9. Call(id)'.key = k /\ Call(id)'.weight = Call(id).weight
    BY <1>1, <2>1
  <2> QED BY <2>6, <2>8, <2>9 DEF Stopped
<1>4. ASSUME NEW id \in Gets, IsBatch(id)
      PROVE  Range(held[id]) \subseteq Range(taken'[Call(id).key])
  BY <1>2, <1>4, LineGrows DEF FilledInv
<1> QED BY <1>1, <1>3, <1>4

(* A step that adds no reply and returns nothing.                          *)
LEMMA KeepFilled ==
    ASSUME BaseInv, FilledInv, [Next]_vars, UNCHANGED <<setup, inbox>>,
           \A id \in Gets : IsBatch(id) => held'[id] = held[id],
           \A r \in returned' : r \in returned \/ r.id \notin Gets \/ ~IsBatch(r.id),
           \A id \in Gets : IsBatch(id) /\ status'[id] = "done" =>
             status[id] = "done" /\ result'[id] = result[id]
    PROVE  FilledInv'
<1>1. /\ \A id \in Gets : \A batch : Stopped(id, batch) => Stopped(id, batch)'
      /\ \A id \in Gets : IsBatch(id) => Range(held[id]) \subseteq Range(taken'[Call(id).key])
      /\ Gets' = Gets /\ \A id : Call(id)' = Call(id) /\ IsBatch(id)' = IsBatch(id)
  BY FilledKeeps
<1>2. (\A id \in Gets : IsBatch(id) => Range(held[id]) \subseteq Range(taken[Call(id).key]))'
  BY <1>1
<1>3. (\A r \in returned : r.id \in Gets /\ IsBatch(r.id) => Stopped(r.id, r.data))'
  <2> SUFFICES ASSUME NEW r \in returned', r.id \in Gets, IsBatch(r.id)
               PROVE  Stopped(r.id, r.data)'
    BY <1>1
  <2>1. Stopped(r.id, r.data)
    BY DEF FilledInv
  <2> QED BY <1>1, <2>1
<1>4. (\A c \in Client : \A n \in 1..Len(inbox[c]) : \A g \in Gets :
         inbox[c][n].query = g /\ IsBatch(g) => Stopped(g, inbox[c][n].data))'
  <2> SUFFICES ASSUME NEW c \in Client, NEW n \in 1..Len(inbox[c]), NEW g \in Gets,
                      inbox[c][n].query = g, IsBatch(g)
               PROVE  Stopped(g, inbox[c][n].data)'
    BY <1>1
  <2>1. Stopped(g, inbox[c][n].data)
    BY DEF FilledInv
  <2> QED BY <1>1, <2>1
<1>5. (\A id \in Gets : IsBatch(id) /\ status[id] = "done" => Stopped(id, result[id]))'
  <2> SUFFICES ASSUME NEW id \in Gets, IsBatch(id), status'[id] = "done"
               PROVE  Stopped(id, result[id])'
    BY <1>1
  <2>1. Stopped(id, result[id]) /\ result'[id] = result[id]
    BY DEF FilledInv
  <2> QED BY <1>1, <2>1
<1> QED BY <1>2, <1>3, <1>4, <1>5 DEF FilledInv

(* A get answers.                                                          *)
LEMMA FilledAnswer ==
    ASSUME BaseInv, FilledInv, [Next]_vars, UNCHANGED <<setup, status, result>>,
           NEW id \in Gets, NEW q \in {id, <<>>}, NEW data \in Seq(Items), Answer(id, q, data),
           IsBatch(id) => Stopped(id, data)',
           \A g \in Gets : held'[g] = held[g] \/ held'[g] = <<>>
    PROVE  FilledInv'
<1> USE DEF BaseInv
<1>1. /\ \A g \in Gets : \A batch : Stopped(g, batch) => Stopped(g, batch)'
      /\ \A g \in Gets : IsBatch(g) => Range(held[g]) \subseteq Range(taken'[Call(g).key])
      /\ Gets' = Gets /\ \A j : Call(j)' = Call(j) /\ IsBatch(j)' = IsBatch(j)
  BY FilledKeeps
<1>2. id \in Ids /\ id[1] \in Client /\ id # <<>> /\ \A g \in Gets : g # <<>>
  <2>1. \A g \in Gets : g \in Ids
    BY DEF Gets
  <2> QED BY <2>1, CallFacts DEF TypeInv
<1>3. (\A g \in Gets : IsBatch(g) => Range(held[g]) \subseteq Range(taken[Call(g).key]))'
  <2>1. Range(<<>>) = {}
    BY DEF Range
  <2> QED BY <1>1, <2>1
<1>4. (\A g \in Gets : IsBatch(g) /\ status[g] = "done" => Stopped(g, result[g]))'
  <2> SUFFICES ASSUME NEW g \in Gets, IsBatch(g), status[g] = "done"
               PROVE  Stopped(g, result[g])'
    BY <1>1
  <2>1. Stopped(g, result[g])
    BY DEF FilledInv
  <2> QED BY <1>1, <2>1
<1>5. ASSUME NEW g \in Gets, IsBatch(g), NEW d, (g = id /\ d = data) \/ Stopped(g, d)
      PROVE  Stopped(g, d)'
  BY <1>1, <1>5
<1>6. (\A r \in returned : r.id \in Gets /\ IsBatch(r.id) => Stopped(r.id, r.data))'
  <2> DEFINE m == [id |-> id, out |-> IF q = <<>> THEN "raise" ELSE "ok", data |-> data]
  <2> SUFFICES ASSUME NEW r \in returned', r.id \in Gets, IsBatch(r.id)
               PROVE  Stopped(r.id, r.data)'
    BY <1>1
  <2>1. returned' = returned \/ returned' = returned \cup {m}
    BY DEF Answer
  <2>2. m.id = id /\ m.data = data
    OBVIOUS
  <2> HIDE DEF m
  <2>3. (r.id = id /\ r.data = data) \/ Stopped(r.id, r.data)
    BY <2>1, <2>2 DEF FilledInv
  <2> QED BY <1>5, <2>3
<1>7. (\A c \in Client : \A n \in 1..Len(inbox[c]) : \A g \in Gets :
         inbox[c][n].query = g /\ IsBatch(g) => Stopped(g, inbox[c][n].data))'
  <2> SUFFICES ASSUME NEW c \in Client, NEW n \in 1..Len(inbox'[c]), NEW g \in Gets,
                      inbox'[c][n].query = g, IsBatch(g)
               PROVE  Stopped(g, inbox[c][n].data)'
    BY <1>1
  <2> DEFINE m == [query |-> q, data |-> data]
  <2>1. m.query = q /\ m.data = data /\ m \in Replies
    BY DEF Replies
  <2>2. inbox'[c] = inbox[c] \/ inbox'[c] = Append(inbox[c], m)
    <3>1. inbox' = inbox \/ inbox' = [inbox EXCEPT ![id[1]] = Append(@, m)]
      BY DEF Answer
    <3> HIDE DEF m
    <3> QED BY <1>2, <3>1 DEF TypeInv
  <2>3. inbox[c] \in Seq(Replies)
    BY DEF TypeInv
  <2> HIDE DEF m
  <2>4. \/ n \in 1..Len(inbox[c]) /\ inbox'[c][n] = inbox[c][n]
        \/ inbox'[c][n] = m
    BY <2>1, <2>2, <2>3
  <2>5. (g = id /\ inbox'[c][n].data = data) \/ Stopped(g, inbox'[c][n].data)
    BY <1>2, <2>1, <2>4 DEF FilledInv
  <2> QED BY <1>5, <2>5
<1> QED BY <1>3, <1>4, <1>6, <1>7 DEF FilledInv

LEMMA FilledRunGet ==
    ASSUME BaseInv, FilledInv, NEW id \in Ids, RunGet(id)
    PROVE  FilledInv'
<1> USE DEF BaseInv
<1> DEFINE k == Call(id).key
<1>1. /\ id \in Gets /\ ~IsBatch(id) /\ k \in Key
      /\ GetTakes(id, k) \/ GetWaits(id, k) \/ GetFails(id, k)
      /\ UNCHANGED <<setup, issued, status, result, chain, recvs, submitted, sent, held>>
  BY RunGetFacts DEF IsBatch
<1>2. [Next]_vars
  BY DEF Next, EventLoop
<1>3. queue[k] \in Seq(Items) /\ <<>> \in Seq(Items)
  BY <1>1 DEF TypeInv
<1> HIDE DEF k
<1>4. CASE GetTakes(id, k)
  <2>1. Answer(id, id, <<Head(queue[k])>>) /\ <<Head(queue[k])>> \in Seq(Items)
    BY <1>3, <1>4 DEF GetTakes
  <2> QED BY <1>1, <1>2, <2>1, FilledAnswer
<1>5. CASE GetFails(id, k)
  <2>1. Answer(id, <<>>, <<>>)
    BY <1>5 DEF GetFails
  <2> QED BY <1>1, <1>2, <1>3, <2>1, FilledAnswer
<1>6. CASE GetWaits(id, k)
  <2>1. UNCHANGED <<inbox, returned>>
    BY <1>6 DEF GetWaits
  <2> QED BY <1>1, <1>2, <2>1, KeepFilled
<1> QED BY <1>1, <1>4, <1>5, <1>6

(* get_batch: what it takes has left the queue, and the item that would    *)
(* exceed the target is the next of the line.                              *)
LEMMA FilledRunBatch ==
    ASSUME BaseInv, FilledInv, NEW id \in Ids, RunGetBatch(id)
    PROVE  FilledInv'
<1> USE DEF BaseInv
<1>1. /\ id \in Gets /\ IsBatch(id) /\ Call(id).key \in Key
      /\ BatchSize(id) \in 0..Len(queue[Call(id).key]) /\ Batch(id) \in Seq(Items)
      /\ TakeItems(Call(id).key, BatchSize(id))
      /\ BatchEnds(id, Call(id).key) \/ BatchWaits(id, Call(id).key)
      /\ UNCHANGED <<setup, issued, status, result, chain, recvs, submitted, sent>>
  BY RunBatchFacts DEF IsBatch
<1>2. [Next]_vars
  BY DEF Next, EventLoop
<1>3. PICK k \in Key, n \in 0..Len(queue[Call(id).key]), b \in Seq(Items),
            w \in {Call(id).weight} :
        k = Call(id).key /\ n = BatchSize(id) /\ b = Batch(id) /\ w = Call(id).weight
  BY <1>1
<1>4. Call(id)'.key = k /\ Call(id)'.weight = w
  BY <1>1, <1>3 DEF Call, Program
<1>5. queue[k] \in Seq(Items) /\ taken[k] \in Seq(Items) /\ held[id] \in Seq(Items) /\ n \in 0..Len(queue[k])
  BY <1>1, <1>3 DEF TypeInv
<1> DEFINE q == queue[k]
           u == SubSeq(q, 1, n)
           v == SubSeq(q, n + 1, Len(q))
           t == taken[k] \o u
<1>6. queue'[k] = v /\ taken'[k] = t
  BY <1>1, <1>3 DEF TakeItems, TypeInv
<1>7. u \in Seq(Items) /\ v \in Seq(Items) /\ t \in Seq(Items)
  BY <1>5
<1>8. Range(b) \subseteq Range(t)
  <2>1. b = held[id] \o u
    BY <1>3 DEF Batch
  <2> HIDE DEF u
  <2>2. Range(b) = Range(held[id]) \cup Range(u) /\ Range(t) = Range(taken[k]) \cup Range(u)
    BY <1>5, <1>7, <2>1, ConcatFacts
  <2>3. Range(held[id]) \subseteq Range(taken[k])
    BY <1>1, <1>3 DEF FilledInv
  <2> QED BY <2>2, <2>3
<1>9. ASSUME BatchOver(id, Call(id).key) PROVE Stopped(id, b)'
  <2>1. CASE Weight(b) >= w
    BY <1>4, <2>1 DEF Stopped
  <2>2. CASE n < Len(q) /\ ~(Weight(Append(b, q[n + 1])) <= w)
    <3>1. Len(v) > 0 /\ v[1] = q[n + 1]
      BY <1>5, <2>2
    <3> DEFINE l == t \o v
               p == Len(t) + 1
    <3>2. p \in 1..Len(l) /\ l[p] = q[n + 1] /\ SubSeq(l, 1, p - 1) = t
      <4> HIDE DEF t, v
      <4>1. Len(t) \in Nat /\ Len(v) \in Nat /\ l \in Seq(Items) /\ Len(l) = Len(t) + Len(v)
            /\ l[Len(t) + 1] = v[1] /\ \A i \in 1..Len(t) : l[i] = t[i]
        BY <1>7, <3>1
      <4>2. SubSeq(l, 1, Len(t)) \in Seq(Items) /\ Len(SubSeq(l, 1, Len(t))) = Len(t)
            /\ \A i \in 1..Len(t) : SubSeq(l, 1, Len(t))[i] = l[i]
        <5> HIDE DEF l
        <5> QED BY <3>1, <4>1
      <4>3. \A x, y \in Seq(Items) : Len(x) = Len(y) /\ (\A i \in 1..Len(y) : x[i] = y[i]) => x = y
        OBVIOUS
      <4>4. SubSeq(l, 1, Len(t)) = t
        <5> HIDE DEF l
        <5> QED BY <1>7, <4>1, <4>2, <4>3
      <4>5. p - 1 = Len(t) /\ p \in 1..Len(l)
        BY <3>1, <4>1
      <4> QED BY <3>1, <4>1, <4>4, <4>5
    <3> HIDE DEF t, v, l, p, q
    <3>3. \E i \in 1..Len(l) : Range(b) \subseteq Range(SubSeq(l, 1, i - 1)) /\ ~(Weight(Append(b, l[i])) <= w)
      BY <1>8, <2>2, <3>2
    <3>4. l = taken'[k] \o queue'[k]
      BY <1>6 DEF l
    <3> QED BY <1>4, <3>3, <3>4 DEF Stopped
  <2> QED BY <1>3, <1>9, <2>1, <2>2 DEF BatchOver
<1>10. CASE BatchEnds(id, Call(id).key)
  <2>1. Answer(id, id, b) /\ held' = [held EXCEPT ![id] = <<>>] /\ BatchOver(id, Call(id).key)
    BY <1>3, <1>10 DEF BatchEnds
  <2>2. \A g \in Gets : held'[g] = held[g] \/ held'[g] = <<>>
    BY <2>1 DEF TypeInv, Gets
  <2> QED BY <1>1, <1>2, <1>9, <2>1, <2>2, FilledAnswer
<1>11. CASE BatchWaits(id, Call(id).key)
  <2>1. held' = [held EXCEPT ![id] = b] /\ UNCHANGED <<inbox, returned>>
    BY <1>3, <1>11 DEF BatchWaits
  <2>2. \A g \in Gets : held'[g] = IF g = id THEN b ELSE held[g]
    BY <2>1 DEF TypeInv, Gets
  <2>3. /\ \A g \in Gets : \A batch : Stopped(g, batch) => Stopped(g, batch)'
        /\ \A g \in Gets : IsBatch(g) => Range(held[g]) \subseteq Range(taken'[Call(g).key])
        /\ Gets' = Gets /\ \A j : Call(j)' = Call(j) /\ IsBatch(j)' = IsBatch(j)
    BY <1>1, <1>2, FilledKeeps
  <2>4. (\A g \in Gets : IsBatch(g) => Range(held[g]) \subseteq Range(taken[Call(g).key]))'
    BY <1>3, <1>6, <1>8, <2>2, <2>3
  <2>5. (\A r \in returned : r.id \in Gets /\ IsBatch(r.id) => Stopped(r.id, r.data))'
    BY <2>1, <2>3 DEF FilledInv
  <2>6. (\A c \in Client : \A m \in 1..Len(inbox[c]) : \A g \in Gets :
           inbox[c][m].query = g /\ IsBatch(g) => Stopped(g, inbox[c][m].data))'
    <3> SUFFICES ASSUME NEW c \in Client, NEW m \in 1..Len(inbox[c]), NEW g \in Gets,
                        inbox[c][m].query = g, IsBatch(g)
                 PROVE  Stopped(g, inbox[c][m].data)'
      BY <2>1, <2>3
    <3>1. Stopped(g, inbox[c][m].data)
      BY DEF FilledInv
    <3> QED BY <2>1, <2>3, <3>1
  <2>7. (\A g \in Gets : IsBatch(g) /\ status[g] = "done" => Stopped(g, result[g]))'
    <3> SUFFICES ASSUME NEW g \in Gets, IsBatch(g), status[g] = "done"
                 PROVE  Stopped(g, result[g])'
      BY <1>1, <2>3
    <3>1. Stopped(g, result[g])
      BY DEF FilledInv
    <3> QED BY <1>1, <2>3, <3>1
  <2> QED BY <2>4, <2>5, <2>6, <2>7 DEF FilledInv
<1> QED BY <1>1, <1>10, <1>11

(* A reply is delivered: it is the reply of the get that takes it, or the  *)
(* answer of a get_nowait that found nothing.                              *)
LEMMA FilledDeliver ==
    ASSUME BaseInv, SyncInv, FilledInv, NEW c \in Client, Deliver(c)
    PROVE  FilledInv'
<1> USE DEF BaseInv
<1> DEFINE id == Head(recvs[c])
           m == Head(inbox[c])
<1>1. /\ recvs[c] # <<>> /\ inbox[c] # <<>> /\ InWorker(id)
      /\ recvs[c] \in Seq(Gets) /\ inbox[c] \in Seq(Replies)
      /\ id \in Gets /\ id[1] = c
      /\ inbox' = [inbox EXCEPT ![c] = Tail(@)]
      /\ UNCHANGED <<setup, returned, held>>
      /\ \/ UNCHANGED <<status, result>>
         \/ \E to \in Gets :
              /\ to = Recipient(id, m)
              /\ result' = [result EXCEPT ![to] = m.data]
              /\ \E s \in {"raised", "done"} : status' = [status EXCEPT ![to] = s]
  BY DeliverFacts
<1>2. id = recvs[c][1] /\ 1 \in 1..Len(recvs[c]) /\ m = inbox[c][1] /\ 1 \in 1..Len(inbox[c])
  BY <1>1
<1>3. [Next]_vars
  BY DEF Next
<1>4. /\ \A g \in Gets : \A batch : Stopped(g, batch) => Stopped(g, batch)'
      /\ \A g \in Gets : IsBatch(g) => Range(held[g]) \subseteq Range(taken'[Call(g).key])
      /\ Gets' = Gets /\ \A j : Call(j)' = Call(j) /\ IsBatch(j)' = IsBatch(j)
  BY <1>1, <1>3, FilledKeeps
<1>5. ~Call(id).async /\ IsBatch(id) => m.query = id
  <2>1. c \in Client \ Driver
    BY <1>1 DEF InWorker
  <2>2. CASE NoGet(c)
    BY <1>1, <2>2 DEF NoGet
  <2>3. CASE OneSyncGet(c)
    BY <1>1, <1>2, <2>3 DEF OneSyncGet, IsBatch
  <2>4. CASE AsyncGets(c)
    BY <1>1, <1>2, <2>4 DEF AsyncGets
  <2> QED BY <2>1, <2>2, <2>3, <2>4 DEF SyncInv
<1>6. \A g \in Gets : m.query = g /\ IsBatch(g) => Stopped(g, m.data)
  BY <1>2 DEF FilledInv
<1> HIDE DEF id, m
<1>7. (\A g \in Gets : IsBatch(g) => Range(held[g]) \subseteq Range(taken[Call(g).key]))'
  BY <1>1, <1>4
<1>8. (\A r \in returned : r.id \in Gets /\ IsBatch(r.id) => Stopped(r.id, r.data))'
  BY <1>1, <1>4 DEF FilledInv
<1>9. (\A d \in Client : \A n \in 1..Len(inbox[d]) : \A g \in Gets :
         inbox[d][n].query = g /\ IsBatch(g) => Stopped(g, inbox[d][n].data))'
  <2> SUFFICES ASSUME NEW d \in Client, NEW n \in 1..Len(inbox'[d]), NEW g \in Gets,
                      inbox'[d][n].query = g, IsBatch(g)
               PROVE  Stopped(g, inbox[d][n].data)'
    BY <1>4
  <2>1. \E i \in 1..Len(inbox[d]) : inbox'[d][n] = inbox[d][i]
    <3>1. inbox'[d] = IF d = c THEN Tail(inbox[c]) ELSE inbox[d]
      BY <1>1 DEF TypeInv
    <3>2. \A i \in 1..Len(Tail(inbox[c])) : i + 1 \in 1..Len(inbox[c]) /\ Tail(inbox[c])[i] = inbox[c][i + 1]
      BY <1>1
    <3> QED BY <3>1, <3>2
  <2>2. Stopped(g, inbox'[d][n].data)
    BY <2>1 DEF FilledInv
  <2> QED BY <1>4, <2>2
<1>10. ASSUME NEW g \in Gets, IsBatch(g), status'[g] = "done"
       PROVE  Stopped(g, result'[g])
  <2>1. CASE UNCHANGED <<status, result>>
    BY <1>10, <2>1 DEF FilledInv
  <2>2. ASSUME NEW to \in Gets, to = Recipient(id, m), result' = [result EXCEPT ![to] = m.data],
               NEW s, status' = [status EXCEPT ![to] = s]
        PROVE  Stopped(g, result'[g])
    <3>1. g \in Ids /\ to \in Ids
      BY DEF Gets
    <3>2. CASE g # to
      <4>1. status'[g] = status[g] /\ result'[g] = result[g]
        BY <2>2, <3>1, <3>2 DEF TypeInv
      <4> QED BY <1>10, <4>1 DEF FilledInv
    <3>3. CASE g = to
      <4>1. result'[g] = m.data
        BY <2>2, <3>1, <3>3 DEF TypeInv
      <4>2. m.query = g
        BY <1>5, <1>10, <2>2, <3>3 DEF Recipient
      <4> QED BY <1>6, <1>10, <4>1, <4>2
    <3> QED BY <3>2, <3>3
  <2> QED BY <1>1, <2>1, <2>2
<1>11. (\A g \in Gets : IsBatch(g) /\ status[g] = "done" => Stopped(g, result[g]))'
  <2> SUFFICES ASSUME NEW g \in Gets, IsBatch(g), status'[g] = "done"
               PROVE  Stopped(g, result[g])'
    BY <1>4
  <2> QED BY <1>4, <1>10
<1> QED BY <1>7, <1>8, <1>9, <1>11 DEF FilledInv

LEMMA FilledDriverReturn ==
    ASSUME BaseInv, FilledInv, NEW r \in returned, DriverReturn(r)
    PROVE  FilledInv'
<1> USE DEF BaseInv
<1>1. /\ r.id \in Ids /\ returned' = returned \ {r}
      /\ \E s : status' = [status EXCEPT ![r.id] = s]
      /\ result' = [result EXCEPT ![r.id] = r.data]
      /\ UNCHANGED <<setup, inbox, held>>
  BY DEF DriverReturn, TypeInv, Results, worker
<1>2. [Next]_vars
  BY DEF Next
<1>3. /\ \A g \in Gets : \A batch : Stopped(g, batch) => Stopped(g, batch)'
      /\ \A g \in Gets : IsBatch(g) => Range(held[g]) \subseteq Range(taken'[Call(g).key])
      /\ Gets' = Gets /\ \A j : Call(j)' = Call(j) /\ IsBatch(j)' = IsBatch(j)
  BY <1>1, <1>2, FilledKeeps
<1>4. (\A g \in Gets : IsBatch(g) => Range(held[g]) \subseteq Range(taken[Call(g).key]))'
  BY <1>1, <1>3
<1>5. (\A s \in returned : s.id \in Gets /\ IsBatch(s.id) => Stopped(s.id, s.data))'
  BY <1>1, <1>3 DEF FilledInv
<1>6. (\A d \in Client : \A n \in 1..Len(inbox[d]) : \A g \in Gets :
         inbox[d][n].query = g /\ IsBatch(g) => Stopped(g, inbox[d][n].data))'
  <2> SUFFICES ASSUME NEW d \in Client, NEW n \in 1..Len(inbox[d]), NEW g \in Gets,
                      inbox[d][n].query = g, IsBatch(g)
               PROVE  Stopped(g, inbox[d][n].data)'
    BY <1>1, <1>3
  <2>1. Stopped(g, inbox[d][n].data)
    BY DEF FilledInv
  <2> QED BY <1>1, <1>3, <2>1
<1>7. ASSUME NEW g \in Gets, IsBatch(g), status'[g] = "done"
      PROVE  Stopped(g, result'[g])
  <2>1. g \in Ids
    BY DEF Gets
  <2>2. CASE g = r.id
    <3>1. result'[g] = r.data
      BY <1>1, <2>1, <2>2 DEF TypeInv
    <3> QED BY <1>7, <2>2, <3>1 DEF FilledInv
  <2>3. CASE g # r.id
    <3>1. result'[g] = result[g] /\ status'[g] = status[g]
      BY <1>1, <2>1, <2>3 DEF TypeInv
    <3> QED BY <1>7, <3>1 DEF FilledInv
  <2> QED BY <2>2, <2>3
<1>8. (\A g \in Gets : IsBatch(g) /\ status[g] = "done" => Stopped(g, result[g]))'
  <2> SUFFICES ASSUME NEW g \in Gets, IsBatch(g), status'[g] = "done"
               PROVE  Stopped(g, result[g])'
    BY <1>3
  <2> QED BY <1>3, <1>7
<1> QED BY <1>4, <1>5, <1>6, <1>8 DEF FilledInv

LEMMA FilledNext ==
    ASSUME BaseInv, SyncInv, FilledInv, [Next]_vars
    PROVE  FilledInv'
<1> USE DEF BaseInv
<1>1. \A g \in Gets : g \in Ids /\ g \notin Puts
  BY DEF Gets
<1>2. ASSUME NEW id \in Ids, WorkerPut(id) \/ WorkerGet(id) \/ DriverCall(id) PROVE FilledInv'
  <2>1. /\ UNCHANGED <<setup, result, returned, inbox, held>>
        /\ status' = [status EXCEPT ![id] = "pending"]
    BY <1>2 DEF WorkerPut, WorkerGet, DriverCall, AtCall, worker
  <2>2. \A g \in Gets : status'[g] = "done" => status[g] = "done"
    BY <1>1, <2>1 DEF TypeInv
  <2> QED BY <2>1, <2>2, KeepFilled
<1>3. ASSUME NEW id \in Ids, Start(id) PROVE FilledInv'
  <2>1. UNCHANGED <<setup, status, result, returned, inbox, held>>
    BY <1>3 DEF Start, client
  <2> QED BY <2>1, KeepFilled
<1>4. ASSUME NEW r \in returned, PutCallback(r) PROVE FilledInv'
  <2>1. /\ UNCHANGED <<setup, result, inbox, held>> /\ returned' = returned \ {r}
        /\ UNCHANGED status \/ status' = [status EXCEPT ![r.id] = "done"]
        /\ InWorker(r.id)
    BY <1>4 DEF PutCallback, worker
  <2>2. r.id \in Puts
    BY <2>1 DEF CommInv
  <2>3. \A g \in Gets : status'[g] = status[g]
    BY <1>1, <2>1, <2>2 DEF TypeInv
  <2> QED BY <2>1, <2>3, KeepFilled
<1>5. ASSUME NEW id \in Ids, RunPut(id) PROVE FilledInv'
  <2> DEFINE x == PutItem(id)
  <2>1. /\ id \in Puts
        /\ PutRoom(id, x.key) \/ PutWaits(id, x.key) \/ PutRaises(id, x.key)
        /\ UNCHANGED <<setup, status, result, inbox>>
    BY <1>5, RunPutFacts
  <2>2. \A g \in Gets : held'[g] = held[g]
    BY <1>1, <1>5, <2>1, RunPutFacts DEF PutRoom, PutWaits, PutRaises, TypeInv
  <2>3. \A r \in returned' : r \in returned \/ r.id \notin Gets
    <3>1. id \notin Gets
      BY <1>1, <1>5, RunPutFacts
    <3>2. \/ returned' = returned
          \/ \E o \in {"ok", "raise"} : returned' = returned \cup {[id |-> id, out |-> o, data |-> <<>>]}
      BY <2>1 DEF PutRoom, PutWaits, PutRaises
    <3> QED BY <3>1, <3>2
  <2> QED BY <2>1, <2>2, <2>3, KeepFilled
<1>6. CASE UNCHANGED vars
  <2>1. UNCHANGED <<setup, status, result, returned, inbox, held>>
    BY <1>6 DEF vars, client, wire, worker
  <2> QED BY <2>1, KeepFilled
<1> QED BY <1>2, <1>3, <1>4, <1>5, <1>6, FilledRunGet, FilledRunBatch, FilledDeliver, FilledDriverReturn
      DEF Next, EventLoop

(***************************************************************************)
(* A batch never weighs more than its target, and is short of it only when *)
(* the next item of its key would exceed it (ChannelWorker.get_batch),     *)
(* however many gets, batches and puts share the queue, and the client     *)
(* gets the batch it asked for, when no worker makes a synchronous get     *)
(* after an asynchronous one.                                              *)
(***************************************************************************)
THEOREM ChannelBatchesFilled ==
    ASSUME SyncGetsFirst
    PROVE  Spec => []BatchesFilled
<1> DEFINE Inv == BaseInv /\ SyncInv /\ ResultInv /\ FilledInv
<1>1. Init => Inv
  <2> SUFFICES ASSUME Init PROVE Inv
    OBVIOUS
  <2>1. BaseInv /\ SyncInv /\ ResultInv
    BY BaseInit, SyncInit, ResultInit
  <2>2. FilledInv
    <3>1. \A g \in Gets : g \in Ids
      BY DEF Gets
    <3>2. returned = {} /\ \A c \in Client : inbox[c] = <<>>
      BY DEF Init
    <3>3. \A g \in Gets : held[g] = <<>> /\ status[g] = "new"
      BY <3>1 DEF Init
    <3>4. Range(<<>>) = {} /\ Len(<<>>) = 0
      BY DEF Range
    <3> QED BY <3>2, <3>3, <3>4 DEF FilledInv
  <2> QED BY <2>1, <2>2
<1>2. Inv /\ [Next]_vars => Inv'
  BY BaseNext, SyncNext, ResultNext, FilledNext
<1>3. Inv => BatchesFilled
  BY DEF ResultInv, GoodData, FilledInv, IsBatch, BatchesFilled
<1> QED BY <1>1, <1>2, <1>3, PTL DEF Spec

-----------------------------------------------------------------------------
(* Items on shelves: a shelf is a place with a sequence of items.          *)

Nowhere(A, x) == \A l \in DOMAIN A : \A n \in 1..Len(A[l]) : A[l][n] # x

Only(A, x, l, n) ==
  /\ l \in DOMAIN A /\ n \in 1..Len(A[l]) /\ A[l][n] = x
  /\ \A j \in DOMAIN A : \A m \in 1..Len(A[j]) : A[j][m] = x => j = l /\ m = n

Once(A, x) == \E l, n : Only(A, x, l, n)

(* x is as often on the shelves of B as on those of A.                     *)
Keeps(A, B, x) == (Once(A, x) => Once(B, x)) /\ (Nowhere(A, x) => Nowhere(B, x))

(* The first n items of s, which become t, go to the end of u, which       *)
(* becomes v.                                                              *)
Shifts(s, t, u, v, n) ==
  /\ Len(s) \in Nat /\ Len(u) \in Nat /\ n \in 0..Len(s)
  /\ Len(t) = Len(s) - n /\ \A p \in 1..(Len(s) - n) : t[p] = s[p + n]
  /\ Len(v) = Len(u) + n
  /\ \A p \in 1..Len(u) : v[p] = u[p]
  /\ \A p \in 1..n : v[Len(u) + p] = s[p]

Moves(A, B, i, j, n) ==
  /\ DOMAIN B = DOMAIN A /\ i \in DOMAIN A /\ j \in DOMAIN A /\ i # j
  /\ \A l \in DOMAIN A : l # i /\ l # j => B[l] = A[l]
  /\ Shifts(A[i], B[i], A[j], B[j], n)

LEMMA MoveForward ==
    ASSUME NEW A, NEW B, NEW i, NEW j, NEW n, Moves(A, B, i, j, n),
           NEW l \in DOMAIN A, NEW m \in 1..Len(A[l])
    PROVE  \E k \in DOMAIN B : \E p \in 1..Len(B[k]) : B[k][p] = A[l][m]
<1> USE DEF Moves, Shifts
<1>1. CASE l # i /\ l # j
  BY <1>1
<1>2. CASE l = j
  <2>1. m \in 1..Len(B[j]) /\ B[j][m] = A[j][m]
    BY <1>2
  <2> QED BY <1>2, <2>1
<1>3. CASE l = i /\ m <= n
  <2>1. m \in 1..n /\ Len(A[j]) + m \in 1..Len(B[j])
    BY <1>3
  <2>2. B[j][Len(A[j]) + m] = A[i][m]
    BY <2>1
  <2> QED BY <1>3, <2>1, <2>2
<1>4. CASE l = i /\ ~(m <= n)
  <2>1. m - n \in 1..(Len(A[i]) - n) /\ (m - n) + n = m
    BY <1>4
  <2>2. B[i][m - n] = A[i][m]
    BY <2>1
  <2> QED BY <1>4, <2>1, <2>2
<1> QED BY <1>1, <1>2, <1>3, <1>4

(* Where an item of B was in A.                                            *)
Was(A, i, j, n, k, p, l, m) ==
  \/ k # i /\ k # j /\ l = k /\ m = p
  \/ k = i /\ l = i /\ m = p + n
  \/ k = j /\ p <= Len(A[j]) /\ l = j /\ m = p
  \/ k = j /\ p > Len(A[j]) /\ l = i /\ m = p - Len(A[j])

LEMMA MoveBack ==
    ASSUME NEW A, NEW B, NEW i, NEW j, NEW n, Moves(A, B, i, j, n),
           NEW k \in DOMAIN B, NEW p \in 1..Len(B[k])
    PROVE  \E l \in DOMAIN A : \E m \in 1..Len(A[l]) :
             A[l][m] = B[k][p] /\ Was(A, i, j, n, k, p, l, m)
<1> USE DEF Moves, Shifts
<1>1. CASE k # i /\ k # j
  BY <1>1 DEF Was
<1>2. CASE k = i
  <2>1. p + n \in 1..Len(A[i]) /\ B[i][p] = A[i][p + n]
    BY <1>2
  <2>2. Was(A, i, j, n, k, p, i, p + n)
    BY <1>2 DEF Was
  <2> QED BY <1>2, <2>1, <2>2
<1>3. CASE k = j /\ p <= Len(A[j])
  <2>1. p \in 1..Len(A[j]) /\ B[j][p] = A[j][p]
    BY <1>3
  <2>2. Was(A, i, j, n, k, p, j, p)
    BY <1>3 DEF Was
  <2> QED BY <1>3, <2>1, <2>2
<1>4. CASE k = j /\ ~(p <= Len(A[j]))
  <2>1. p - Len(A[j]) \in 1..n /\ Len(A[j]) + (p - Len(A[j])) = p /\ p > Len(A[j])
    BY <1>4
  <2>2. B[j][p] = A[i][p - Len(A[j])] /\ p - Len(A[j]) \in 1..Len(A[i])
    BY <2>1
  <2>3. Was(A, i, j, n, k, p, i, p - Len(A[j]))
    BY <1>4, <2>1 DEF Was
  <2> QED BY <1>4, <2>2, <2>3
<1> QED BY <1>1, <1>2, <1>3, <1>4

LEMMA MoveKeeps ==
    ASSUME NEW A, NEW B, NEW i, NEW j, NEW n, Moves(A, B, i, j, n), NEW x
    PROVE  Keeps(A, B, x)
<1>1. DOMAIN B = DOMAIN A /\ i # j /\ n \in Nat /\ Len(A[j]) \in Nat
      /\ (\A l \in DOMAIN A : l # i /\ l # j => B[l] = A[l])
      /\ Len(B[i]) \in Int /\ Len(B[j]) \in Int
  BY DEF Moves, Shifts
<1>2. ASSUME Nowhere(A, x) PROVE Nowhere(B, x)
  <2> SUFFICES ASSUME NEW k \in DOMAIN B, NEW p \in 1..Len(B[k]) PROVE B[k][p] # x
    BY DEF Nowhere
  <2>1. PICK l \in DOMAIN A : \E m \in 1..Len(A[l]) : A[l][m] = B[k][p]
    BY MoveBack
  <2> QED BY <1>2, <2>1 DEF Nowhere
<1>3. ASSUME NEW l, NEW m, Only(A, x, l, m) PROVE Once(B, x)
  <2>1. PICK k \in DOMAIN B : \E p \in 1..Len(B[k]) : B[k][p] = A[l][m]
    BY <1>3, MoveForward DEF Only
  <2>2. PICK p \in 1..Len(B[k]) : B[k][p] = x
    BY <1>3, <2>1 DEF Only
  <2>3. ASSUME NEW h \in DOMAIN B, NEW q \in 1..Len(B[h]), B[h][q] = x
        PROVE  Was(A, i, j, n, h, q, l, m)
    <3>1. PICK g \in DOMAIN A : \E r \in 1..Len(A[g]) :
            A[g][r] = B[h][q] /\ Was(A, i, j, n, h, q, g, r)
      BY MoveBack
    <3>2. PICK r \in 1..Len(A[g]) : A[g][r] = B[h][q] /\ Was(A, i, j, n, h, q, g, r)
      BY <3>1
    <3>3. g = l /\ r = m
      BY <1>3, <2>3, <3>2 DEF Only
    <3> QED BY <3>2, <3>3
  <2>4. ASSUME NEW h \in DOMAIN B, NEW q \in 1..Len(B[h]), B[h][q] = x
        PROVE  h = k /\ q = p
    <3>1. Was(A, i, j, n, h, q, l, m) /\ Was(A, i, j, n, k, p, l, m)
      BY <2>2, <2>3, <2>4
    <3>2. q \in Int /\ p \in Int
      OBVIOUS
    <3>3. h = k
      <4>1. (l # i => h = l) /\ (l # i => k = l)
        BY <1>1, <3>1 DEF Was
      <4>2. CASE l = i
        <5>1. h \in {i, j} /\ k \in {i, j}
          BY <3>1, <4>2 DEF Was
        <5>2. h = i => m > n
          BY <1>1, <2>4, <3>1, <3>2, <4>2, <5>1 DEF Was
        <5>3. k = i => m > n
          BY <1>1, <2>2, <3>1, <3>2, <4>2, <5>1 DEF Was
        <5>4. h = j => m <= n
          <6>1. h = j => m = q - Len(A[j]) /\ q \in 1..Len(B[j])
            BY <1>1, <2>4, <3>1, <4>2 DEF Was
          <6>2. Len(B[j]) = Len(A[j]) + n
            BY DEF Moves, Shifts
          <6> QED BY <1>1, <6>1, <6>2
        <5>5. k = j => m <= n
          <6>1. k = j => m = p - Len(A[j]) /\ p \in 1..Len(B[j])
            BY <1>1, <2>2, <3>1, <4>2 DEF Was
          <6>2. Len(B[j]) = Len(A[j]) + n
            BY DEF Moves, Shifts
          <6> QED BY <1>1, <6>1, <6>2
        <5>6. m \in Int
          BY <1>3 DEF Only
        <5>7. ~(m > n /\ m <= n)
          BY <1>1, <5>6
        <5> QED BY <5>1, <5>2, <5>3, <5>4, <5>5, <5>7
      <4> QED BY <4>1, <4>2
    <3>4. q = p
      BY <1>1, <3>1, <3>2, <3>3 DEF Was
    <3> QED BY <3>3, <3>4
  <2> QED BY <2>2, <2>4 DEF Once, Only
<1> QED BY <1>2, <1>3 DEF Keeps, Once

LEMMA ShiftHead ==
    ASSUME NEW S, NEW s \in Seq(S), s # <<>>, NEW u \in Seq(S)
    PROVE  Shifts(s, Tail(s), u, Append(u, Head(s)), 1)
<1>1. /\ Len(s) \in Nat \ {0} /\ Len(Tail(s)) = Len(s) - 1 /\ Head(s) = s[1]
      /\ \A p \in 1..(Len(s) - 1) : Tail(s)[p] = s[p + 1]
  BY TailFacts
<1>2. /\ Len(u) \in Nat /\ Len(Append(u, Head(s))) = Len(u) + 1
      /\ \A p \in 1..Len(u) : Append(u, Head(s))[p] = u[p]
      /\ Append(u, Head(s))[Len(u) + 1] = Head(s)
  <2>1. Head(s) \in S
    BY TailFacts
  <2> QED BY <2>1
<1>3. 1 \in 0..Len(s) /\ \A p \in 1..1 : p = 1
  BY <1>1
<1> QED BY <1>1, <1>2, <1>3 DEF Shifts

LEMMA ShiftFirst ==
    ASSUME NEW S, NEW s \in Seq(S), NEW n \in 0..Len(s), NEW u \in Seq(S)
    PROVE  Shifts(s, SubSeq(s, n + 1, Len(s)), u, u \o SubSeq(s, 1, n), n)
<1> DEFINE t == SubSeq(s, n + 1, Len(s))
           f == SubSeq(s, 1, n)
<1>1. Len(s) \in Nat /\ Len(u) \in Nat /\ n \in Nat
  OBVIOUS
<1>2. Len(t) = Len(s) - n /\ \A p \in 1..(Len(s) - n) : t[p] = s[p + n]
  <2>1. Len(t) = Len(s) - n
    BY <1>1
  <2>2. \A p \in 1..(Len(s) - n) : t[p] = s[p + n]
    BY <1>1
  <2> QED BY <2>1, <2>2
<1>3. f \in Seq(S) /\ Len(f) = n /\ \A p \in 1..n : f[p] = s[p]
  BY <1>1
<1> HIDE DEF t, f
<1>4. /\ Len(u \o f) = Len(u) + n
      /\ \A p \in 1..Len(u) : (u \o f)[p] = u[p]
      /\ \A p \in 1..n : (u \o f)[Len(u) + p] = s[p]
  BY <1>1, <1>3
<1>5. Shifts(s, t, u, u \o f, n)
  BY <1>1, <1>2, <1>4 DEF Shifts
<1> QED BY <1>5 DEF t, f

LEMMA ShiftAll ==
    ASSUME NEW S, NEW s \in Seq(S)
    PROVE  Shifts(s, <<>>, <<>>, s, Len(s))
<1>1. Len(s) \in Nat /\ Len(<<>>) = 0
  OBVIOUS
<1> QED BY <1>1 DEF Shifts

(* An item comes to a shelf.                                               *)
Comes(A, B, j, y) ==
  /\ DOMAIN B = DOMAIN A /\ j \in DOMAIN A
  /\ \A l \in DOMAIN A : l # j => B[l] = A[l]
  /\ Len(A[j]) \in Nat /\ Len(B[j]) = Len(A[j]) + 1
  /\ \A p \in 1..Len(A[j]) : B[j][p] = A[j][p]
  /\ B[j][Len(A[j]) + 1] = y

LEMMA ComesKeeps ==
    ASSUME NEW A, NEW B, NEW j, NEW y, Comes(A, B, j, y), NEW x
    PROVE  /\ x # y => Keeps(A, B, x)
           /\ Nowhere(A, y) => Once(B, y)
<1> DEFINE e == Len(A[j]) + 1
<1>1. DOMAIN B = DOMAIN A /\ j \in DOMAIN A /\ Len(A[j]) \in Nat
      /\ (\A l \in DOMAIN A : l # j => B[l] = A[l])
  BY DEF Comes
<1>2. \A l \in DOMAIN A : \A m \in 1..Len(A[l]) : m \in 1..Len(B[l]) /\ B[l][m] = A[l][m]
  BY DEF Comes
<1>3. \A l \in DOMAIN A : \A m \in 1..Len(B[l]) :
        \/ m \in 1..Len(A[l]) /\ B[l][m] = A[l][m]
        \/ l = j /\ m = e /\ B[l][m] = y
  BY DEF Comes
<1>4. e \in 1..Len(B[j]) /\ B[j][e] = y
  BY DEF Comes
<1> HIDE DEF e
<1>5. ASSUME x # y PROVE Keeps(A, B, x)
  <2>1. Nowhere(A, x) => Nowhere(B, x)
    BY <1>1, <1>3, <1>5 DEF Nowhere
  <2>2. ASSUME NEW l, NEW m, Only(A, x, l, m) PROVE Only(B, x, l, m)
    BY <1>1, <1>2, <1>3, <1>5, <2>2 DEF Only
  <2> QED BY <2>1, <2>2 DEF Keeps, Once
<1>6. ASSUME Nowhere(A, y) PROVE Once(B, y)
  <2>1. Only(B, y, j, e)
    BY <1>1, <1>3, <1>4, <1>6 DEF Only, Nowhere
  <2> QED BY <2>1 DEF Once
<1> QED BY <1>5, <1>6

-----------------------------------------------------------------------------
(* The items of a channel on shelves: the links, the queues, the hands of  *)
(* the tasks, the replies on their way and the results.                    *)

(* The data that is on its way to the caller of g.                         *)
Sent(g) ==
  IF InWorker(g)
  THEN {inbox[g[1]][n].data : n \in {n \in 1..Len(inbox[g[1]]) : inbox[g[1]][n].query = g}}
  ELSE {r.data : r \in {r \in returned : r.id = g}}

Sole(D) == IF D = {} THEN <<>> ELSE CHOOSE d \in D : TRUE

Replied == [g \in Ids |-> Sole(Sent(g))]

Shelves ==
  ({"sent"} \X Client) \cup ({"queue"} \X Key) \cup ({"held", "result", "reply"} \X Ids)

Stock ==
  [l \in Shelves |->
     CASE l[1] = "sent"   -> sent[l[2]]
       [] l[1] = "queue"  -> queue[l[2]]
       [] l[1] = "held"   -> held[l[2]]
       [] l[1] = "result" -> result[l[2]]
       [] OTHER           -> Replied[l[2]]]

LEMMA SoleFacts == Sole({}) = <<>> /\ \A d : Sole({d}) = d
  BY DEF Sole

LEMMA ShelfKinds ==
    ASSUME NEW l \in Shelves
    PROVE  \/ \E c \in Client : l = <<"sent", c>>
           \/ \E k \in Key : l = <<"queue", k>>
           \/ \E i \in Ids : l = <<"held", i>> \/ l = <<"result", i>> \/ l = <<"reply", i>>
  BY DEF Shelves

LEMMA StockAt ==
    /\ DOMAIN Stock = Shelves
    /\ \A c \in Client : <<"sent", c>> \in Shelves /\ Stock[<<"sent", c>>] = sent[c]
    /\ \A k \in Key : <<"queue", k>> \in Shelves /\ Stock[<<"queue", k>>] = queue[k]
    /\ \A i \in Ids : /\ <<"held", i>> \in Shelves /\ Stock[<<"held", i>>] = held[i]
                      /\ <<"result", i>> \in Shelves /\ Stock[<<"result", i>>] = result[i]
                      /\ <<"reply", i>> \in Shelves /\ Stock[<<"reply", i>>] = Replied[i]
<1>1. DOMAIN Stock = Shelves
  BY DEF Stock
<1>2. \A c \in Client : <<"sent", c>> \in Shelves /\ Stock[<<"sent", c>>] = sent[c]
  BY DEF Stock, Shelves
<1>3. \A k \in Key : <<"queue", k>> \in Shelves /\ Stock[<<"queue", k>>] = queue[k]
  BY DEF Stock, Shelves
<1>4. \A i \in Ids : /\ <<"held", i>> \in Shelves /\ Stock[<<"held", i>>] = held[i]
                     /\ <<"result", i>> \in Shelves /\ Stock[<<"result", i>>] = result[i]
                     /\ <<"reply", i>> \in Shelves /\ Stock[<<"reply", i>>] = Replied[i]
  BY DEF Stock, Shelves
<1> QED BY <1>1, <1>2, <1>3, <1>4

LEMMA StockAfter ==
    ASSUME setup' = setup
    PROVE  /\ DOMAIN Stock' = Shelves
           /\ \A c \in Client : Stock'[<<"sent", c>>] = sent'[c]
           /\ \A k \in Key : Stock'[<<"queue", k>>] = queue'[k]
           /\ \A i \in Ids : /\ Stock'[<<"held", i>>] = held'[i]
                             /\ Stock'[<<"result", i>>] = result'[i]
                             /\ Stock'[<<"reply", i>>] = Replied'[i]
<1>1. Shelves' = Shelves
  BY SetupFacts DEF Shelves
<1>2. Stock' = [l \in Shelves |->
                  CASE l[1] = "sent"   -> sent'[l[2]]
                    [] l[1] = "queue"  -> queue'[l[2]]
                    [] l[1] = "held"   -> held'[l[2]]
                    [] l[1] = "result" -> result'[l[2]]
                    [] OTHER           -> Replied'[l[2]]]
  BY <1>1 DEF Stock
<1>3. DOMAIN Stock' = Shelves
  BY <1>2
<1>4. \A c \in Client : Stock'[<<"sent", c>>] = sent'[c]
  BY <1>2 DEF Shelves
<1>5. \A k \in Key : Stock'[<<"queue", k>>] = queue'[k]
  BY <1>2 DEF Shelves
<1>6. \A i \in Ids : /\ Stock'[<<"held", i>>] = held'[i]
                     /\ Stock'[<<"result", i>>] = result'[i]
                     /\ Stock'[<<"reply", i>>] = Replied'[i]
  BY <1>2 DEF Shelves
<1> QED BY <1>3, <1>4, <1>5, <1>6

(* A step that changes nothing but the shelves i and j.                    *)
Untouched(i, j) ==
  /\ setup' = setup
  /\ \A c \in Client : <<"sent", c>> \notin {i, j} => sent'[c] = sent[c]
  /\ \A k \in Key : <<"queue", k>> \notin {i, j} => queue'[k] = queue[k]
  /\ \A g \in Ids : /\ <<"held", g>> \notin {i, j} => held'[g] = held[g]
                    /\ <<"result", g>> \notin {i, j} => result'[g] = result[g]
                    /\ <<"reply", g>> \notin {i, j} => Replied'[g] = Replied[g]

LEMMA StockSame ==
    ASSUME NEW i, NEW j, Untouched(i, j)
    PROVE  DOMAIN Stock' = DOMAIN Stock /\ \A l \in DOMAIN Stock : l # i /\ l # j => Stock'[l] = Stock[l]
<1>1. setup' = setup
  BY DEF Untouched
<1>2. DOMAIN Stock' = Shelves /\ DOMAIN Stock = Shelves
  BY <1>1, StockAt, StockAfter
<1>3. ASSUME NEW l \in Shelves, l \notin {i, j} PROVE Stock'[l] = Stock[l]
  <2>1. ASSUME NEW c \in Client, l = <<"sent", c>> PROVE Stock'[l] = Stock[l]
    BY <1>1, <1>3, <2>1, StockAt, StockAfter DEF Untouched
  <2>2. ASSUME NEW k \in Key, l = <<"queue", k>> PROVE Stock'[l] = Stock[l]
    BY <1>1, <1>3, <2>2, StockAt, StockAfter DEF Untouched
  <2>3. ASSUME NEW g \in Ids, l = <<"held", g>> PROVE Stock'[l] = Stock[l]
    BY <1>1, <1>3, <2>3, StockAt, StockAfter DEF Untouched
  <2>4. ASSUME NEW g \in Ids, l = <<"result", g>> PROVE Stock'[l] = Stock[l]
    BY <1>1, <1>3, <2>4, StockAt, StockAfter DEF Untouched
  <2>5. ASSUME NEW g \in Ids, l = <<"reply", g>> PROVE Stock'[l] = Stock[l]
    BY <1>1, <1>3, <2>5, StockAt, StockAfter DEF Untouched
  <2> QED BY <1>3, <2>1, <2>2, <2>3, <2>4, <2>5, ShelfKinds
<1> QED BY <1>2, <1>3

(* Effects of the steps on the replies.                                    *)

LEMMA RepliedAt ==
    ASSUME setup' = setup, NEW g \in Ids
    PROVE  /\ Sent(g)' = Sent(g) => Replied'[g] = Replied[g]
           /\ Sent(g) = {} => Replied[g] = <<>>
           /\ Sent(g)' = {} => Replied'[g] = <<>>
           /\ \A d : Sent(g) = {d} => Replied[g] = d
           /\ \A d : Sent(g)' = {d} => Replied'[g] = d
<1>1. Replied[g] = Sole(Sent(g))
  BY DEF Replied
<1>2. Replied'[g] = Sole(Sent(g)')
  BY SetupFacts DEF Replied, Sole
<1> QED BY <1>1, <1>2, SoleFacts

(* A get that runs has no reply yet.                                       *)
LEMMA NoReplyYet ==
    ASSUME BaseInv, NEW g \in Ids, Live(g)
    PROVE  Sent(g) = {}
<1> USE DEF BaseInv
<1>1. CASE InWorker(g)
  <2>1. \A n \in 1..Len(inbox[g[1]]) : inbox[g[1]][n].query # g
    <3>1. g[1] \in Client
      BY CallFacts DEF TypeInv
    <3>2. CASE g \in Gets
      BY <3>1, <3>2 DEF CommInv
    <3>3. CASE g \notin Gets
      <4> SUFFICES ASSUME NEW n \in 1..Len(inbox[g[1]]) PROVE inbox[g[1]][n].query # g
        OBVIOUS
      <4>1. inbox[g[1]][n] \in Replies
        BY <3>1 DEF TypeInv
      <4>2. g # <<>>
        BY CallFacts DEF TypeInv
      <4> QED BY <3>3, <4>1, <4>2 DEF Replies
    <3> QED BY <3>2, <3>3
  <2> QED BY <1>1, <2>1 DEF Sent
<1>2. CASE ~InWorker(g)
  <2>1. \A r \in returned : r.id # g
    BY DEF TaskInv, Replying
  <2> QED BY <1>2, <2>1 DEF Sent
<1> QED BY <1>1, <1>2

LEMMA RepliedQuiet ==
    ASSUME UNCHANGED <<setup, inbox, returned>>
    PROVE  \A g \in Ids : Replied'[g] = Replied[g]
<1> TAKE g \in Ids
<1>1. Sent(g)' = Sent(g)
  BY DEF Sent, InWorker
<1> QED BY <1>1, RepliedAt

(* The result of a put is no item.                                         *)
LEMMA RepliedPut ==
    ASSUME BaseInv, NEW id \in Puts, Live(id), UNCHANGED <<setup, inbox>>,
           \/ UNCHANGED returned
           \/ \E r : r.id = id /\ r.data = <<>> /\ returned' = returned \cup {r}
    PROVE  \A g \in Ids : Replied'[g] = Replied[g]
<1> TAKE g \in Ids
<1>0. CASE UNCHANGED returned
  BY <1>0, RepliedQuiet
<1>1. ASSUME NEW r, r.id = id, r.data = <<>>, returned' = returned \cup {r}
      PROVE  Replied'[g] = Replied[g]
  <2>1. CASE InWorker(g) \/ g # id
    <3>1. Sent(g)' = Sent(g)
      BY <1>1, <2>1 DEF Sent, InWorker
    <3> QED BY <3>1, RepliedAt
  <2>2. CASE ~InWorker(g) /\ g = id
    <3>1. Sent(g) = {}
      BY <2>2, NoReplyYet
    <3>2. \A s \in returned : s.id # id
      BY DEF BaseInv, TaskInv, Replying, Puts
    <3>3. Sent(g)' = {<<>>}
      BY <1>1, <2>2, <3>2 DEF Sent, InWorker
    <3> QED BY <3>1, <3>3, RepliedAt
  <2> QED BY <2>1, <2>2
<1> QED BY <1>0, <1>1

LEMMA RepliedPutCallback ==
    ASSUME NEW r \in returned, PutCallback(r)
    PROVE  \A g \in Ids : Replied'[g] = Replied[g]
<1> TAKE g \in Ids
<1>1. UNCHANGED <<setup, inbox>> /\ InWorker(r.id) /\ returned' = returned \ {r}
  BY DEF PutCallback
<1>2. Sent(g)' = Sent(g)
  BY <1>1 DEF Sent, InWorker
<1> QED BY <1>1, <1>2, RepliedAt

LEMMA RepliedDriverReturn ==
    ASSUME BaseInv, NEW r \in returned, DriverReturn(r)
    PROVE  /\ r.id \in Ids /\ Replied[r.id] = r.data /\ Replied'[r.id] = <<>>
           /\ \A g \in Ids : g # r.id => Replied'[g] = Replied[g]
<1> USE DEF BaseInv
<1>1. UNCHANGED <<setup, inbox>> /\ ~InWorker(r.id) /\ returned' = returned \ {r}
  BY DEF DriverReturn
<1>2. r.id \in Ids
  BY DEF TypeInv, Results
<1>3. \A s \in returned : s.id = r.id => s = r
  BY DEF TaskInv
<1>4. Sent(r.id) = {r.data}
  BY <1>1, <1>3 DEF Sent
<1>5. ASSUME NEW g \in Ids, g # r.id PROVE Replied'[g] = Replied[g]
  <2>1. Sent(g)' = Sent(g)
    BY <1>1, <1>5 DEF Sent, InWorker
  <2> QED BY <1>1, <2>1, RepliedAt
<1>6. Replied[r.id] = r.data
  BY <1>1, <1>2, <1>4, RepliedAt
<1>7. Replied'[r.id] = <<>>
  <2>1. \A i \in Ids : Sent(i)' = {} => Replied'[i] = <<>>
    BY <1>1, RepliedAt
  <2>2. PICK i \in Ids : i = r.id
    BY <1>2
  <2>3. Sent(i)' = {}
    BY <1>1, <1>3, <2>2 DEF Sent, InWorker
  <2> QED BY <2>1, <2>2, <2>3
<1> QED BY <1>2, <1>5, <1>6, <1>7

LEMMA RepliedAnswer ==
    ASSUME BaseInv, NEW id \in Gets, Live(id), NEW q \in {id, <<>>},
           NEW data, q = <<>> => data = <<>>, Answer(id, q, data), setup' = setup
    PROVE  /\ id \in Ids /\ Replied[id] = <<>> /\ Replied'[id] = data
           /\ \A g \in Ids : g # id => Replied'[g] = Replied[g]
<1> USE DEF BaseInv
<1>1. id \in Ids /\ id[1] \in Client /\ id # <<>>
  <2>1. id \in Ids
    BY DEF Gets
  <2> QED BY <2>1, CallFacts DEF TypeInv
<1>2. Sent(id) = {} /\ Replied[id] = <<>>
  BY <1>1, NoReplyYet, RepliedAt
<1>3. CASE InWorker(id)
  <2> DEFINE m == [query |-> q, data |-> data]
             c == id[1]
             s == inbox[c]
  <2>1. returned' = returned /\ inbox' = [inbox EXCEPT ![c] = Append(@, m)]
    BY <1>3 DEF Answer
  <2>2. \A d \in Client : inbox'[d] = IF d = c THEN Append(s, m) ELSE inbox[d]
    BY <1>1, <2>1 DEF TypeInv
  <2>3. m.query = q /\ m.data = data
    OBVIOUS
  <2>4. Len(s) \in Nat /\ DOMAIN s = 1..Len(s)
    BY <1>1 DEF TypeInv
  <2>5. /\ Len(Append(s, m)) = Len(s) + 1 /\ Append(s, m)[Len(s) + 1] = m
        /\ \A n \in 1..Len(s) : Append(s, m)[n] = s[n]
    <3>1. s \in Seq(Replies)
      BY <1>1 DEF TypeInv
    <3>2. s \in Seq(Replies \cup {m}) /\ m \in Replies \cup {m}
      BY <3>1
    <3> HIDE DEF m, s
    <3> QED BY <3>2
  <2>6. 1..(Len(s) + 1) = 1..Len(s) \cup {Len(s) + 1}
    BY <2>4
  <2> DEFINE t == Append(s, m)
  <2> HIDE DEF m, s, t, c
  <2>7. \A g : {n \in 1..Len(t) : t[n].query = g}
                 = {n \in 1..Len(s) : s[n].query = g} \cup (IF g = q THEN {Len(s) + 1} ELSE {})
    BY <2>3, <2>4, <2>5, <2>6 DEF t
  <2>8. \A g \in Ids : g # id => Sent(g)' = Sent(g)
    <3> SUFFICES ASSUME NEW g \in Ids, g # id PROVE Sent(g)' = Sent(g)
      OBVIOUS
    <3>1. CASE g[1] = c /\ InWorker(g)
      <4>1. g # q
        <5>1. g # <<>>
          BY CallFacts DEF TypeInv
        <5> QED BY <5>1
      <4>2. {n \in 1..Len(t) : t[n].query = g} = {n \in 1..Len(s) : s[n].query = g}
        <5> DEFINE more == {n \in 1..Len(t) : t[n].query = g}
                   old == {n \in 1..Len(s) : s[n].query = g}
        <5>1. more = old \cup (IF g = q THEN {Len(s) + 1} ELSE {})
          BY <2>7
        <5> HIDE DEF more, old
        <5>2. more = old
          BY <4>1, <5>1
        <5> QED BY <5>2 DEF more, old
      <4>3. \A n \in 1..Len(s) : t[n].data = s[n].data
        BY <2>5 DEF t
      <4>4. inbox'[g[1]] = t /\ inbox[g[1]] = s
        BY <1>1, <2>2, <3>1 DEF t, s, c
      <4>5. Sent(g) = {s[n].data : n \in {n \in 1..Len(s) : s[n].query = g}}
        BY <3>1, <4>4 DEF Sent
      <4>6. Sent(g)' = {t[n].data : n \in {n \in 1..Len(t) : t[n].query = g}}
        BY <3>1, <4>4 DEF Sent, InWorker
      <4> QED BY <4>2, <4>3, <4>5, <4>6
    <3>2. CASE g[1] # c /\ InWorker(g)
      <4>1. g[1] \in Client
        BY CallFacts DEF TypeInv
      <4>2. inbox'[g[1]] = inbox[g[1]]
        BY <2>2, <3>2, <4>1
      <4> QED BY <3>2, <4>2 DEF Sent, InWorker
    <3>3. CASE ~InWorker(g)
      BY <2>1, <3>3 DEF Sent, InWorker
    <3> QED BY <3>1, <3>2, <3>3
  <2>9. Sent(id)' = IF q = id THEN {data} ELSE {}
    <3>1. {n \in 1..Len(s) : s[n].query = id} = {}
      BY <1>2, <1>3 DEF Sent, s, c
    <3>2. {n \in 1..Len(t) : t[n].query = id} = IF q = id THEN {Len(s) + 1} ELSE {}
      BY <2>7, <3>1
    <3>3. inbox'[id[1]] = t
      BY <1>1, <2>2 DEF t, c
    <3>4. Sent(id)' = {t[n].data : n \in {n \in 1..Len(t) : t[n].query = id}}
      BY <1>3, <3>3 DEF Sent, InWorker
    <3>5. t[Len(s) + 1].data = data
      BY <2>3, <2>5 DEF t
    <3> QED BY <3>2, <3>4, <3>5
  <2>10. Replied'[id] = data
    BY <1>1, <2>9, RepliedAt
  <2> QED BY <1>1, <1>2, <2>8, <2>10, RepliedAt
<1>4. CASE ~InWorker(id)
  <2>1. \E r : r.id = id /\ r.data = data /\ returned' = returned \cup {r}
    <3> DEFINE r == [id |-> id, out |-> IF q = <<>> THEN "raise" ELSE "ok", data |-> data]
    <3>1. r.id = id /\ r.data = data /\ returned' = returned \cup {r}
      BY <1>4 DEF Answer
    <3> HIDE DEF r
    <3> QED BY <3>1
  <2>2. PICK r : r.id = id /\ r.data = data /\ returned' = returned \cup {r}
    BY <2>1
  <2>3. inbox' = inbox
    BY <1>4 DEF Answer
  <2>4. \A x \in returned : x.id # id
    BY <1>1 DEF TaskInv, Replying
  <2>5. Sent(id)' = {data}
    BY <1>4, <2>2, <2>4 DEF Sent, InWorker
  <2>6. \A g \in Ids : g # id => Sent(g)' = Sent(g)
    BY <2>2, <2>3 DEF Sent, InWorker
  <2> QED BY <1>1, <1>2, <2>5, <2>6, RepliedAt
<1> QED BY <1>3, <1>4

LEMMA RepliedDeliver ==
    ASSUME BaseInv, NEW c \in Client, Deliver(c)
    PROVE  LET m == Head(inbox[c]) IN
           /\ \A g \in Ids : g # m.query => Replied'[g] = Replied[g]
           /\ m.query \in Gets => Replied[m.query] = m.data /\ Replied'[m.query] = <<>>
           /\ m.query = <<>> => m.data = <<>>
<1> USE DEF BaseInv
<1> DEFINE m == Head(inbox[c])
           s == inbox[c]
           t == Tail(s)
<1>1. /\ s # <<>> /\ s \in Seq(Replies) /\ InWorker(Head(recvs[c]))
      /\ Head(recvs[c])[1] = c /\ m \in Replies
      /\ inbox' = [inbox EXCEPT ![c] = Tail(@)]
      /\ UNCHANGED <<setup, returned>>
  BY DeliverFacts
<1>2. /\ Len(s) \in Nat \ {0} /\ m = s[1] /\ Len(t) = Len(s) - 1
      /\ \A n \in 1..(Len(s) - 1) : n + 1 \in 1..Len(s) /\ t[n] = s[n + 1]
  BY <1>1, TailFacts
<1>3. \A d \in Client : inbox'[d] = IF d = c THEN t ELSE inbox[d]
  BY <1>1 DEF TypeInv
<1>4. c \notin Driver
  BY <1>1 DEF InWorker
<1>5. \A i, j \in 1..Len(s) : s[i].query = s[j].query /\ s[i].query # <<>> => i = j
  BY DEF CommInv
<1>6. \A q \in Gets : \A i \in 1..Len(s) : s[i].query = q => q[1] = c
  BY DEF CommInv
<1>7. m.query = <<>> => m.data = <<>>
  BY <1>2 DEF DataInv
<1>8. \A g \in Ids : g # <<>> /\ g[1] \in Client
  BY CallFacts DEF TypeInv
<1> HIDE DEF m, s, t
<1>9. \A g : g[1] = c => /\ Sent(g) = {s[n].data : n \in {n \in 1..Len(s) : s[n].query = g}}
                         /\ Sent(g)' = {t[n].data : n \in {n \in 1..Len(t) : t[n].query = g}}
  BY <1>3, <1>4 DEF Sent, InWorker, s
<1>10. ASSUME NEW g \in Ids, g # m.query PROVE Replied'[g] = Replied[g]
  <2>1. CASE g[1] = c
    <3>1. \A n \in 1..Len(s) : s[n].query = g => n - 1 \in 1..Len(t) /\ t[n - 1] = s[n]
      <4> TAKE n \in 1..Len(s)
      <4> HAVE s[n].query = g
      <4>1. n # 1
        BY <1>2, <1>10
      <4>2. n - 1 \in 1..(Len(s) - 1) /\ (n - 1) + 1 = n
        BY <1>2, <4>1
      <4> QED BY <1>2, <4>2
    <3>2. \A n \in 1..Len(t) : n + 1 \in 1..Len(s) /\ t[n] = s[n + 1]
      BY <1>2
    <3>3. Sent(g)' \subseteq Sent(g)
      BY <1>9, <2>1, <3>2
    <3>4. Sent(g) \subseteq Sent(g)'
      BY <1>9, <2>1, <3>1
    <3>5. Sent(g)' = Sent(g)
      BY <3>3, <3>4
    <3> QED BY <1>1, <3>5, RepliedAt
  <2>2. CASE g[1] # c
    <3>1. Sent(g)' = Sent(g)
      BY <1>1, <1>3, <1>8, <2>2 DEF Sent, InWorker
    <3> QED BY <1>1, <3>1, RepliedAt
  <2> QED BY <2>1, <2>2
<1>11. ASSUME NEW g \in Ids, g \in Gets, m.query = g
       PROVE  Replied[g] = m.data /\ Replied'[g] = <<>>
  <2>1. 1 \in 1..Len(s) /\ s[1].query = g /\ s[1].data = m.data
    BY <1>2, <1>11
  <2>2. g[1] = c
    BY <1>6, <1>11, <2>1
  <2>3. \A i \in 1..Len(s) : s[i].query = g => i = 1
    BY <1>5, <1>8, <2>1
  <2>4. Sent(g) = {m.data}
    BY <1>9, <2>1, <2>2, <2>3
  <2>5. \A n \in 1..Len(t) : t[n].query # g
    <3> TAKE n \in 1..Len(t)
    <3>1. n + 1 \in 1..Len(s) /\ t[n] = s[n + 1] /\ n + 1 # 1
      BY <1>2
    <3> QED BY <2>3, <3>1
  <2>6. Sent(g)' = {}
    BY <1>9, <2>2, <2>5
  <2> QED BY <1>1, <2>4, <2>6, RepliedAt
<1>12. \A g \in Gets : g \in Ids
  BY DEF Gets
<1>13. m.query \in Gets => Replied[m.query] = m.data /\ Replied'[m.query] = <<>>
  BY <1>11, <1>12
<1> QED BY <1>7, <1>10, <1>13 DEF m

-----------------------------------------------------------------------------
(* A result is stored once.                                                *)

Queried(g) == \E n \in 1..Len(inbox[g[1]]) : inbox[g[1]][n].query = g

(* A call that has not returned has no result yet, and one whose reply is  *)
(* still to come has not returned.  A client's pending synchronous call is *)
(* its last.                                                               *)
WaitsInv ==
  /\ \A id \in Ids : status[id] \in {"new", "pending"} => result[id] = <<>>
  /\ \A g \in Gets : Live(g) \/ Replying(g) \/ Queried(g) => status[g] = "pending"
  /\ \A id \in Ids : status[id] = "pending" /\ ~Call(id).async => id[2] = issued[id[1]]

(* The get to which a reply goes is the one that has asked for it.         *)
LEMMA DeliverTo ==
    ASSUME SyncGetsFirst, BaseInv, SyncInv, WaitsInv, NEW c \in Client, Deliver(c)
    PROVE  LET m == Head(inbox[c]) IN
           \/ m.query = <<>> /\ UNCHANGED <<status, result>>
           \/ \E to \in Gets :
                /\ m.query \in {to, <<>>} /\ to[1] = c /\ ~Live(to) /\ status[to] = "pending"
                /\ \A n \in 2..Len(inbox[c]) : inbox[c][n].query # to
                /\ result' = [result EXCEPT ![to] = m.data]
                /\ \E s \in {"raised", "done"} : status' = [status EXCEPT ![to] = s]
<1> USE DEF BaseInv
<1> DEFINE m == Head(inbox[c])
           id == Head(recvs[c])
<1>1. /\ recvs[c] # <<>> /\ inbox[c] # <<>> /\ InWorker(id)
      /\ recvs[c] \in Seq(Gets) /\ inbox[c] \in Seq(Replies)
      /\ id \in Gets /\ id[1] = c /\ Issued(id) /\ m \in Replies
  BY DeliverFacts
<1>2. /\ id = recvs[c][1] /\ 1 \in 1..Len(recvs[c]) /\ m = inbox[c][1] /\ 1 \in 1..Len(inbox[c])
      /\ Len(inbox[c]) \in Nat
  BY <1>1
<1>3. c \in Client \ Driver
  BY <1>1 DEF InWorker
<1>4. \A g \in Gets : g \in Ids /\ g # <<>> /\ g[2] \in Nat /\ g = <<g[1], g[2]>> /\ g[2] \in 1..Len(Program[g[1]])
  BY CallFacts DEF TypeInv, Gets
<1>5. id \in Ids /\ id # <<>> /\ Call(id).async \in BOOLEAN
  BY <1>1, <1>4, CallFacts DEF TypeInv
<1>6. IF Recipient(id, m) \in Ids /\ (Recipient(id, m) = id \/ Call(Recipient(id, m)).async)
      THEN /\ \E s \in {"raised", "done"} : status' = [status EXCEPT ![Recipient(id, m)] = s]
           /\ result' = [result EXCEPT ![Recipient(id, m)] = m.data]
      ELSE UNCHANGED <<status, result>>
  BY DEF Deliver
<1> HIDE DEF m, id
<1>7. CASE ~Call(id).async
  <2>1. Recipient(id, m) = id
    BY <1>7 DEF Recipient
  <2>2. OneSyncGet(c)
    <3>1. ~NoGet(c)
      BY <1>1 DEF NoGet
    <3>2. ~AsyncGets(c)
      BY <1>1, <1>2, <1>7 DEF AsyncGets
    <3> QED BY <1>3, <3>1, <3>2 DEF SyncInv
  <2>3. /\ status[id] = "pending" /\ ~Live(id)
        /\ Len(inbox[c]) = 1 /\ m.query \in {id, <<>>}
    BY <1>1, <1>2, <2>2 DEF OneSyncGet
  <2>4. \A n \in 2..Len(inbox[c]) : inbox[c][n].query # id
    BY <2>3
  <2>5. /\ \E s \in {"raised", "done"} : status' = [status EXCEPT ![id] = s]
        /\ result' = [result EXCEPT ![id] = m.data]
    BY <1>5, <1>6, <2>1
  <2> QED BY <1>1, <2>3, <2>4, <2>5 DEF m
<1>8. CASE Call(id).async
  <2>1. Recipient(id, m) = m.query
    BY <1>8 DEF Recipient
  <2>2. CASE m.query = <<>>
    <3>1. <<>> \notin Ids
      BY CallFacts DEF TypeInv
    <3> QED BY <1>6, <2>1, <2>2, <3>1 DEF m
  <2>3. CASE m.query # <<>>
    <3>1. PICK g \in Gets : m.query = g
      BY <1>1, <2>3 DEF Replies
    <3>2. g[1] = c /\ ~Live(g) /\ Issued(g)
      BY <1>2, <3>1 DEF CommInv
    <3>3. status[g] = "pending"
      BY <1>2, <3>1, <3>2 DEF WaitsInv, Queried
    <3>4. Call(g).async
      <4> SUFFICES ASSUME ~Call(g).async PROVE FALSE
        OBVIOUS
      <4>1. g[2] = issued[c]
        BY <1>4, <3>2, <3>3 DEF WaitsInv
      <4>2. id # g /\ id[2] <= issued[c] /\ id = <<c, id[2]>> /\ g = <<c, g[2]>>
        BY <1>1, <1>4, <1>8, <3>2 DEF Issued
      <4>3. id[2] < g[2]
        BY <1>1, <1>4, <4>1, <4>2
      <4>4. id[2] \in 1..Len(setup.program[c]) /\ g[2] \in 1..Len(setup.program[c])
        BY <1>1, <1>4, <3>2 DEF Program
      <4>5. Program[c][id[2]].async /\ IsGet(Program[c][id[2]]) /\ IsGet(Program[c][g[2]]) /\ ~Program[c][g[2]].async
        BY <1>1, <1>8, <3>2 DEF Call, IsGet, Gets, Puts
      <4> QED BY <1>3, <4>3, <4>4, <4>5 DEF SyncGetsFirst, Program, TypeInv
    <3>5. \A n \in 2..Len(inbox[c]) : inbox[c][n].query # g
      <4> TAKE n \in 2..Len(inbox[c])
      <4>1. n \in 1..Len(inbox[c]) /\ n # 1
        BY <1>2
      <4>2. inbox[c][1].query = g /\ g # <<>>
        BY <1>2, <1>4, <3>1
      <4> QED BY <1>2, <4>1, <4>2 DEF CommInv
    <3>6. /\ \E s \in {"raised", "done"} : status' = [status EXCEPT ![g] = s]
          /\ result' = [result EXCEPT ![g] = m.data]
      BY <1>4, <1>6, <2>1, <3>1, <3>4
    <3> QED BY <3>1, <3>2, <3>3, <3>5, <3>6 DEF m
  <2> QED BY <2>2, <2>3
<1> QED BY <1>5, <1>7, <1>8

Expected(g) == Live(g) \/ Replying(g) \/ Queried(g)

LEMMA WaitsCall ==
    ASSUME BaseInv, WaitsInv, NEW id \in Ids, AtCall(id), UNCHANGED <<setup, result>>,
           \A g \in Gets : Expected(g)' => Expected(g) \/ g = id
    PROVE  WaitsInv'
<1> USE DEF BaseInv
<1> DEFINE c == id[1]
<1>1. c \in Client /\ id \in Ids /\ id = <<id[1], id[2]>> /\ issued[c] \in Nat
  BY CallFacts DEF TypeInv
<1>2. /\ id[2] = issued[c] + 1 /\ issued' = [issued EXCEPT ![c] = id[2]]
      /\ status' = [status EXCEPT ![id] = "pending"]
      /\ \A i \in 1..issued[c] : Call(<<c, i>>).async \/ status[<<c, i>>] \in {"done", "raised"}
  BY DEF AtCall
<1>3. status[id] = "new"
  BY NewCall DEF IssuedInv
<1>4. \A j \in Ids : status'[j] = IF j = id THEN "pending" ELSE status[j]
  BY <1>2 DEF TypeInv
<1>5. \A j : Call(j)' = Call(j)
  BY DEF Call, Program
<1>6. \A j \in Ids : status'[j] \in {"new", "pending"} => result'[j] = <<>>
  BY <1>3, <1>4 DEF WaitsInv
<1>7. \A g \in Gets : Expected(g)' => status'[g] = "pending"
  BY <1>4 DEF WaitsInv, Expected, Gets
<1>8. ASSUME NEW j \in Ids, status'[j] = "pending", ~Call(j).async
      PROVE  j[2] = issued'[j[1]]
  <2>1. j[1] \in Client /\ j = <<j[1], j[2]>> /\ j[2] \in Nat \ {0}
    BY CallFacts DEF TypeInv
  <2>2. issued'[j[1]] = IF j[1] = c THEN id[2] ELSE issued[j[1]]
    BY <1>1, <1>2, <2>1 DEF TypeInv
  <2>3. CASE j = id
    BY <2>2, <2>3
  <2>4. CASE j # id
    <3>1. status[j] = "pending" /\ j[2] = issued[j[1]]
      BY <1>4, <1>8, <2>4 DEF WaitsInv
    <3>2. j[1] # c
      <4> SUFFICES ASSUME j[1] = c PROVE FALSE
        OBVIOUS
      <4>1. j[2] \in 1..issued[c] /\ j = <<c, j[2]>>
        BY <1>1, <2>1, <3>1
      <4> QED BY <1>2, <1>8, <3>1, <4>1
    <3> QED BY <2>2, <3>1, <3>2
  <2> QED BY <2>3, <2>4
<1>9. Gets' = Gets /\ Ids' = Ids
  BY SetupFacts
<1> QED BY <1>5, <1>6, <1>7, <1>8, <1>9 DEF WaitsInv, Expected

LEMMA WaitsReturn ==
    ASSUME BaseInv, WaitsInv, NEW to \in Ids, NEW s \in {"raised", "done"},
           status' = [status EXCEPT ![to] = s],
           \A j \in Ids : j # to => result'[j] = result[j], UNCHANGED <<setup, issued>>,
           \A g \in Gets : Expected(g)' => Expected(g) /\ g # to
    PROVE  WaitsInv'
<1>1. \A j \in Ids : status'[j] = IF j = to THEN s ELSE status[j]
  BY DEF BaseInv, TypeInv
<1>2. \A j : Call(j)' = Call(j)
  BY DEF Call, Program
<1>3. Gets' = Gets /\ Ids' = Ids /\ \A g \in Gets : g \in Ids
  BY SetupFacts DEF Gets
<1>4. \A j \in Ids : status'[j] \in {"new", "pending"} => result'[j] = <<>>
  BY <1>1 DEF WaitsInv
<1>5. \A g \in Gets : Expected(g)' => status'[g] = "pending"
  BY <1>1, <1>3 DEF WaitsInv, Expected
<1>6. \A j \in Ids : status'[j] = "pending" /\ ~Call(j).async => j[2] = issued'[j[1]]
  BY <1>1 DEF WaitsInv
<1> QED BY <1>2, <1>3, <1>4, <1>5, <1>6 DEF WaitsInv, Expected

LEMMA KeepWaits ==
    ASSUME WaitsInv, UNCHANGED <<setup, issued, status, result>>,
           \A g \in Gets : Expected(g)' => Expected(g)
    PROVE  WaitsInv'
<1>1. \A j : Call(j)' = Call(j)
  BY DEF Call, Program
<1>2. Gets' = Gets /\ Ids' = Ids
  BY SetupFacts
<1> QED BY <1>1, <1>2 DEF WaitsInv, Expected

(* What a step of a get does to the tasks.                                 *)
LEMMA GetSteps ==
    ASSUME BaseInv, NEW id \in Ids, RunGet(id) \/ RunGetBatch(id)
    PROVE  /\ id \in Gets /\ Live(id) /\ UNCHANGED <<setup, issued, status, result, sent>>
           /\ \/ Stays /\ UNCHANGED <<inbox, returned>>
              \/ Ended(id) /\ \E q \in {id, <<>>} : \E data : Answer(id, q, data)
<1> USE DEF BaseInv
<1>1. CASE RunGet(id)
  <2> DEFINE k == Call(id).key
  <2>1. /\ id \in Gets /\ ready # <<>> /\ Head(ready) = id /\ k \in Key
        /\ GetTakes(id, k) \/ GetWaits(id, k) \/ GetFails(id, k)
        /\ UNCHANGED <<setup, issued, status, result, chain, recvs, submitted, sent, held>>
    BY <1>1, RunGetFacts
  <2>2. Live(id)
    BY <2>1, RunningGet
  <2> HIDE DEF k
  <2>3. CASE GetTakes(id, k)
    <3>1. Answer(id, id, <<Head(queue[k])>>) /\ TakeItems(k, 1) /\ UNCHANGED getters
      BY <2>3 DEF GetTakes
    <3>2. UNCHANGED returned \/ \E r : r.id = id /\ returned' = returned \cup {r}
      BY <3>1, AnswerReturned
    <3>3. Ended(id)
      <4>1. 1 \in Nat
        OBVIOUS
      <4> QED BY <2>1, <3>1, <3>2, <4>1, TakeTasks
    <3> QED BY <2>1, <2>2, <3>1, <3>3
  <2>4. CASE GetWaits(id, k)
    <3>1. Stays /\ UNCHANGED <<inbox, returned>>
      BY <2>1, <2>4, GetWaitsTasks DEF GetWaits
    <3> QED BY <2>1, <2>2, <3>1
  <2>5. CASE GetFails(id, k)
    <3>1. Answer(id, <<>>, <<>>) /\ ready' = Tail(ready) /\ UNCHANGED <<putters, getters>>
      BY <2>5 DEF GetFails
    <3>2. UNCHANGED returned \/ \E r : r.id = id /\ returned' = returned \cup {r}
      BY <3>1, AnswerReturned
    <3>3. Ended(id)
      BY <2>1, <3>1, <3>2, GetFailsTasks
    <3> QED BY <2>1, <2>2, <3>1, <3>3
  <2> QED BY <2>1, <2>3, <2>4, <2>5
<1>2. CASE RunGetBatch(id)
  <2> DEFINE k == Call(id).key
             n == BatchSize(id)
  <2>1. /\ id \in Gets /\ ready # <<>> /\ Head(ready) = id /\ k \in Key
        /\ n \in 0..Len(queue[k])
        /\ TakeItems(k, n) /\ (BatchEnds(id, k) \/ BatchWaits(id, k))
        /\ UNCHANGED <<setup, issued, status, result, chain, recvs, submitted, sent>>
    BY <1>2, RunBatchFacts
  <2>2. Live(id)
    BY <2>1, RunningGet
  <2>3. n \in Nat
    <3>1. Len(queue[k]) \in Nat
      BY <2>1 DEF TypeInv
    <3> HIDE DEF k, n
    <3> QED BY <2>1, <3>1
  <2> HIDE DEF k, n
  <2>4. CASE BatchEnds(id, k)
    <3>1. Answer(id, id, Batch(id)) /\ UNCHANGED getters
      BY <2>4 DEF BatchEnds
    <3>2. UNCHANGED returned \/ \E r : r.id = id /\ returned' = returned \cup {r}
      BY <3>1, AnswerReturned
    <3>3. Ended(id)
      BY <2>1, <2>3, <3>1, <3>2, TakeTasks
    <3> QED BY <2>1, <2>2, <3>1, <3>3
  <2>5. CASE BatchWaits(id, k)
    <3>1. Stays /\ UNCHANGED <<inbox, returned>>
      BY <2>1, <2>3, <2>5, BatchWaitsTasks DEF BatchWaits
    <3> QED BY <2>1, <2>2, <3>1
  <2> QED BY <2>1, <2>4, <2>5
<1> QED BY <1>1, <1>2

LEMMA AnswerExpected ==
    ASSUME BaseInv, NEW id \in Gets, Live(id), Ended(id), NEW q \in {id, <<>>}, NEW data, Answer(id, q, data)
    PROVE  \A g \in Gets : Expected(g)' => Expected(g)
<1> USE DEF BaseInv
<1>1. id \in Ids /\ id[1] \in Client
  BY CallFacts DEF TypeInv, Gets
<1> SUFFICES ASSUME NEW g \in Gets, Expected(g)' PROVE Expected(g)
  OBVIOUS
<1>2. Live(g)' => Live(g)
  BY DEF Ended
<1>3. Replying(g)' => Replying(g) \/ g = id
  <2>1. UNCHANGED returned \/ \E r : r.id = id /\ returned' = returned \cup {r}
    BY <1>1, AnswerReturned
  <2> QED BY <2>1 DEF Replying
<1>4. Queried(g)' => Queried(g) \/ g = id
  <2>1. CASE ~InWorker(id)
    BY <2>1 DEF Answer, Queried
  <2>2. CASE InWorker(id)
    <3> DEFINE m == [query |-> q, data |-> data]
               s == inbox[id[1]]
    <3>1. \A d \in Client : inbox'[d] = IF d = id[1] THEN Append(s, m) ELSE inbox[d]
      BY <1>1, <2>2 DEF Answer, TypeInv
    <3>2. m.query = q
      OBVIOUS
    <3>3. s \in Seq(Replies \cup {m}) /\ m \in Replies \cup {m}
      <4>1. s \in Seq(Replies)
        BY <1>1 DEF TypeInv
      <4> QED BY <4>1
    <3> HIDE DEF m, s
    <3>4. /\ \A n \in 1..Len(Append(s, m)) :
               (n \in 1..Len(s) /\ Append(s, m)[n] = s[n]) \/ Append(s, m)[n] = m
      BY <3>3
    <3>5. g[1] \in Client /\ g # <<>>
      BY CallFacts DEF TypeInv, Gets
    <3>6. CASE g[1] = id[1]
      <4>1. inbox'[g[1]] = Append(s, m) /\ inbox[g[1]] = s
        BY <3>1, <3>5, <3>6 DEF s
      <4> QED BY <3>2, <3>4, <3>5, <4>1 DEF Queried
    <3>7. CASE g[1] # id[1]
      BY <3>1, <3>5, <3>7 DEF Queried
    <3> QED BY <3>6, <3>7
  <2> QED BY <2>1, <2>2
<1> QED BY <1>2, <1>3, <1>4 DEF Expected

LEMMA WaitsDeliver ==
    ASSUME SyncGetsFirst, BaseInv, SyncInv, WaitsInv, NEW c \in Client, Deliver(c)
    PROVE  WaitsInv'
<1> USE DEF BaseInv
<1>1. /\ inbox[c] # <<>> /\ inbox[c] \in Seq(Replies) /\ InWorker(Head(recvs[c]))
      /\ Head(recvs[c])[1] = c
      /\ inbox' = [inbox EXCEPT ![c] = Tail(@)]
      /\ UNCHANGED <<setup, issued, submitted, returned, ready, getters, putters>>
  BY DeliverFacts
<1>2. /\ Len(inbox[c]) \in Nat \ {0}
      /\ Len(inbox'[c]) = Len(inbox[c]) - 1
      /\ \A n \in 1..(Len(inbox[c]) - 1) : inbox'[c][n] = inbox[c][n + 1]
  BY <1>1, TailFacts DEF TypeInv
<1>3. \A n \in 1..Len(inbox'[c]) :
        n + 1 \in 2..Len(inbox[c]) /\ n + 1 \in 1..Len(inbox[c]) /\ inbox'[c][n] = inbox[c][n + 1]
  BY <1>2
<1>4. \A d \in Client : d # c => inbox'[d] = inbox[d]
  BY <1>1 DEF TypeInv
<1>5. \A g \in Gets : g \in Ids /\ g[1] \in Client
  BY CallFacts DEF TypeInv, Gets
<1>6. \A g \in Gets : Expected(g)' => Expected(g)
  <2> TAKE g \in Gets
  <2>1. Queried(g)' => Queried(g)
    BY <1>3, <1>4, <1>5 DEF Queried
  <2>2. (Live(g)' <=> Live(g)) /\ (Replying(g)' <=> Replying(g))
    BY <1>1 DEF Live, Replying
  <2> QED BY <2>1, <2>2 DEF Expected
<1>7. CASE UNCHANGED <<status, result>>
  BY <1>1, <1>6, <1>7, KeepWaits
<1>8. ASSUME NEW to \in Gets, to[1] = c, ~Live(to),
             \A n \in 2..Len(inbox[c]) : inbox[c][n].query # to,
             result' = [result EXCEPT ![to] = Head(inbox[c]).data],
             NEW s \in {"raised", "done"}, status' = [status EXCEPT ![to] = s]
      PROVE  WaitsInv'
  <2>1. ~Expected(to)'
    <3>1. ~Live(to)'
      BY <1>1, <1>8 DEF Live
    <3>2. ~Queried(to)'
      BY <1>3, <1>8 DEF Queried
    <3>3. ~Replying(to)'
      <4>1. InWorker(to)
        BY <1>1, <1>8 DEF InWorker
      <4>2. to \notin Puts
        BY DEF Gets
      <4> QED BY <1>1, <4>1, <4>2 DEF Replying, CommInv
    <3> QED BY <3>1, <3>2, <3>3 DEF Expected
  <2>2. \A g \in Gets : Expected(g)' => Expected(g) /\ g # to
    BY <1>6, <2>1
  <2>3. \A j \in Ids : j # to => result'[j] = result[j]
    BY <1>8 DEF TypeInv
  <2> QED BY <1>1, <1>5, <1>8, <2>2, <2>3, WaitsReturn
<1>9. \/ UNCHANGED <<status, result>>
      \/ \E to \in Gets :
           /\ to[1] = c /\ ~Live(to)
           /\ \A n \in 2..Len(inbox[c]) : inbox[c][n].query # to
           /\ result' = [result EXCEPT ![to] = Head(inbox[c]).data]
           /\ \E s \in {"raised", "done"} : status' = [status EXCEPT ![to] = s]
  BY DeliverTo
<1> QED BY <1>7, <1>8, <1>9

LEMMA WaitsPutCallback ==
    ASSUME BaseInv, WaitsInv, NEW r \in returned, PutCallback(r)
    PROVE  WaitsInv'
<1> USE DEF BaseInv
<1> DEFINE c == r.id[1]
           k == Call(r.id).key
<1>1. /\ InWorker(r.id) /\ returned' = returned \ {r}
      /\ UNCHANGED <<setup, issued, result, inbox, ready, getters, putters>>
  BY DEF PutCallback, worker
<1>2. r.id \in Ids /\ r.id \in Puts
  BY <1>1 DEF TypeInv, CommInv, Results
<1>3. c \in Client /\ k \in Key
  BY <1>2, CallFacts DEF TypeInv
<1>4. Chained(chain[c][k]) \subseteq Puts
  <2>1. chain[c][k] \in Seq(Puts)
    BY <1>3 DEF TypeInv
  <2> HIDE DEF c, k
  <2> QED BY <2>1 DEF Chained
<1>5. \/ UNCHANGED <<status, submitted>>
      \/ status' = [status EXCEPT ![r.id] = "done"] /\ submitted' = submitted \cup Chained(chain[c][k])
  BY DEF PutCallback
<1> HIDE DEF c, k
<1>6. \A g \in Gets : Expected(g)' => Expected(g) /\ g # r.id
  <2> TAKE g \in Gets
  <2>1. g \notin Puts
    BY DEF Gets
  <2>2. Live(g)' => Live(g)
    BY <1>1, <1>4, <1>5, <2>1 DEF Live
  <2>3. (Replying(g)' => Replying(g)) /\ (Queried(g)' <=> Queried(g))
    BY <1>1 DEF Replying, Queried
  <2> QED BY <1>2, <2>1, <2>2, <2>3 DEF Expected
<1>7. CASE UNCHANGED <<status, submitted>>
  BY <1>1, <1>6, <1>7, KeepWaits
<1>8. CASE status' = [status EXCEPT ![r.id] = "done"]
  <2>1. PICK to \in Ids : to = r.id
    BY <1>2
  <2> QED BY <1>1, <1>6, <1>8, <2>1, WaitsReturn
<1> QED BY <1>5, <1>7, <1>8

LEMMA WaitsDriverReturn ==
    ASSUME BaseInv, WaitsInv, NEW r \in returned, DriverReturn(r)
    PROVE  WaitsInv'
<1> USE DEF BaseInv
<1>1. /\ ~InWorker(r.id) /\ returned' = returned \ {r}
      /\ status' = [status EXCEPT ![r.id] = IF r.out = "raise" THEN "raised" ELSE "done"]
      /\ result' = [result EXCEPT ![r.id] = r.data]
      /\ UNCHANGED <<setup, issued, inbox, submitted, ready, getters, putters>>
  BY DEF DriverReturn, worker
<1>2. PICK to \in Ids : to = r.id
  BY DEF TypeInv, Results
<1>3. PICK s \in {"raised", "done"} : status' = [status EXCEPT ![to] = s]
  BY <1>1, <1>2
<1>4. \A j \in Ids : j # to => result'[j] = result[j]
  BY <1>1, <1>2 DEF TypeInv
<1>5. \A g \in Gets : Expected(g)' => Expected(g) /\ g # to
  <2> TAKE g \in Gets
  <2>1. Live(g)' <=> Live(g)
    BY <1>1 DEF Live
  <2>2. Replying(g)' => Replying(g) /\ g # to
    BY <1>1, <1>2 DEF Replying, TaskInv
  <2>3. Queried(g)' => Queried(g)
    BY <1>1 DEF Queried
  <2>4. ~Live(to)
    BY <1>2 DEF Replying, TaskInv
  <2>5. ~Queried(to)
    <3>1. inbox[to[1]] = <<>>
      BY <1>1, <1>2, CallFacts DEF TypeInv, CommInv, InWorker
    <3> QED BY <3>1 DEF Queried
  <2>6. Queried(g)' => g # to
    BY <2>3, <2>5
  <2> QED BY <2>1, <2>2, <2>3, <2>4, <2>6 DEF Expected
<1> QED BY <1>1, <1>3, <1>4, <1>5, WaitsReturn

LEMMA WaitsCalls ==
    ASSUME BaseInv, WaitsInv, NEW id \in Ids, WorkerPut(id) \/ WorkerGet(id) \/ DriverCall(id)
    PROVE  WaitsInv'
<1>1. /\ AtCall(id) /\ UNCHANGED <<setup, result, returned, inbox, ready, getters, putters>>
      /\ submitted' \subseteq submitted \cup {id}
  <2>1. CASE WorkerPut(id)
    BY <2>1 DEF WorkerPut, worker, Executes
  <2>2. CASE WorkerGet(id)
    BY <2>2 DEF WorkerGet, worker
  <2>3. CASE DriverCall(id)
    BY <2>3 DEF DriverCall, worker
  <2> QED BY <2>1, <2>2, <2>3
<1>2. \A g \in Gets : Expected(g)' => Expected(g) \/ g = id
  <2> TAKE g \in Gets
  <2>1. Live(g)' => Live(g) \/ g = id
    BY <1>1 DEF Live
  <2>2. (Replying(g)' <=> Replying(g)) /\ (Queried(g)' <=> Queried(g))
    BY <1>1 DEF Replying, Queried
  <2> QED BY <2>1, <2>2 DEF Expected
<1> QED BY <1>1, <1>2, WaitsCall

LEMMA WaitsNext ==
    ASSUME SyncGetsFirst, BaseInv, SyncInv, WaitsInv, [Next]_vars
    PROVE  WaitsInv'
<1> USE DEF BaseInv
<1>1. ASSUME NEW id \in Ids, WorkerPut(id) \/ WorkerGet(id) \/ DriverCall(id) PROVE WaitsInv'
  BY <1>1, WaitsCalls
<1>2. ASSUME NEW id \in Ids, Start(id) PROVE WaitsInv'
  <2>1. Stays /\ returned' = returned /\ UNCHANGED <<setup, issued, status, result, inbox>>
    BY <1>2, StartTasks DEF Start, client
  <2>2. \A g \in Gets : Expected(g)' => Expected(g)
    BY <2>1 DEF Stays, Expected, Replying, Queried
  <2> QED BY <2>1, <2>2, KeepWaits
<1>3. ASSUME NEW r \in returned, PutCallback(r) \/ DriverReturn(r) PROVE WaitsInv'
  BY <1>3, WaitsPutCallback, WaitsDriverReturn
<1>4. ASSUME NEW c \in Client, Deliver(c) PROVE WaitsInv'
  BY <1>4, WaitsDeliver
<1>5. ASSUME NEW id \in Ids, RunPut(id) PROVE WaitsInv'
  <2>1. id \in Puts /\ UNCHANGED <<setup, issued, status, result, inbox>>
    BY <1>5, RunPutFacts
  <2>2. \A g \in Gets : Expected(g)' => Expected(g)
    <3> TAKE g \in Gets
    <3>1. g \in Ids /\ g # id
      BY <2>1 DEF Gets
    <3>2. Stays \/ Ended(id)
      BY <1>5, RunPutTasks
    <3>3. Live(g)' => Live(g)
      BY <3>2 DEF Stays, Ended
    <3>4. Replying(g)' => Replying(g)
      BY <1>5, <3>1, RunPutTasks
    <3>5. Queried(g)' <=> Queried(g)
      BY <2>1 DEF Queried
    <3> QED BY <3>3, <3>4, <3>5 DEF Expected
  <2> QED BY <2>1, <2>2, KeepWaits
<1>6. ASSUME NEW id \in Ids, RunGet(id) \/ RunGetBatch(id) PROVE WaitsInv'
  <2>1. /\ id \in Gets /\ Live(id) /\ UNCHANGED <<setup, issued, status, result, sent>>
        /\ \/ Stays /\ UNCHANGED <<inbox, returned>>
           \/ Ended(id) /\ \E q \in {id, <<>>} : \E data : Answer(id, q, data)
    BY <1>6, GetSteps
  <2>2. CASE Stays /\ UNCHANGED <<inbox, returned>>
    <3>1. \A g \in Gets : Expected(g)' => Expected(g)
      BY <2>2 DEF Stays, Expected, Replying, Queried
    <3> QED BY <2>1, <3>1, KeepWaits
  <2>3. CASE Ended(id) /\ \E q \in {id, <<>>} : \E data : Answer(id, q, data)
    <3>1. \A g \in Gets : Expected(g)' => Expected(g)
      BY <2>1, <2>3, AnswerExpected
    <3> QED BY <2>1, <3>1, KeepWaits
  <2> QED BY <2>1, <2>2, <2>3
<1>7. CASE UNCHANGED vars
  <2>1. UNCHANGED <<setup, issued, status, result, inbox, submitted, returned, ready, getters, putters>>
    BY <1>7 DEF vars, client, wire, worker
  <2>2. \A g \in Gets : Expected(g)' => Expected(g)
    BY <2>1 DEF Expected, Live, Replying, Queried
  <2> QED BY <2>1, <2>2, KeepWaits
<1> QED BY <1>1, <1>2, <1>3, <1>4, <1>5, <1>6, <1>7 DEF Next, EventLoop

-----------------------------------------------------------------------------
(* The item of a worker's put is nowhere before the call and once on the   *)
(* shelves from then on.                                                   *)

OnceInv ==
  \A p \in Puts : InWorker(p) =>
    IF status[p] = "new" THEN Nowhere(Stock, Item(p)) ELSE Once(Stock, Item(p))

KeepsItems == \A p \in Puts : InWorker(p) => Keeps(Stock, Stock', Item(p))

LEMMA KeepOnce ==
    ASSUME OnceInv, setup' = setup, KeepsItems,
           \A p \in Puts : InWorker(p) => (status'[p] = "new" <=> status[p] = "new")
    PROVE  OnceInv'
<1>1. Puts' = Puts /\ \A p : Item(p)' = Item(p) /\ InWorker(p)' = InWorker(p)
  BY SetupFacts DEF Item, Call, Program, InWorker
<1>2. ASSUME NEW p \in Puts, InWorker(p), status'[p] = "new" PROVE Nowhere(Stock', Item(p))
  <2>1. Nowhere(Stock, Item(p)) /\ Keeps(Stock, Stock', Item(p))
    BY <1>2 DEF OnceInv, KeepsItems
  <2> QED BY <2>1 DEF Keeps
<1>3. ASSUME NEW p \in Puts, InWorker(p), status'[p] # "new" PROVE Once(Stock', Item(p))
  <2>1. Once(Stock, Item(p)) /\ Keeps(Stock, Stock', Item(p))
    BY <1>3 DEF OnceInv, KeepsItems
  <2> QED BY <2>1 DEF Keeps
<1> QED BY <1>1, <1>2, <1>3 DEF OnceInv

LEMMA StockQuiet ==
    ASSUME UNCHANGED <<setup, sent, queue, held, result>>, \A g \in Ids : Replied'[g] = Replied[g]
    PROVE  KeepsItems
<1>1. DOMAIN Stock' = Shelves /\ DOMAIN Stock = Shelves
  BY StockAt, StockAfter
<1>2. ASSUME NEW l \in Shelves PROVE Stock'[l] = Stock[l]
  <2>1. ASSUME NEW c \in Client, l = <<"sent", c>> PROVE Stock'[l] = Stock[l]
    BY <2>1, StockAt, StockAfter
  <2>2. ASSUME NEW k \in Key, l = <<"queue", k>> PROVE Stock'[l] = Stock[l]
    BY <2>2, StockAt, StockAfter
  <2>3. ASSUME NEW g \in Ids, l = <<"held", g>> PROVE Stock'[l] = Stock[l]
    BY <2>3, StockAt, StockAfter
  <2>4. ASSUME NEW g \in Ids, l = <<"result", g>> PROVE Stock'[l] = Stock[l]
    BY <2>4, StockAt, StockAfter
  <2>5. ASSUME NEW g \in Ids, l = <<"reply", g>> PROVE Stock'[l] = Stock[l]
    BY <2>5, StockAt, StockAfter
  <2> QED BY <2>1, <2>2, <2>3, <2>4, <2>5, ShelfKinds
<1> DEFINE A == Stock
           B == Stock'
<1>3. DOMAIN B = DOMAIN A /\ \A l \in DOMAIN A : B[l] = A[l]
  BY <1>1, <1>2
<1> HIDE DEF A, B
<1>4. \A x : Keeps(A, B, x)
  BY <1>3 DEF Keeps, Once, Only, Nowhere
<1> QED BY <1>4 DEF KeepsItems, A, B

LEMMA StockMoves ==
    ASSUME NEW i \in Shelves, NEW j \in Shelves, i # j, Untouched(i, j),
           NEW n, Shifts(Stock[i], Stock'[i], Stock[j], Stock'[j], n)
    PROVE  KeepsItems
<1> DEFINE A == Stock
           B == Stock'
<1>1. DOMAIN B = DOMAIN A /\ \A l \in DOMAIN A : l # i /\ l # j => B[l] = A[l]
  BY StockSame
<1>2. i \in DOMAIN A /\ j \in DOMAIN A
  BY StockAt
<1>3. Shifts(A[i], B[i], A[j], B[j], n)
  OBVIOUS
<1> HIDE DEF A, B
<1>4. Moves(A, B, i, j, n)
  BY <1>1, <1>2, <1>3 DEF Moves
<1>5. \A x : Keeps(A, B, x)
  BY <1>4, MoveKeeps
<1> QED BY <1>5 DEF KeepsItems, A, B

LEMMA StockComes ==
    ASSUME NEW j \in Shelves, Untouched(j, j), NEW S, Stock[j] \in Seq(S), NEW y \in S,
           Stock'[j] = Append(Stock[j], y)
    PROVE  /\ \A x : x # y => Keeps(Stock, Stock', x)
           /\ Nowhere(Stock, y) => Once(Stock', y)
<1> DEFINE A == Stock
           B == Stock'
<1>1. DOMAIN B = DOMAIN A /\ \A l \in DOMAIN A : l # j => B[l] = A[l]
  BY StockSame
<1>2. j \in DOMAIN A
  BY StockAt
<1>3. A[j] \in Seq(S) /\ B[j] = Append(A[j], y)
  OBVIOUS
<1> HIDE DEF A, B
<1>4. Comes(A, B, j, y)
  BY <1>1, <1>2, <1>3 DEF Comes
<1>5. \A x : x # y => Keeps(A, B, x)
  BY <1>4, ComesKeeps
<1>6. Nowhere(A, y) => Once(B, y)
  BY <1>4, ComesKeeps
<1> QED BY <1>5, <1>6 DEF A, B

LEMMA OnceWorkerPut ==
    ASSUME BaseInv, OnceInv, NEW id \in Ids, WorkerPut(id)
    PROVE  OnceInv'
<1> USE DEF BaseInv
<1> DEFINE c == id[1]
           j == <<"sent", c>>
<1>1. /\ c \in Client /\ Item(id) \in Items /\ id \in Puts /\ InWorker(id) /\ AtCall(id)
      /\ UNCHANGED <<setup, result, returned, inbox, queue, held>>
      /\ sent' = [sent EXCEPT ![c] = Append(@, Item(id))]
      /\ status' = [status EXCEPT ![id] = "pending"]
  BY CallFacts DEF WorkerPut, worker, AtCall, TypeInv
<1>2. status[id] = "new"
  BY <1>1, NewCall DEF IssuedInv
<1>3. j \in Shelves /\ Stock[j] = sent[c] /\ Stock'[j] = Append(Stock[j], Item(id)) /\ Stock[j] \in Seq(Items)
  <2>1. j \in Shelves /\ Stock[j] = sent[c]
    BY <1>1, StockAt
  <2>2. Stock'[j] = sent'[c]
    BY <1>1, StockAfter
  <2>3. sent[c] \in Seq(Items) /\ sent'[c] = Append(sent[c], Item(id))
    BY <1>1 DEF TypeInv
  <2> QED BY <2>1, <2>2, <2>3
<1>4. Untouched(j, j)
  <2>1. \A g \in Ids : Replied'[g] = Replied[g]
    BY <1>1, RepliedQuiet
  <2>2. \A d \in Client : <<"sent", d>> # j => sent'[d] = sent[d]
    BY <1>1 DEF TypeInv
  <2> QED BY <1>1, <2>1, <2>2 DEF Untouched
<1> DEFINE y == Item(id)
<1> HIDE DEF j, y
<1>5. /\ \A x : x # y => Keeps(Stock, Stock', x)
      /\ Nowhere(Stock, y) => Once(Stock', y)
  BY <1>1, <1>3, <1>4, StockComes DEF y
<1>6. Puts' = Puts /\ \A p : Item(p)' = Item(p) /\ InWorker(p)' = InWorker(p)
  BY <1>1, SetupFacts DEF Item, Call, Program, InWorker
<1>7. \A p \in Puts : p \in Ids /\ Item(p).id = p
  BY DEF Item, Puts
<1>8. \A p \in Ids : status'[p] = IF p = id THEN "pending" ELSE status[p]
  BY <1>1 DEF TypeInv
<1>9. ASSUME NEW p \in Puts, InWorker(p), p # id
      PROVE  IF status'[p] = "new" THEN Nowhere(Stock', Item(p)) ELSE Once(Stock', Item(p))
  <2>1. Item(p) # y
    BY <1>1, <1>7, <1>9 DEF y
  <2>2. Keeps(Stock, Stock', Item(p))
    BY <1>5, <2>1
  <2>3. IF status[p] = "new" THEN Nowhere(Stock, Item(p)) ELSE Once(Stock, Item(p))
    BY <1>9 DEF OnceInv
  <2>4. status'[p] = status[p]
    BY <1>7, <1>8, <1>9
  <2> QED BY <2>2, <2>3, <2>4 DEF Keeps
<1>10. Once(Stock', Item(id))
  <2>1. Nowhere(Stock, y)
    BY <1>1, <1>2 DEF OnceInv, y
  <2> QED BY <1>5, <2>1 DEF y
<1>11. status'[id] # "new"
  BY <1>8
<1>12. ASSUME NEW p \in Puts, InWorker(p)
       PROVE  IF status'[p] = "new" THEN Nowhere(Stock', Item(p)) ELSE Once(Stock', Item(p))
  BY <1>9, <1>10, <1>11, <1>12
<1> QED BY <1>6, <1>12 DEF OnceInv

LEMMA OnceCalls ==
    ASSUME BaseInv, OnceInv, NEW id \in Ids, WorkerGet(id) \/ DriverCall(id)
    PROVE  OnceInv'
<1> USE DEF BaseInv
<1>1. /\ AtCall(id) /\ UNCHANGED <<setup, result, returned, inbox, sent, queue, held>>
      /\ id \in Gets \/ ~InWorker(id)
  <2>1. CASE WorkerGet(id)
    BY <2>1 DEF WorkerGet, worker
  <2>2. CASE DriverCall(id)
    BY <2>2 DEF DriverCall, worker
  <2> QED BY <2>1, <2>2
<1>2. KeepsItems
  BY <1>1, RepliedQuiet, StockQuiet
<1>3. \A p \in Puts : InWorker(p) => status'[p] = status[p]
  BY <1>1 DEF AtCall, TypeInv, Gets, Puts
<1> QED BY <1>1, <1>2, <1>3, KeepOnce

LEMMA OncePutCallback ==
    ASSUME BaseInv, OnceInv, NEW r \in returned, PutCallback(r)
    PROVE  OnceInv'
<1> USE DEF BaseInv
<1>1. /\ UNCHANGED <<setup, result, sent, queue, held>> /\ InWorker(r.id)
      /\ status' = status \/ status' = [status EXCEPT ![r.id] = "done"]
  BY DEF PutCallback, worker
<1>2. KeepsItems
  BY <1>1, RepliedPutCallback, StockQuiet
<1>3. r.id \in Ids /\ r.id \in Puts
  BY <1>1 DEF TypeInv, CommInv, Results
<1>4. status[r.id] = "pending"
  BY <1>3 DEF PendingInv, Replying
<1>5. \A p \in Puts : status'[p] = "new" <=> status[p] = "new"
  BY <1>1, <1>3, <1>4 DEF TypeInv, Puts
<1> QED BY <1>1, <1>2, <1>5, KeepOnce

LEMMA OnceDriverReturn ==
    ASSUME BaseInv, WaitsInv, OnceInv, NEW r \in returned, DriverReturn(r)
    PROVE  OnceInv'
<1> USE DEF BaseInv
<1>1. PICK g \in Ids : g = r.id
  BY DEF TypeInv, Results
<1>2. /\ ~InWorker(g) /\ UNCHANGED <<setup, sent, queue, held>>
      /\ result' = [result EXCEPT ![g] = r.data]
      /\ \A p \in Ids : p # g => status'[p] = status[p]
  BY <1>1 DEF DriverReturn, worker, TypeInv
<1>3. /\ Replied[g] = r.data /\ Replied'[g] = <<>>
      /\ \A h \in Ids : h # g => Replied'[h] = Replied[h]
  BY <1>1, RepliedDriverReturn
<1>4. result[g] = <<>> /\ result'[g] = r.data /\ r.data \in Seq(Items)
      /\ \A h \in Ids : h # g => result'[h] = result[h]
  <2>1. Replying(g)
    BY <1>1 DEF Replying
  <2>2. status[g] = "pending"
    <3>1. CASE g \in Puts
      BY <2>1, <3>1 DEF PendingInv
    <3>2. CASE g \in Gets
      BY <2>1, <3>2 DEF WaitsInv
    <3> QED BY <3>1, <3>2 DEF Gets
  <2>3. r.data \in Seq(Items)
    BY DEF TypeInv, Results
  <2> QED BY <1>2, <2>2, <2>3 DEF WaitsInv, TypeInv
<1> DEFINE i == <<"reply", g>>
           j == <<"result", g>>
<1>5. i \in Shelves /\ j \in Shelves /\ i # j
  BY StockAt
<1>6. Stock[i] = r.data /\ Stock[j] = <<>>
  BY <1>3, <1>4, StockAt
<1>7. Stock'[i] = <<>> /\ Stock'[j] = r.data
  BY <1>2, <1>3, <1>4, StockAfter
<1>8. Untouched(i, j)
  <2>1. \A h \in Ids : /\ <<"result", h>> # j => result'[h] = result[h]
                       /\ <<"reply", h>> # i => Replied'[h] = Replied[h]
    BY <1>3, <1>4
  <2> QED BY <1>2, <2>1 DEF Untouched
<1> HIDE DEF i, j
<1>9. Shifts(Stock[i], Stock'[i], Stock[j], Stock'[j], Len(r.data))
  BY <1>4, <1>6, <1>7, ShiftAll
<1>10. KeepsItems
  BY <1>5, <1>8, <1>9, StockMoves
<1>11. \A p \in Puts : InWorker(p) => status'[p] = status[p]
  BY <1>2 DEF Puts
<1> QED BY <1>2, <1>10, <1>11, KeepOnce

LEMMA OnceDeliver ==
    ASSUME SyncGetsFirst, BaseInv, SyncInv, WaitsInv, OnceInv, NEW c \in Client, Deliver(c)
    PROVE  OnceInv'
<1> USE DEF BaseInv
<1> DEFINE m == Head(inbox[c])
<1>1. /\ m \in Replies /\ UNCHANGED <<setup, sent, queue, held>>
  BY DeliverFacts
<1>2. /\ \A g \in Ids : g # m.query => Replied'[g] = Replied[g]
      /\ m.query \in Gets => Replied[m.query] = m.data /\ Replied'[m.query] = <<>>
      /\ m.query = <<>> => m.data = <<>>
  BY RepliedDeliver
<1>3. \/ m.query = <<>> /\ UNCHANGED <<status, result>>
      \/ \E to \in Gets :
           /\ m.query \in {to, <<>>} /\ status[to] = "pending"
           /\ result' = [result EXCEPT ![to] = m.data]
           /\ \E s \in {"raised", "done"} : status' = [status EXCEPT ![to] = s]
  BY DeliverTo
<1>4. m.data \in Seq(Items) /\ \A g \in Gets : g \in Ids
  BY <1>1 DEF Replies, Gets
<1>5. m.query = <<>> => \A g \in Ids : Replied'[g] = Replied[g]
  BY <1>2, CallFacts DEF TypeInv
<1> HIDE DEF m
<1>6. CASE m.query = <<>> /\ UNCHANGED <<status, result>>
  <2>1. KeepsItems
    BY <1>1, <1>5, <1>6, StockQuiet
  <2> QED BY <1>1, <1>6, <2>1, KeepOnce
<1>7. ASSUME NEW to \in Gets, m.query \in {to, <<>>}, status[to] = "pending",
             result' = [result EXCEPT ![to] = m.data],
             NEW s \in {"raised", "done"}, status' = [status EXCEPT ![to] = s]
      PROVE  OnceInv'
  <2>1. to \in Ids /\ result[to] = <<>> /\ result'[to] = m.data
        /\ \A h \in Ids : h # to => result'[h] = result[h]
    BY <1>4, <1>7 DEF WaitsInv, TypeInv
  <2>2. \A p \in Puts : status'[p] = status[p]
    BY <1>7 DEF TypeInv, Puts, Gets
  <2>3. CASE m.query = <<>>
    <3>1. result' = result
      BY <1>2, <1>7, <2>1, <2>3 DEF TypeInv
    <3>2. KeepsItems
      BY <1>1, <1>5, <2>3, <3>1, StockQuiet
    <3> QED BY <1>1, <2>2, <3>2, KeepOnce
  <2>4. CASE m.query = to
    <3> DEFINE i == <<"reply", to>>
               j == <<"result", to>>
    <3>0. Replied[to] = m.data /\ Replied'[to] = <<>> /\ \A h \in Ids : h # to => Replied'[h] = Replied[h]
      BY <1>2, <1>7, <2>4
    <3>1. i \in Shelves /\ j \in Shelves /\ i # j
      BY <2>1, StockAt
    <3>2. Stock[i] = m.data /\ Stock[j] = <<>>
      BY <2>1, <3>0, StockAt
    <3>3. Stock'[i] = <<>> /\ Stock'[j] = m.data
      BY <1>1, <2>1, <3>0, StockAfter
    <3>4. Untouched(i, j)
      <4>1. \A h \in Ids : /\ <<"result", h>> # j => result'[h] = result[h]
                           /\ <<"reply", h>> # i => Replied'[h] = Replied[h]
        BY <2>1, <3>0
      <4> QED BY <1>1, <4>1 DEF Untouched
    <3> HIDE DEF i, j
    <3>5. Shifts(Stock[i], Stock'[i], Stock[j], Stock'[j], Len(m.data))
      BY <1>4, <3>2, <3>3, ShiftAll
    <3>6. KeepsItems
      BY <3>1, <3>4, <3>5, StockMoves
    <3> QED BY <1>1, <2>2, <3>6, KeepOnce
  <2> QED BY <1>7, <2>3, <2>4
<1> QED BY <1>3, <1>6, <1>7

LEMMA OnceRunPut ==
    ASSUME BlockingPuts, BaseInv, OnceInv, NEW id \in Ids, RunPut(id)
    PROVE  OnceInv'
<1> USE DEF BaseInv
<1> DEFINE x == PutItem(id)
           k == x.key
           c == id[1]
<1>1. /\ id \in Puts /\ c \in Client /\ x \in Items /\ k \in Key
      /\ \/ /\ held[id] = <<>> /\ InWorker(id)
            /\ sent[c] # <<>> /\ x = Head(sent[c])
            /\ sent' = [sent EXCEPT ![c] = Tail(@)]
         \/ held[id] = <<>> /\ ~InWorker(id) /\ x = Item(id) /\ UNCHANGED sent
         \/ held[id] # <<>> /\ x = held[id][1] /\ UNCHANGED sent
      /\ PutRoom(id, k) \/ PutWaits(id, k) \/ PutRaises(id, k)
      /\ UNCHANGED <<setup, status, result, inbox>>
  BY RunPutFacts
<1>2. Live(id)
  BY RunPutTasks
<1>3. /\ held[id] \in Seq(Items) /\ sent[c] \in Seq(Items) /\ queue[k] \in Seq(Items)
      /\ held[id] # <<>> => Len(held[id]) = 1
  BY <1>1 DEF TypeInv, HeldInv
<1> DEFINE S == <<"sent", c>>
           H == <<"held", id>>
           Q == <<"queue", k>>
<1>4. /\ S \in Shelves /\ H \in Shelves /\ Q \in Shelves /\ S # H /\ S # Q /\ H # Q
      /\ Stock[S] = sent[c] /\ Stock[H] = held[id] /\ Stock[Q] = queue[k]
      /\ Stock'[S] = sent'[c] /\ Stock'[H] = held'[id] /\ Stock'[Q] = queue'[k]
  <2>1. S # H /\ S # Q /\ H # Q
    OBVIOUS
  <2>2. S \in Shelves /\ Stock[S] = sent[c] /\ Stock'[S] = sent'[c]
    BY <1>1, StockAt, StockAfter
  <2>3. H \in Shelves /\ Stock[H] = held[id] /\ Stock'[H] = held'[id]
    BY <1>1, StockAt, StockAfter
  <2>4. Q \in Shelves /\ Stock[Q] = queue[k] /\ Stock'[Q] = queue'[k]
    BY <1>1, StockAt, StockAfter
  <2> QED BY <2>1, <2>2, <2>3, <2>4
<1>5. \A g \in Ids : Replied'[g] = Replied[g]
  <2>1. \/ UNCHANGED returned
        \/ \E r : r.id = id /\ r.data = <<>> /\ returned' = returned \cup {r}
    <3>1. CASE PutRoom(id, k)
      <4> DEFINE r == [id |-> id, out |-> "ok", data |-> <<>>]
      <4>1. r.id = id /\ r.data = <<>> /\ returned' = returned \cup {r}
        BY <3>1 DEF PutRoom
      <4> HIDE DEF r
      <4> QED BY <4>1
    <3>2. CASE PutWaits(id, k)
      BY <3>2 DEF PutWaits
    <3>3. CASE PutRaises(id, k)
      <4> DEFINE r == [id |-> id, out |-> "raise", data |-> <<>>]
      <4>1. r.id = id /\ r.data = <<>> /\ returned' = returned \cup {r}
        BY <3>3 DEF PutRaises
      <4> HIDE DEF r
      <4> QED BY <4>1
    <3> QED BY <1>1, <3>1, <3>2, <3>3
  <2> QED BY <1>1, <1>2, <2>1, RepliedPut
<1>6. ASSUME NEW i, NEW j,
             S \in {i, j} \/ sent' = sent, H \in {i, j} \/ held' = held, Q \in {i, j} \/ queue' = queue,
             sent' = sent \/ sent' = [sent EXCEPT ![c] = Tail(@)],
             held' = held \/ (\E h : held' = [held EXCEPT ![id] = h]),
             queue' = queue \/ queue' = [queue EXCEPT ![k] = Append(@, x)]
      PROVE  Untouched(i, j)
  <2>1. \A d \in Client : <<"sent", d>> \notin {i, j} => sent'[d] = sent[d]
    BY <1>6 DEF TypeInv
  <2>2. \A d \in Key : <<"queue", d>> \notin {i, j} => queue'[d] = queue[d]
    BY <1>6 DEF TypeInv
  <2>3. \A g \in Ids : <<"held", g>> \notin {i, j} => held'[g] = held[g]
    BY <1>6 DEF TypeInv
  <2> QED BY <1>1, <1>5, <2>1, <2>2, <2>3 DEF Untouched
<1> HIDE DEF S, H, Q
<1>7. PutRoom(id, k) => /\ queue' = [queue EXCEPT ![k] = Append(@, x)] /\ queue'[k] = Append(queue[k], x)
                        /\ held' = [held EXCEPT ![id] = <<>>] /\ held'[id] = <<>>
                        /\ held[id] = <<>> => held' = held
  BY <1>1 DEF PutRoom, TypeInv
<1>8. PutWaits(id, k) => /\ queue' = queue /\ held' = [held EXCEPT ![id] = <<x>>]
                         /\ held'[id] = <<x>>
  BY <1>1 DEF PutWaits, TypeInv
<1>9. PutRaises(id, k) => queue' = queue /\ held' = held /\ MaxSize > 0 /\ Call(id).op = "put_nowait"
  BY DEF PutRaises, Full
<1>10. sent[c] # <<>> => /\ sent' = [sent EXCEPT ![c] = Tail(@)] => sent'[c] = Tail(sent[c])
                         /\ Append(<<>>, Head(sent[c])) = <<Head(sent[c])>>
  BY <1>1 DEF TypeInv
<1> HIDE DEF x, k, c
<1>11. CASE held[id] = <<>> /\ InWorker(id) /\ sent[c] # <<>> /\ x = Head(sent[c])
            /\ sent' = [sent EXCEPT ![c] = Tail(@)]
  <2>1. ASSUME PutRoom(id, k) PROVE KeepsItems
    <3>1. Untouched(S, Q)
      BY <1>6, <1>7, <1>11, <2>1
    <3>2. Shifts(sent[c], Tail(sent[c]), queue[k], Append(queue[k], Head(sent[c])), 1)
      BY <1>3, <1>11, ShiftHead
    <3>3. /\ Stock'[S] = Tail(sent[c]) /\ Stock'[Q] = Append(queue[k], Head(sent[c]))
          /\ Stock[S] = sent[c] /\ Stock[Q] = queue[k]
      BY <1>4, <1>7, <1>10, <1>11, <2>1
    <3>4. Shifts(Stock[S], Stock'[S], Stock[Q], Stock'[Q], 1)
      BY <3>2, <3>3
    <3> QED BY <1>4, <3>1, <3>4, StockMoves
  <2>2. ASSUME PutWaits(id, k) PROVE KeepsItems
    <3>1. Untouched(S, H)
      BY <1>6, <1>8, <1>11, <2>2
    <3>2. Shifts(sent[c], Tail(sent[c]), <<>>, Append(<<>>, Head(sent[c])), 1)
      BY <1>3, <1>11, ShiftHead
    <3> QED BY <1>4, <1>8, <1>10, <1>11, <2>2, <3>1, <3>2, StockMoves
  <2>3. ~PutRaises(id, k)
    <3> SUFFICES ASSUME PutRaises(id, k) PROVE FALSE
      OBVIOUS
    <3>1. setup \in Setups /\ setup.maxSize # 0
      BY <1>9 DEF MaxSize, TypeInv
    <3>2. c \in Client \ Driver
      BY <1>1, <1>11 DEF InWorker, c
    <3>3. id[2] \in 1..Len(setup.program[c]) /\ setup.program[c][id[2]].op = "put_nowait"
      BY <1>9, CallFacts DEF TypeInv, Program, Call, c
    <3> QED BY <3>1, <3>2, <3>3 DEF BlockingPuts
  <2>4. KeepsItems
    BY <1>1, <2>1, <2>2, <2>3
  <2> QED BY <1>1, <2>4, KeepOnce
<1>12. CASE held[id] = <<>> /\ ~InWorker(id) /\ x = Item(id) /\ sent' = sent
  <2>1. \A p \in Puts : InWorker(p) => Item(p) # x
    BY <1>12 DEF Item
  <2>2. ASSUME PutRoom(id, k) PROVE KeepsItems
    <3>1. Untouched(Q, Q)
      BY <1>6, <1>7, <1>12, <2>2
    <3>2. \A y : y # x => Keeps(Stock, Stock', y)
      BY <1>1, <1>3, <1>4, <1>7, <2>2, <3>1, StockComes
    <3> QED BY <2>1, <3>2 DEF KeepsItems
  <2>3. ASSUME PutWaits(id, k) PROVE KeepsItems
    <3>1. Untouched(H, H)
      BY <1>6, <1>8, <1>12, <2>3
    <3>2. Stock[H] \in Seq(Items) /\ Stock'[H] = Append(Stock[H], x)
      BY <1>1, <1>3, <1>4, <1>8, <1>12, <2>3
    <3>3. \A y : y # x => Keeps(Stock, Stock', y)
      BY <1>1, <1>4, <3>1, <3>2, StockComes
    <3> QED BY <2>1, <3>3 DEF KeepsItems
  <2>4. ASSUME PutRaises(id, k) PROVE KeepsItems
    BY <1>1, <1>5, <1>9, <1>12, <2>4, StockQuiet
  <2>5. KeepsItems
    BY <1>1, <2>2, <2>3, <2>4
  <2> QED BY <1>1, <2>5, KeepOnce
<1>13. CASE held[id] # <<>> /\ x = held[id][1] /\ sent' = sent
  <2>1. Len(held[id]) = 1 /\ held[id] = <<x>> /\ Head(held[id]) = x /\ Tail(held[id]) = <<>>
    <3>1. Len(held[id]) = 1 /\ held[id] = <<x>>
      BY <1>1, <1>3, <1>13
    <3> QED BY <1>1, <3>1
  <2>2. ASSUME PutRoom(id, k) PROVE KeepsItems
    <3>1. Untouched(H, Q)
      BY <1>6, <1>7, <1>13, <2>2
    <3>2. Shifts(held[id], Tail(held[id]), queue[k], Append(queue[k], Head(held[id])), 1)
      BY <1>3, <1>13, ShiftHead
    <3>3. /\ Stock'[H] = Tail(held[id]) /\ Stock'[Q] = Append(queue[k], Head(held[id]))
          /\ Stock[H] = held[id] /\ Stock[Q] = queue[k]
      BY <1>4, <1>7, <2>1, <2>2
    <3>4. Shifts(Stock[H], Stock'[H], Stock[Q], Stock'[Q], 1)
      BY <3>2, <3>3
    <3> QED BY <1>4, <3>1, <3>4, StockMoves
  <2>3. ASSUME PutWaits(id, k) PROVE KeepsItems
    <3>1. held' = held
      BY <1>1, <1>8, <2>1, <2>3 DEF TypeInv
    <3> QED BY <1>1, <1>5, <1>8, <1>13, <2>3, <3>1, StockQuiet
  <2>4. ASSUME PutRaises(id, k) PROVE KeepsItems
    BY <1>1, <1>5, <1>9, <1>13, <2>4, StockQuiet
  <2>5. KeepsItems
    BY <1>1, <2>2, <2>3, <2>4
  <2> QED BY <1>1, <2>5, KeepOnce
<1> QED BY <1>1, <1>11, <1>12, <1>13 DEF c, x, k

LEMMA ShiftOne ==
    ASSUME NEW S, NEW s \in Seq(S), s # <<>>
    PROVE  Shifts(s, SubSeq(s, 2, Len(s)), <<>>, <<Head(s)>>, 1)
<1>1. Len(s) \in Nat /\ 1 \in 0..Len(s) /\ Head(s) = s[1]
  BY TailFacts
<1>2. Shifts(s, SubSeq(s, 1 + 1, Len(s)), <<>>, <<>> \o SubSeq(s, 1, 1), 1)
  <2>1. <<>> \in Seq(S)
    OBVIOUS
  <2> QED BY <1>1, <2>1, ShiftFirst
<1>3. Len(SubSeq(s, 2, Len(s))) = Len(s) - 1 /\ \A p \in 1..(Len(s) - 1) : SubSeq(s, 2, Len(s))[p] = s[p + 1]
  BY <1>1, <1>2 DEF Shifts
<1>4. Len(<<>>) = 0 /\ Len(<<Head(s)>>) = 1 /\ <<Head(s)>>[1] = s[1] /\ \A p \in 1..1 : p = 1
  BY <1>1
<1> QED BY <1>1, <1>3, <1>4 DEF Shifts

LEMMA OnceRunGet ==
    ASSUME BaseInv, OnceInv, NEW id \in Ids, RunGet(id)
    PROVE  OnceInv'
<1> USE DEF BaseInv
<1> DEFINE k == Call(id).key
<1>1. /\ id \in Gets /\ ready # <<>> /\ Head(ready) = id /\ k \in Key
      /\ GetTakes(id, k) \/ GetWaits(id, k) \/ GetFails(id, k)
      /\ UNCHANGED <<setup, status, result, sent, held>>
  BY RunGetFacts
<1>2. Live(id)
  BY <1>1, RunningGet
<1> HIDE DEF k
<1>3. ASSUME GetTakes(id, k) PROVE KeepsItems
  <2> DEFINE i == <<"queue", k>>
             j == <<"reply", id>>
             d == <<Head(queue[k])>>
  <2>1. /\ queue[k] # <<>> /\ queue[k] \in Seq(Items) /\ Answer(id, id, d)
        /\ queue' = [queue EXCEPT ![k] = SubSeq(@, 1 + 1, Len(@))]
    BY <1>1, <1>3 DEF GetTakes, TakeItems, TypeInv
  <2>2. queue'[k] = SubSeq(queue[k], 2, Len(queue[k])) /\ \A h \in Key : h # k => queue'[h] = queue[h]
    BY <1>1, <2>1 DEF TypeInv
  <2> HIDE DEF d
  <2>3. /\ id \in Ids /\ Replied[id] = <<>> /\ Replied'[id] = d
        /\ \A g \in Ids : g # id => Replied'[g] = Replied[g]
    <3>1. id # <<>>
      BY CallFacts DEF TypeInv
    <3> QED BY <1>1, <1>2, <2>1, <3>1, RepliedAnswer
  <2>4. i \in Shelves /\ Stock[i] = queue[k] /\ Stock'[i] = queue'[k]
    BY <1>1, StockAt, StockAfter
  <2>5. j \in Shelves /\ Stock[j] = Replied[id] /\ Stock'[j] = Replied'[id]
    BY <1>1, StockAt, StockAfter
  <2>6. i # j
    OBVIOUS
  <2>7. Untouched(i, j)
    <3>1. \A h \in Key : <<"queue", h>> \notin {i, j} => queue'[h] = queue[h]
      BY <2>2
    <3>2. \A g \in Ids : <<"reply", g>> \notin {i, j} => Replied'[g] = Replied[g]
      BY <2>3
    <3> QED BY <1>1, <3>1, <3>2 DEF Untouched
  <2>8. Shifts(queue[k], queue'[k], <<>>, d, 1)
    BY <2>1, <2>2, ShiftOne DEF d
  <2>9. Shifts(Stock[i], Stock'[i], Stock[j], Stock'[j], 1)
    BY <2>3, <2>4, <2>5, <2>8
  <2> HIDE DEF i, j
  <2> QED BY <2>4, <2>5, <2>6, <2>7, <2>9, StockMoves
<1>4. ASSUME GetWaits(id, k) PROVE KeepsItems
  <2>1. UNCHANGED <<queue, inbox, returned>>
    BY <1>4 DEF GetWaits
  <2> QED BY <1>1, <2>1, RepliedQuiet, StockQuiet
<1>5. ASSUME GetFails(id, k) PROVE KeepsItems
  <2>1. queue' = queue /\ Answer(id, <<>>, <<>>)
    BY <1>5 DEF GetFails
  <2>2. \A g \in Ids : Replied'[g] = Replied[g]
    <3>1. <<>> \in {id, <<>>}
      OBVIOUS
    <3>2. /\ Replied[id] = <<>> /\ Replied'[id] = <<>>
          /\ \A g \in Ids : g # id => Replied'[g] = Replied[g]
      BY <1>1, <1>2, <2>1, <3>1, RepliedAnswer
    <3> QED BY <3>2
  <2> QED BY <1>1, <2>1, <2>2, StockQuiet
<1>6. KeepsItems
  BY <1>1, <1>3, <1>4, <1>5
<1> QED BY <1>1, <1>6, KeepOnce

(* The two moves of a get_batch that ends: from the queue to the hands of  *)
(* the task, and from there to the reply.                                  *)
LEMMA TwoMoves ==
    ASSUME NEW A, NEW B, DOMAIN B = DOMAIN A,
           NEW i \in DOMAIN A, NEW h \in DOMAIN A, NEW j \in DOMAIN A, i # h, i # j, h # j,
           \A l \in DOMAIN A : l \notin {i, h, j} => B[l] = A[l],
           NEW b, NEW n, Shifts(A[i], B[i], A[h], b, n),
           B[h] = <<>>, A[j] = <<>>, B[j] = b, Shifts(b, <<>>, <<>>, b, Len(b))
    PROVE  \A x : Keeps(A, B, x)
<1> DEFINE M == [l \in DOMAIN A |-> IF l = i THEN B[i] ELSE IF l = h THEN b ELSE A[l]]
<1>1. /\ DOMAIN M = DOMAIN A /\ M[i] = B[i] /\ M[h] = b /\ M[j] = A[j]
      /\ \A l \in DOMAIN A : l \notin {i, h} => M[l] = A[l]
      /\ \A l \in DOMAIN A : l \notin {h, j} => B[l] = M[l]
  OBVIOUS
<1> HIDE DEF M
<1>2. Moves(A, M, i, h, n)
  BY <1>1 DEF Moves
<1>3. Moves(M, B, h, j, Len(b))
  BY <1>1 DEF Moves
<1>4. \A x : Keeps(A, M, x)
  BY <1>2, MoveKeeps
<1>5. \A x : Keeps(M, B, x)
  BY <1>3, MoveKeeps
<1> QED BY <1>4, <1>5 DEF Keeps

LEMMA OnceRunBatch ==
    ASSUME BaseInv, OnceInv, NEW id \in Ids, RunGetBatch(id)
    PROVE  OnceInv'
<1> USE DEF BaseInv
<1> DEFINE k == Call(id).key
           n == BatchSize(id)
           b == Batch(id)
           q == queue[k]
<1>1. /\ id \in Gets /\ ready # <<>> /\ Head(ready) = id /\ k \in Key
      /\ n \in 0..Len(q) /\ b \in Seq(Items)
      /\ TakeItems(k, n) /\ (BatchEnds(id, k) \/ BatchWaits(id, k))
      /\ UNCHANGED <<setup, status, result, sent>>
  BY RunBatchFacts
<1>2. Live(id)
  BY <1>1, RunningGet
<1>3. b = held[id] \o SubSeq(q, 1, n)
  BY DEF Batch
<1> HIDE DEF k, n, b
<1>4. q \in Seq(Items) /\ held[id] \in Seq(Items)
  BY <1>1 DEF TypeInv
<1>5. queue'[k] = SubSeq(q, n + 1, Len(q)) /\ \A h \in Key : h # k => queue'[h] = queue[h]
  BY <1>1 DEF TakeItems, TypeInv
<1>6. Shifts(q, queue'[k], held[id], b, n)
  BY <1>1, <1>3, <1>4, <1>5, ShiftFirst
<1> DEFINE Q == <<"queue", k>>
           H == <<"held", id>>
           R == <<"reply", id>>
<1>7. Q # H /\ Q # R /\ H # R
  OBVIOUS
<1>8. Q \in Shelves /\ Stock[Q] = q /\ Stock'[Q] = queue'[k]
  BY <1>1, StockAt, StockAfter
<1>9. H \in Shelves /\ Stock[H] = held[id] /\ Stock'[H] = held'[id]
  BY <1>1, StockAt, StockAfter
<1>10. R \in Shelves /\ Stock[R] = Replied[id] /\ Stock'[R] = Replied'[id]
  BY <1>1, StockAt, StockAfter
<1>11. ASSUME BatchWaits(id, k) PROVE KeepsItems
  <2>1. held' = [held EXCEPT ![id] = b] /\ UNCHANGED <<inbox, returned>>
    BY <1>11 DEF BatchWaits, b
  <2>2. held'[id] = b /\ \A g \in Ids : g # id => held'[g] = held[g]
    BY <2>1 DEF TypeInv
  <2>3. \A g \in Ids : Replied'[g] = Replied[g]
    BY <1>1, <2>1, RepliedQuiet
  <2>4. Untouched(Q, H)
    <3>1. \A h \in Key : <<"queue", h>> \notin {Q, H} => queue'[h] = queue[h]
      BY <1>5
    <3>2. \A g \in Ids : <<"held", g>> \notin {Q, H} => held'[g] = held[g]
      BY <2>2
    <3> QED BY <1>1, <2>3, <3>1, <3>2 DEF Untouched
  <2>5. Shifts(Stock[Q], Stock'[Q], Stock[H], Stock'[H], n)
    BY <1>6, <1>8, <1>9, <2>2
  <2> HIDE DEF Q, H, R
  <2> QED BY <1>7, <1>8, <1>9, <2>4, <2>5, StockMoves
<1>12. ASSUME BatchEnds(id, k) PROVE KeepsItems
  <2>1. held' = [held EXCEPT ![id] = <<>>] /\ Answer(id, id, b)
    BY <1>12 DEF BatchEnds, b
  <2>2. held'[id] = <<>> /\ \A g \in Ids : g # id => held'[g] = held[g]
    BY <2>1 DEF TypeInv
  <2>3. /\ Replied[id] = <<>> /\ Replied'[id] = b
        /\ \A g \in Ids : g # id => Replied'[g] = Replied[g]
    <3>1. id # <<>>
      BY CallFacts DEF TypeInv
    <3> QED BY <1>1, <1>2, <2>1, <3>1, RepliedAnswer
  <2>4. DOMAIN Stock = Shelves /\ DOMAIN Stock' = Shelves
    BY <1>1, StockAt, StockAfter
  <2>5. ASSUME NEW l \in Shelves, l \notin {Q, H, R} PROVE Stock'[l] = Stock[l]
    <3>1. ASSUME NEW c \in Client, l = <<"sent", c>> PROVE Stock'[l] = Stock[l]
      BY <1>1, <3>1, StockAt, StockAfter
    <3>2. ASSUME NEW h \in Key, l = <<"queue", h>> PROVE Stock'[l] = Stock[l]
      BY <1>1, <1>5, <2>5, <3>2, StockAt, StockAfter
    <3>3. ASSUME NEW g \in Ids, l = <<"held", g>> PROVE Stock'[l] = Stock[l]
      BY <1>1, <2>2, <2>5, <3>3, StockAt, StockAfter
    <3>4. ASSUME NEW g \in Ids, l = <<"result", g>> PROVE Stock'[l] = Stock[l]
      BY <1>1, <3>4, StockAt, StockAfter
    <3>5. ASSUME NEW g \in Ids, l = <<"reply", g>> PROVE Stock'[l] = Stock[l]
      BY <1>1, <2>3, <2>5, <3>5, StockAt, StockAfter
    <3> QED BY <3>1, <3>2, <3>3, <3>4, <3>5, ShelfKinds
  <2>6. Shifts(b, <<>>, <<>>, b, Len(b))
    BY <1>1, ShiftAll
  <2> DEFINE A == Stock
             B == Stock'
  <2>7. /\ DOMAIN B = DOMAIN A /\ Q \in DOMAIN A /\ H \in DOMAIN A /\ R \in DOMAIN A
        /\ \A l \in DOMAIN A : l \notin {Q, H, R} => B[l] = A[l]
    BY <1>8, <1>9, <1>10, <2>4, <2>5
  <2>8. Shifts(A[Q], B[Q], A[H], b, n) /\ B[H] = <<>> /\ A[R] = <<>> /\ B[R] = b
    BY <1>6, <1>8, <1>9, <1>10, <2>2, <2>3
  <2> HIDE DEF A, B, Q, H, R
  <2>9. \A x : Keeps(A, B, x)
    BY <1>7, <2>6, <2>7, <2>8, TwoMoves
  <2> QED BY <2>9 DEF KeepsItems, A, B
<1>13. KeepsItems
  BY <1>1, <1>11, <1>12
<1> QED BY <1>1, <1>13, KeepOnce

LEMMA OnceNext ==
    ASSUME SyncGetsFirst, BlockingPuts, BaseInv, SyncInv, WaitsInv, OnceInv, [Next]_vars
    PROVE  OnceInv'
<1>1. ASSUME NEW id \in Ids, WorkerPut(id) PROVE OnceInv'
  BY <1>1, OnceWorkerPut
<1>2. ASSUME NEW id \in Ids, WorkerGet(id) \/ DriverCall(id) PROVE OnceInv'
  BY <1>2, OnceCalls
<1>3. ASSUME NEW id \in Ids, Start(id) PROVE OnceInv'
  <2>1. UNCHANGED <<setup, status, result, returned, inbox, sent, queue, held>>
    BY <1>3 DEF Start, client
  <2> QED BY <2>1, RepliedQuiet, StockQuiet, KeepOnce
<1>4. ASSUME NEW r \in returned, PutCallback(r) PROVE OnceInv'
  BY <1>4, OncePutCallback
<1>5. ASSUME NEW r \in returned, DriverReturn(r) PROVE OnceInv'
  BY <1>5, OnceDriverReturn
<1>6. ASSUME NEW c \in Client, Deliver(c) PROVE OnceInv'
  BY <1>6, OnceDeliver
<1>7. ASSUME NEW id \in Ids, RunPut(id) PROVE OnceInv'
  BY <1>7, OnceRunPut
<1>8. ASSUME NEW id \in Ids, RunGet(id) PROVE OnceInv'
  BY <1>8, OnceRunGet
<1>9. ASSUME NEW id \in Ids, RunGetBatch(id) PROVE OnceInv'
  BY <1>9, OnceRunBatch
<1>10. CASE UNCHANGED vars
  <2>1. UNCHANGED <<setup, status, result, returned, inbox, sent, queue, held>>
    BY <1>10 DEF vars, client, wire, worker
  <2> QED BY <2>1, RepliedQuiet, StockQuiet, KeepOnce
<1> QED BY <1>1, <1>2, <1>3, <1>4, <1>5, <1>6, <1>7, <1>8, <1>9, <1>10 DEF Next, EventLoop

-----------------------------------------------------------------------------
(* The shelves are the places: a reply is a message on the link back or a  *)
(* returned result.                                                        *)

LEMMA ReplyIsSent ==
    ASSUME BaseInv, NEW g \in Ids
    PROVE  \/ Replied[g] = <<>>
           \/ /\ g \in Gets /\ ~InWorker(g)
              /\ \E r \in returned : r.id = g /\ r.data = Replied[g]
           \/ /\ g \in Gets /\ InWorker(g)
              /\ \E m \in 1..Len(inbox[g[1]]) : inbox[g[1]][m].query = g /\ inbox[g[1]][m].data = Replied[g]
<1> USE DEF BaseInv
<1>1. Replied[g] = <<>> \/ Replied[g] \in Sent(g)
  BY DEF Replied, Sole
<1>2. CASE Replied[g] \in Sent(g) /\ InWorker(g)
  <2>1. PICK m \in 1..Len(inbox[g[1]]) : inbox[g[1]][m].query = g /\ inbox[g[1]][m].data = Replied[g]
    BY <1>2 DEF Sent
  <2>2. g \in Gets
    <3>1. g[1] \in Client /\ g # <<>>
      BY CallFacts DEF TypeInv
    <3>2. inbox[g[1]] \in Seq(Replies)
      BY <3>1 DEF TypeInv
    <3>3. inbox[g[1]][m] \in Replies
      BY <3>2
    <3> QED BY <2>1, <3>1, <3>3 DEF Replies
  <2> QED BY <1>2, <2>1, <2>2
<1>3. CASE Replied[g] \in Sent(g) /\ ~InWorker(g)
  <2>1. PICK r \in returned : r.id = g /\ r.data = Replied[g]
    BY <1>3 DEF Sent
  <2>2. g \in Gets \/ Replied[g] = <<>>
    BY <2>1 DEF DataInv
  <2> QED BY <1>3, <2>1, <2>2
<1> QED BY <1>1, <1>2, <1>3

LEMMA SentIsReply ==
    ASSUME BaseInv
    PROVE  /\ \A r \in returned : r.data # <<>> =>
                r.id \in Gets /\ ~InWorker(r.id) /\ Replied[r.id] = r.data
           /\ \A c \in Client : \A m \in 1..Len(inbox[c]) : inbox[c][m].data # <<>> =>
                \E g \in Gets : /\ g[1] = c /\ InWorker(g) /\ inbox[c][m].query = g
                                /\ Replied[g] = inbox[c][m].data
<1> USE DEF BaseInv
<1>0. \A g \in Gets : g \in Ids /\ g # <<>> /\ g \notin Puts
  BY CallFacts DEF TypeInv, Gets
<1>1. ASSUME NEW r \in returned, r.data # <<>>
      PROVE  r.id \in Gets /\ ~InWorker(r.id) /\ Replied[r.id] = r.data
  <2>1. r.id \in Gets
    BY <1>1 DEF DataInv
  <2>2. ~InWorker(r.id)
    BY <1>0, <2>1 DEF CommInv
  <2>3. Sent(r.id) = {r.data}
    BY <2>2 DEF Sent, TaskInv
  <2>4. PICK g \in Ids : g = r.id
    BY <1>0, <2>1
  <2>5. Replied[g] = Sole(Sent(g))
    BY DEF Replied
  <2> QED BY <2>1, <2>2, <2>3, <2>4, <2>5, SoleFacts
<1>2. ASSUME NEW c \in Client, NEW m \in 1..Len(inbox[c]), inbox[c][m].data # <<>>
      PROVE  \E g \in Gets : /\ g[1] = c /\ InWorker(g) /\ inbox[c][m].query = g
                             /\ Replied[g] = inbox[c][m].data
  <2>1. inbox[c] \in Seq(Replies)
    BY DEF TypeInv
  <2>2. inbox[c][m] \in Replies
    BY <2>1
  <2>3. inbox[c][m].query # <<>>
    BY <1>2 DEF DataInv
  <2>4. PICK g \in Gets : g = inbox[c][m].query
    BY <2>2, <2>3 DEF Replies
  <2>5. g[1] = c
    BY <2>4 DEF CommInv
  <2>6. InWorker(g)
    <3>1. inbox[c] # <<>>
      BY <2>1
    <3> QED BY <2>5, <3>1 DEF InWorker, CommInv
  <2>7. \A n \in 1..Len(inbox[c]) : inbox[c][n].query = g => n = m
    BY <1>0, <2>4 DEF CommInv
  <2>8. Sent(g) = {inbox[c][m].data}
    BY <2>4, <2>5, <2>6, <2>7 DEF Sent
  <2>9. Replied[g] = Sole(Sent(g))
    BY <1>0 DEF Replied
  <2> QED BY <2>4, <2>5, <2>6, <2>8, <2>9, SoleFacts
<1> QED BY <1>1, <1>2

(* The place pl is the n-th of shelf l.                                    *)
Stands(pl, l, n) ==
  \/ l[1] # "reply" /\ pl = <<l, n>>
  \/ /\ l[1] = "reply" /\ ~InWorker(l[2])
     /\ pl = <<<<"returned", l[2]>>, n>>
  \/ /\ l[1] = "reply" /\ InWorker(l[2])
     /\ \E m \in 1..Len(inbox[l[2][1]]) :
          inbox[l[2][1]][m].query = l[2] /\ pl = <<<<"inbox", l[2][1], m>>, n>>

LEMMA PlaceForms ==
    ASSUME NEW x, NEW pl
    PROVE  pl \in Places(x) <=>
             \/ \E c \in Client : pl \in PlacesIn(sent[c], x, <<"sent", c>>)
             \/ \E k \in Key : pl \in PlacesIn(queue[k], x, <<"queue", k>>)
             \/ \E g \in Ids : pl \in PlacesIn(held[g], x, <<"held", g>>)
             \/ \E g \in Ids : pl \in PlacesIn(result[g], x, <<"result", g>>)
             \/ \E r \in returned : pl \in PlacesIn(r.data, x, <<"returned", r.id>>)
             \/ \E c \in Client : \E m \in 1..Len(inbox[c]) :
                  pl \in PlacesIn(inbox[c][m].data, x, <<"inbox", c, m>>)
<1> DEFINE U1 == {PlacesIn(sent[c], x, <<"sent", c>>) : c \in Client}
           U2 == {PlacesIn(queue[k], x, <<"queue", k>>) : k \in Key}
           U3 == {PlacesIn(held[g], x, <<"held", g>>) : g \in Ids}
           U4 == {PlacesIn(result[g], x, <<"result", g>>) : g \in Ids}
           U5 == {PlacesIn(r.data, x, <<"returned", r.id>>) : r \in returned}
           B(c) == {PlacesIn(inbox[c][m].data, x, <<"inbox", c, m>>) : m \in 1..Len(inbox[c])}
           U6 == {UNION B(c) : c \in Client}
<1>1. pl \in UNION U1 <=> \E c \in Client : pl \in PlacesIn(sent[c], x, <<"sent", c>>)
  OBVIOUS
<1>2. pl \in UNION U2 <=> \E k \in Key : pl \in PlacesIn(queue[k], x, <<"queue", k>>)
  OBVIOUS
<1>3. pl \in UNION U3 <=> \E g \in Ids : pl \in PlacesIn(held[g], x, <<"held", g>>)
  OBVIOUS
<1>4. pl \in UNION U4 <=> \E g \in Ids : pl \in PlacesIn(result[g], x, <<"result", g>>)
  OBVIOUS
<1>5. pl \in UNION U5 <=> \E r \in returned : pl \in PlacesIn(r.data, x, <<"returned", r.id>>)
  OBVIOUS
<1>6. pl \in UNION U6 <=> \E c \in Client : \E m \in 1..Len(inbox[c]) :
                            pl \in PlacesIn(inbox[c][m].data, x, <<"inbox", c, m>>)
  <2>1. pl \in UNION U6 <=> \E c \in Client : pl \in UNION B(c)
    OBVIOUS
  <2>2. \A c : pl \in UNION B(c) <=> \E m \in 1..Len(inbox[c]) :
                                   pl \in PlacesIn(inbox[c][m].data, x, <<"inbox", c, m>>)
    OBVIOUS
  <2> QED BY <2>1, <2>2
<1>7. Places(x) = UNION (U1 \cup U2 \cup U3 \cup U4 \cup U5 \cup U6)
  BY DEF Places
<1> HIDE DEF U1, U2, U3, U4, U5, U6
<1>8. pl \in Places(x) <=> \/ pl \in UNION U1 \/ pl \in UNION U2 \/ pl \in UNION U3
                          \/ pl \in UNION U4 \/ pl \in UNION U5 \/ pl \in UNION U6
  BY <1>7
<1> QED BY <1>1, <1>2, <1>3, <1>4, <1>5, <1>6, <1>8

LEMMA InPlaces ==
    ASSUME NEW s, NEW x, NEW label, NEW pl
    PROVE  pl \in PlacesIn(s, x, label) <=> \E n \in 1..Len(s) : s[n] = x /\ pl = <<label, n>>
BY DEF PlacesIn

LEMMA PlaceOnShelf ==
    ASSUME BaseInv, NEW x, NEW pl \in Places(x)
    PROVE  \E l \in Shelves : \E n \in 1..Len(Stock[l]) : Stock[l][n] = x /\ Stands(pl, l, n)
<1>1. ASSUME NEW c \in Client, pl \in PlacesIn(sent[c], x, <<"sent", c>>)
      PROVE  \E l \in Shelves : \E n \in 1..Len(Stock[l]) : Stock[l][n] = x /\ Stands(pl, l, n)
  <2> DEFINE l == <<"sent", c>>
  <2>1. l \in Shelves /\ Stock[l] = sent[c] /\ l[1] # "reply"
    BY StockAt
  <2> QED BY <1>1, <2>1, InPlaces DEF Stands
<1>2. ASSUME NEW k \in Key, pl \in PlacesIn(queue[k], x, <<"queue", k>>)
      PROVE  \E l \in Shelves : \E n \in 1..Len(Stock[l]) : Stock[l][n] = x /\ Stands(pl, l, n)
  <2> DEFINE l == <<"queue", k>>
  <2>1. l \in Shelves /\ Stock[l] = queue[k] /\ l[1] # "reply"
    BY StockAt
  <2> QED BY <1>2, <2>1, InPlaces DEF Stands
<1>3. ASSUME NEW g \in Ids, pl \in PlacesIn(held[g], x, <<"held", g>>)
      PROVE  \E l \in Shelves : \E n \in 1..Len(Stock[l]) : Stock[l][n] = x /\ Stands(pl, l, n)
  <2> DEFINE l == <<"held", g>>
  <2>1. l \in Shelves /\ Stock[l] = held[g] /\ l[1] # "reply"
    BY StockAt
  <2> QED BY <1>3, <2>1, InPlaces DEF Stands
<1>4. ASSUME NEW g \in Ids, pl \in PlacesIn(result[g], x, <<"result", g>>)
      PROVE  \E l \in Shelves : \E n \in 1..Len(Stock[l]) : Stock[l][n] = x /\ Stands(pl, l, n)
  <2> DEFINE l == <<"result", g>>
  <2>1. l \in Shelves /\ Stock[l] = result[g] /\ l[1] # "reply"
    BY StockAt
  <2> QED BY <1>4, <2>1, InPlaces DEF Stands
<1>5. ASSUME NEW r \in returned, pl \in PlacesIn(r.data, x, <<"returned", r.id>>)
      PROVE  \E l \in Shelves : \E n \in 1..Len(Stock[l]) : Stock[l][n] = x /\ Stands(pl, l, n)
  <2>1. PICK n \in 1..Len(r.data) : r.data[n] = x /\ pl = <<<<"returned", r.id>>, n>>
    BY <1>5, InPlaces
  <2>2. r.data \in Seq(Items)
    BY DEF BaseInv, TypeInv, Results
  <2>3. r.data # <<>>
    BY <2>2
  <2>4. r.id \in Gets /\ ~InWorker(r.id) /\ Replied[r.id] = r.data
    BY <2>3, SentIsReply
  <2>5. PICK g \in Ids : g = r.id
    BY <2>4 DEF Gets
  <2> DEFINE l == <<"reply", g>>
  <2>6. l \in Shelves /\ Stock[l] = r.data /\ l[1] = "reply" /\ l[2] = g
    BY <2>4, <2>5, StockAt
  <2>7. Stands(pl, l, n)
    BY <2>1, <2>4, <2>5, <2>6 DEF Stands
  <2> QED BY <2>1, <2>6, <2>7
<1>6. ASSUME NEW c \in Client, NEW m \in 1..Len(inbox[c]),
             pl \in PlacesIn(inbox[c][m].data, x, <<"inbox", c, m>>)
      PROVE  \E l \in Shelves : \E n \in 1..Len(Stock[l]) : Stock[l][n] = x /\ Stands(pl, l, n)
  <2>1. PICK n \in 1..Len(inbox[c][m].data) : inbox[c][m].data[n] = x /\ pl = <<<<"inbox", c, m>>, n>>
    BY <1>6, InPlaces
  <2>2. inbox[c][m].data # <<>>
    <3>1. inbox[c] \in Seq(Replies)
      BY DEF BaseInv, TypeInv
    <3>2. inbox[c][m] \in Replies
      BY <3>1
    <3>3. inbox[c][m].data \in Seq(Items)
      BY <3>2 DEF Replies
    <3> QED BY <3>3
  <2>3. PICK g \in Gets : /\ g[1] = c /\ InWorker(g) /\ inbox[c][m].query = g
                          /\ Replied[g] = inbox[c][m].data
    BY <2>2, SentIsReply
  <2> DEFINE l == <<"reply", g>>
  <2>4. l \in Shelves /\ Stock[l] = inbox[c][m].data /\ l[1] = "reply" /\ l[2] = g
    <3>1. g \in Ids
      BY DEF Gets
    <3> QED BY <2>3, <3>1, StockAt
  <2>5. Stands(pl, l, n)
    BY <2>1, <2>3, <2>4 DEF Stands
  <2> QED BY <2>1, <2>4, <2>5
<1> QED BY <1>1, <1>2, <1>3, <1>4, <1>5, <1>6, PlaceForms

LEMMA ShelfIsPlace ==
    ASSUME BaseInv, NEW x, NEW l \in Shelves, NEW n \in 1..Len(Stock[l]), Stock[l][n] = x
    PROVE  \E pl \in Places(x) : Stands(pl, l, n)
<1>1. ASSUME NEW c \in Client, l = <<"sent", c>> PROVE \E pl \in Places(x) : Stands(pl, l, n)
  <2>1. Stock[l] = sent[c] /\ l[1] # "reply"
    BY <1>1, StockAt
  <2>2. <<l, n>> \in PlacesIn(sent[c], x, <<"sent", c>>)
    BY <1>1, <2>1, InPlaces
  <2> QED BY <2>1, <2>2, PlaceForms DEF Stands
<1>2. ASSUME NEW k \in Key, l = <<"queue", k>> PROVE \E pl \in Places(x) : Stands(pl, l, n)
  <2>1. Stock[l] = queue[k] /\ l[1] # "reply"
    BY <1>2, StockAt
  <2>2. <<l, n>> \in PlacesIn(queue[k], x, <<"queue", k>>)
    BY <1>2, <2>1, InPlaces
  <2> QED BY <2>1, <2>2, PlaceForms DEF Stands
<1>3. ASSUME NEW g \in Ids, l = <<"held", g>> PROVE \E pl \in Places(x) : Stands(pl, l, n)
  <2>1. Stock[l] = held[g] /\ l[1] # "reply"
    BY <1>3, StockAt
  <2>2. <<l, n>> \in PlacesIn(held[g], x, <<"held", g>>)
    BY <1>3, <2>1, InPlaces
  <2> QED BY <2>1, <2>2, PlaceForms DEF Stands
<1>4. ASSUME NEW g \in Ids, l = <<"result", g>> PROVE \E pl \in Places(x) : Stands(pl, l, n)
  <2>1. Stock[l] = result[g] /\ l[1] # "reply"
    BY <1>4, StockAt
  <2>2. <<l, n>> \in PlacesIn(result[g], x, <<"result", g>>)
    BY <1>4, <2>1, InPlaces
  <2> QED BY <2>1, <2>2, PlaceForms DEF Stands
<1>5. ASSUME NEW g \in Ids, l = <<"reply", g>> PROVE \E pl \in Places(x) : Stands(pl, l, n)
  <2>1. Stock[l] = Replied[g] /\ l[1] = "reply" /\ l[2] = g
    BY <1>5, StockAt
  <2>2. CASE ~InWorker(g)
    <3>1. PICK r \in returned : r.id = g /\ r.data = Replied[g]
      BY <2>1, <2>2, ReplyIsSent
    <3> DEFINE pl == <<<<"returned", g>>, n>>
    <3>2. pl \in PlacesIn(r.data, x, <<"returned", r.id>>)
      BY <2>1, <3>1, InPlaces
    <3>3. Stands(pl, l, n)
      BY <2>1, <2>2 DEF Stands
    <3> HIDE DEF pl
    <3>4. pl \in Places(x)
      BY <3>2, PlaceForms
    <3> QED BY <3>3, <3>4
  <2>3. CASE InWorker(g)
    <3>1. PICK m \in 1..Len(inbox[g[1]]) : inbox[g[1]][m].query = g /\ inbox[g[1]][m].data = Replied[g]
      BY <2>1, <2>3, ReplyIsSent
    <3> DEFINE pl == <<<<"inbox", g[1], m>>, n>>
    <3>2. pl \in PlacesIn(inbox[g[1]][m].data, x, <<"inbox", g[1], m>>)
      BY <2>1, <3>1, InPlaces
    <3>3. Stands(pl, l, n)
      BY <2>1, <2>3, <3>1 DEF Stands
    <3>4. g[1] \in Client
      BY CallFacts DEF BaseInv, TypeInv
    <3> HIDE DEF pl
    <3>5. pl \in Places(x)
      BY <3>2, <3>4, PlaceForms
    <3> QED BY <3>3, <3>5
  <2> QED BY <2>2, <2>3
<1> QED BY <1>1, <1>2, <1>3, <1>4, <1>5, ShelfKinds

LEMMA OnePlaceEach ==
    ASSUME BaseInv, NEW x, Once(Stock, x)
    PROVE  Cardinality(Places(x)) = 1
<1>1. PICK l, n : Only(Stock, x, l, n)
  BY DEF Once
<1>2. l \in Shelves /\ n \in 1..Len(Stock[l]) /\ Stock[l][n] = x
  BY <1>1, StockAt DEF Only
<1>3. PICK pl \in Places(x) : Stands(pl, l, n)
  BY <1>2, ShelfIsPlace
<1>4. ASSUME NEW p2 \in Places(x) PROVE p2 = pl
  <2>1. PICK l2 \in Shelves : \E n2 \in 1..Len(Stock[l2]) : Stock[l2][n2] = x /\ Stands(p2, l2, n2)
    BY PlaceOnShelf
  <2>2. PICK n2 \in 1..Len(Stock[l2]) : Stock[l2][n2] = x /\ Stands(p2, l2, n2)
    BY <2>1
  <2>3. l2 = l /\ n2 = n
    BY <1>1, <2>2, StockAt DEF Only
  <2>4. Stands(p2, l, n)
    BY <2>2, <2>3
  <2>5. CASE l[1] = "reply" /\ InWorker(l[2])
    <3>1. PICK g \in Ids : l = <<"reply", g>>
      BY <1>2, <2>5, ShelfKinds
    <3>2. l[2] = g /\ g[1] \in Client /\ g # <<>>
      BY <3>1, CallFacts DEF BaseInv, TypeInv
    <3>3. PICK m \in 1..Len(inbox[g[1]]) : inbox[g[1]][m].query = g /\ pl = <<<<"inbox", g[1], m>>, n>>
      BY <1>3, <2>5, <3>2 DEF Stands
    <3>4. PICK m2 \in 1..Len(inbox[g[1]]) : inbox[g[1]][m2].query = g /\ p2 = <<<<"inbox", g[1], m2>>, n>>
      BY <2>4, <2>5, <3>2 DEF Stands
    <3>5. m = m2
      BY <3>2, <3>3, <3>4 DEF BaseInv, CommInv
    <3> QED BY <3>3, <3>4, <3>5
  <2>6. CASE ~(l[1] = "reply" /\ InWorker(l[2]))
    BY <1>3, <2>4, <2>6 DEF Stands
  <2> QED BY <2>5, <2>6
<1>5. Places(x) = {pl}
  BY <1>3, <1>4
<1> QED BY <1>5, FS_Singleton

LEMMA OnceInit == ASSUME Init PROVE OnceInv /\ WaitsInv
<1> USE DEF Init
<1>0. BaseInv
  BY BaseInit
<1>1. \A g \in Ids : Sent(g) = {}
  <2> TAKE g \in Ids
  <2>1. g[1] \in Client
    BY <1>0, CallFacts DEF BaseInv, TypeInv
  <2> QED BY <2>1 DEF Sent
<1>2. \A g \in Ids : Replied[g] = <<>>
  BY <1>1, SoleFacts DEF Replied
<1>3. \A x : Nowhere(Stock, x)
  <2>0. /\ Len(<<>>) = 0 /\ \A g \in Ids : held[g] = <<>> /\ result[g] = <<>>
        /\ (\A c \in Client : sent[c] = <<>>) /\ \A k \in Key : queue[k] = <<>>
    OBVIOUS
  <2> SUFFICES ASSUME NEW l \in Shelves PROVE Len(Stock[l]) = 0
    BY StockAt DEF Nowhere
  <2>1. ASSUME NEW c \in Client, l = <<"sent", c>> PROVE Len(Stock[l]) = 0
    BY <2>0, <2>1, StockAt
  <2>2. ASSUME NEW k \in Key, l = <<"queue", k>> PROVE Len(Stock[l]) = 0
    BY <2>0, <2>2, StockAt
  <2>3. ASSUME NEW g \in Ids, l = <<"held", g>> PROVE Len(Stock[l]) = 0
    BY <2>0, <2>3, StockAt
  <2>4. ASSUME NEW g \in Ids, l = <<"result", g>> PROVE Len(Stock[l]) = 0
    BY <2>0, <2>4, StockAt
  <2>5. ASSUME NEW g \in Ids, l = <<"reply", g>> PROVE Len(Stock[l]) = 0
    BY <1>2, <2>0, <2>5, StockAt
  <2> QED BY <2>1, <2>2, <2>3, <2>4, <2>5, ShelfKinds
<1>4. OnceInv
  BY <1>3 DEF OnceInv, Puts
<1>5. WaitsInv
  <2>1. \A g \in Gets : ~Live(g)
    BY DEF Live, Range
  <2>2. \A g \in Gets : ~Replying(g) /\ ~Queried(g)
    <3> TAKE g \in Gets
    <3>1. g[1] \in Client
      BY <1>0, CallFacts DEF BaseInv, TypeInv, Gets
    <3> QED BY <3>1 DEF Replying, Queried
  <2> QED BY <2>1, <2>2 DEF WaitsInv
<1> QED BY <1>4, <1>5

(***************************************************************************)
(* From its call on, the item of a worker's put is in exactly one place:   *)
(* on the link to the actor, in the hands of a put or get_batch task, in a *)
(* queue, in a reply on its way or returned by a get (ChannelWorker.put,   *)
(* get and get_batch, AsyncChannelCommWork).  It is never lost and never   *)
(* handed out twice.                                                       *)
(***************************************************************************)
THEOREM ChannelExactlyOnce ==
    ASSUME SyncGetsFirst, BlockingPuts
    PROVE  Spec => []ExactlyOnce
<1> DEFINE Inv == BaseInv /\ SyncInv /\ WaitsInv /\ OnceInv
<1>1. Init => Inv
  BY BaseInit, OnceInit, SyncInit
<1>2. Inv /\ [Next]_vars => Inv'
  BY BaseNext, SyncNext, WaitsNext, OnceNext
<1>3. Inv => ExactlyOnce
  <2> SUFFICES ASSUME Inv, NEW id \in Puts, InWorker(id), status[id] # "new"
               PROVE  Cardinality(Places(Item(id))) = 1
    BY DEF ExactlyOnce
  <2>1. Once(Stock, Item(id))
    BY DEF OnceInv
  <2> QED BY <2>1, OnePlaceEach
<1> QED BY <1>1, <1>2, <1>3, PTL DEF Spec
=============================================================================
