---------------------------- MODULE MemorySyncProofs ----------------------------
(***************************************************************************)
(* Machine-checked proofs about MemorySync, for any devices, atoms, clock  *)
(* skew and bounds.                                                        *)
(*                                                                         *)
(* The inductive invariant is SyncInv.  An operation only appends events   *)
(* of its own to a log (LocalStep), the shipper and the cloud only pass on *)
(* events that are in logs (Rest), and a merge works on a copy that is     *)
(* sound at each of its steps (CopySound), with all else at rest (Open).   *)
(* That devices converge takes more: see StoryInv, further down.           *)
(***************************************************************************)
EXTENDS MemorySync, WellFoundedInduction, FiniteSetTheorems, TLAPS

----------------------------------------------------------------------------
(* Orders on finite sets.                                                 *)

\* A finite set with a strict total order has a first element: one whose predecessors are
\* the fewest.
LEMMA FirstOf ==
  ASSUME NEW E, IsFiniteSet(E), E # {}, NEW R,
         \A x, y \in E : x = y \/ y \in R[x] \/ x \in R[y],
         \A x \in E : x \notin R[x],
         \A x, y, z \in E : y \in R[x] /\ z \in R[y] => z \in R[x]
  PROVE  \E m \in E : \A x \in E \ {m} : x \in R[m]
  <1> DEFINE below(c) == {d \in E : c \in R[d]}
             T        == {below(c) : c \in E}
             O        == StrictSubsetOrdering(E)
  <1>1. T \subseteq SUBSET E /\ T # {}
    <2>1. \A c \in E : below(c) \subseteq E
      OBVIOUS
    <2> HIDE DEF below
    <2> QED
      BY <2>1
  <1>2. IsWellFoundedOn(O, SUBSET E)
    BY FS_StrictSubsetOrderingWellFounded, FS_FiniteSubsetsOfFinite
  <1>3. PICK m \in E : \A c \in E : <<below(c), below(m)>> \notin O
    <2> HIDE DEF O
    <2>1. \E x \in T : \A y \in T : <<y, x>> \notin O
      <3> HIDE DEF T
      <3> QED
        BY <1>1, <1>2, WFMin
    <2> HIDE DEF below
    <2> QED
      BY <2>1
  <1>4. ASSUME NEW x \in E, m \in R[x] PROVE FALSE
    <2>1. below(x) \subseteq below(m) /\ x \in below(m) /\ x \notin below(x)
      BY <1>4
    <2>2. <<below(x), below(m)>> \in O
      BY <2>1 DEF StrictSubsetOrdering
    <2> QED
      BY <1>3, <2>2
  <1>5. \A x \in E \ {m} : x \in R[m]
    <2> TAKE x \in E \ {m}
    <2>1. x = m \/ m \in R[x] \/ x \in R[m]
      OBVIOUS
    <2> QED
      BY <1>4, <2>1
  <1> QED
    BY <1>5

\* The least and the greatest of a finite set of numbers.
LEMMA Ends ==
  ASSUME NEW S, IsFiniteSet(S), S # {}, \A i \in S : i \in Nat
  PROVE  /\ \E m \in S : \A i \in S : m <= i
         /\ \E m \in S : \A i \in S : i <= m
  <1>0. \A i \in S : i \in Nat
    OBVIOUS
  <1>1. \E m \in S : \A i \in S : m <= i
    <2> DEFINE R == [x \in S |-> {y \in S : x < y}]
    <2>1. \A x, y \in S : y \in R[x] <=> x < y
      OBVIOUS
    <2> HIDE DEF R
    <2>2. \E m \in S : \A x \in S \ {m} : x \in R[m]
      <3>1. ASSUME NEW x \in S, NEW y \in S, NEW z \in S
            PROVE  /\ x = y \/ y \in R[x] \/ x \in R[y]
                   /\ x \notin R[x]
                   /\ y \in R[x] /\ z \in R[y] => z \in R[x]
        <4>1. x \in Nat /\ y \in Nat /\ z \in Nat
          OBVIOUS
        <4>2. x = y \/ x < y \/ y < x
          BY <4>1
        <4> QED
          BY <2>1, <4>1, <4>2
      <3>2. /\ \A x, y \in S : x = y \/ y \in R[x] \/ x \in R[y]
            /\ \A x \in S : x \notin R[x]
            /\ \A x, y, z \in S : y \in R[x] /\ z \in R[y] => z \in R[x]
        BY <3>1
      <3> QED
        BY <3>2, FirstOf
    <2>3. PICK m \in S : \A x \in S \ {m} : x \in R[m]
      BY <2>2
    <2>4. \A i \in S : m <= i
      BY <1>0, <2>1, <2>3
    <2> QED
      BY <2>4
  <1>2. \E m \in S : \A i \in S : i <= m
    <2> DEFINE R == [x \in S |-> {y \in S : x > y}]
    <2>1. \A x, y \in S : y \in R[x] <=> x > y
      OBVIOUS
    <2> HIDE DEF R
    <2>2. \E m \in S : \A x \in S \ {m} : x \in R[m]
      <3>1. ASSUME NEW x \in S, NEW y \in S, NEW z \in S
            PROVE  /\ x = y \/ y \in R[x] \/ x \in R[y]
                   /\ x \notin R[x]
                   /\ y \in R[x] /\ z \in R[y] => z \in R[x]
        <4>1. x \in Nat /\ y \in Nat /\ z \in Nat
          OBVIOUS
        <4>2. x = y \/ x < y \/ y < x
          BY <4>1
        <4> QED
          BY <2>1, <4>1, <4>2
      <3>2. /\ \A x, y \in S : x = y \/ y \in R[x] \/ x \in R[y]
            /\ \A x \in S : x \notin R[x]
            /\ \A x, y, z \in S : y \in R[x] /\ z \in R[y] => z \in R[x]
        BY <3>1
      <3> QED
        BY <3>2, FirstOf
    <2>3. PICK m \in S : \A x \in S \ {m} : x \in R[m]
      BY <2>2
    <2>4. \A i \in S : i <= m
      BY <1>0, <2>1, <2>3
    <2> QED
      BY <2>4
  <1> QED
    BY <1>1, <1>2

\* Sets of places in a sequence are finite.
LEMMA PlacesFinite == ASSUME NEW n \in Nat, NEW P \in SUBSET (1 .. n) PROVE IsFiniteSet(P)
  <1>1. IsFiniteSet(1 .. n)
    BY FS_Interval
  <1> QED
    BY <1>1, FS_Subset

\* Events with different ids have an order of arrival: some set of them has a first and a
\* last one, and an earliest time.
LEMMA EventEnds ==
  ASSUME NEW E \in SUBSET Event, IsFiniteSet(E), E # {}, \A e, f \in E : e.id = f.id => e = f
  PROVE  /\ \E m \in E : \A f \in E \ {m} : Earlier(m, f)
         /\ \E m \in E : \A f \in E \ {m} : Earlier(f, m)
         /\ \E m \in E : \A f \in E : m.at <= f.at
  <1>0. \A e \in E : e.id \in Nat /\ e.at \in Nat
    BY DEF Event
  <1>1. \E m \in E : \A f \in E \ {m} : Earlier(m, f)
    <2> DEFINE R == [x \in E |-> {y \in E : Earlier(x, y)}]
    <2>1. \A x, y \in E : y \in R[x] <=> Earlier(x, y)
      OBVIOUS
    <2> HIDE DEF R
    <2>2. /\ \A x, y \in E : x = y \/ y \in R[x] \/ x \in R[y]
          /\ \A x \in E : x \notin R[x]
          /\ \A x, y, z \in E : y \in R[x] /\ z \in R[y] => z \in R[x]
      BY <1>0, <2>1 DEF Earlier
    <2>3. \E m \in E : \A x \in E \ {m} : x \in R[m]
      BY <2>2, FirstOf
    <2> QED
      BY <2>1, <2>3
  <1>2. \E m \in E : \A f \in E \ {m} : Earlier(f, m)
    <2> DEFINE R == [x \in E |-> {y \in E : Earlier(y, x)}]
    <2>1. \A x, y \in E : y \in R[x] <=> Earlier(y, x)
      OBVIOUS
    <2> HIDE DEF R
    <2>2. /\ \A x, y \in E : x = y \/ y \in R[x] \/ x \in R[y]
          /\ \A x \in E : x \notin R[x]
          /\ \A x, y, z \in E : y \in R[x] /\ z \in R[y] => z \in R[x]
      BY <1>0, <2>1 DEF Earlier
    <2>3. \E m \in E : \A x \in E \ {m} : x \in R[m]
      BY <2>2, FirstOf
    <2> QED
      BY <2>1, <2>3
  <1>3. \E m \in E : \A f \in E : m.at <= f.at
    BY <1>0, <1>1 DEF Earlier
  <1> QED
    BY <1>1, <1>2, <1>3

----------------------------------------------------------------------------
(* Sequences.                                                             *)

\* Picking some elements of a sequence gives each of them one place, in the same order
\* or not: nothing else, and nothing twice.
LEMMA PickedElements ==
  ASSUME NEW T, NEW s \in Seq(T), NEW P \in SUBSET (1 .. Len(s))
  PROVE  /\ Picked(s, P) \in Seq(T)
         /\ P = {} => Picked(s, P) = <<>>
         /\ \E f \in [1 .. Len(Picked(s, P)) -> P] :
              /\ \A n \in 1 .. Len(Picked(s, P)) : Picked(s, P)[n] = s[f[n]]
              /\ \A n, k \in 1 .. Len(Picked(s, P)) : f[n] = f[k] => n = k
              /\ \A i \in P : \E n \in 1 .. Len(Picked(s, P)) : f[n] = i
  <1> DEFINE N       == Cardinality(P)
             upTo(i) == {j \in P : j <= i}
             nth(n)  == CHOOSE i \in P : Cardinality({j \in P : j <= i}) = n
             rank    == [i \in P |-> Cardinality(upTo(i))]
             f       == [n \in 1 .. N |-> nth(n)]
  <1>1. IsFiniteSet(P) /\ N \in Nat /\ \A i \in P : i \in Nat
    <2>1. Len(s) \in Nat
      OBVIOUS
    <2>2. IsFiniteSet(P)
      BY <2>1, PlacesFinite
    <2> QED
      BY <2>2, FS_CardinalityType
  <1>2. ASSUME NEW i \in P
        PROVE  IsFiniteSet(upTo(i)) /\ Cardinality(upTo(i)) \in 1 .. N
    <2>1. upTo(i) \in SUBSET P /\ i \in upTo(i)
      BY <1>1
    <2> HIDE DEF upTo
    <2>2. IsFiniteSet(upTo(i)) /\ Cardinality(upTo(i)) <= N
      BY <1>1, <2>1, FS_Subset
    <2>3. Cardinality(upTo(i)) \in Nat /\ Cardinality(upTo(i)) # 0
      BY <2>1, <2>2, FS_CardinalityType, FS_EmptySet
    <2> QED
      BY <1>1, <2>2, <2>3
  <1>3. ASSUME NEW i \in P, NEW k \in P, Cardinality(upTo(i)) = Cardinality(upTo(k)), i < k
        PROVE  FALSE
    <2>0. i \in Nat /\ k \in Nat
      BY <1>1
    <2>1. upTo(i) \in SUBSET upTo(k) /\ k \in upTo(k) /\ k \notin upTo(i)
      <3>1. \A j \in P : j <= i => j <= k
        BY <1>1, <1>3, <2>0
      <3>2. k <= k /\ ~ (k <= i)
        BY <1>3, <2>0
      <3> QED
        BY <3>1, <3>2
    <2> HIDE DEF upTo
    <2>2. upTo(i) = upTo(k)
      BY <1>2, <1>3, <2>1, FS_Subset
    <2> QED
      BY <2>1, <2>2
  <1>4. rank \in Injection(P, 1 .. N)
    <2>1. rank \in [P -> 1 .. N]
      BY <1>2
    <2>2. ASSUME NEW i \in P, NEW k \in P, rank[i] = rank[k] PROVE i = k
      <3>1. Cardinality(upTo(i)) = Cardinality(upTo(k))
        BY <2>2
      <3> HIDE DEF upTo
      <3>2. i < k \/ k < i \/ i = k
        BY <1>1
      <3> QED
        BY <1>3, <3>1, <3>2
    <2> HIDE DEF rank
    <2> QED
      BY <2>1, <2>2 DEF Injection, IsInjective
  <1>5. rank \in Surjection(P, 1 .. N)
    <2>1. IsFiniteSet(1 .. N) /\ Cardinality(1 .. N) = N
      BY <1>1, FS_Interval
    <2> HIDE DEF rank
    <2> QED
      BY <1>4, <2>1, FS_Injection
  <1>6. ASSUME NEW n \in 1 .. N PROVE nth(n) \in P /\ rank[nth(n)] = n
    <2>1. \E i \in P : rank[i] = n
      <3> HIDE DEF rank
      <3> QED
        BY <1>5 DEF Surjection
    <2>2. \E i \in P : Cardinality({j \in P : j <= i}) = n
      BY <2>1
    <2> QED
      BY <2>2
  <1>7. Picked(s, P) = [n \in 1 .. N |-> s[nth(n)]]
    BY DEF Picked
  <1>8. f \in [1 .. N -> P] /\ \A n \in 1 .. N : f[n] = nth(n)
    <2> HIDE DEF nth, rank
    <2> QED
      BY <1>6
  <1>9. \A i \in P : rank[i] \in 1 .. N /\ nth(rank[i]) = i
    <2> TAKE i \in P
    <2>1. rank[i] \in 1 .. N
      BY <1>2
    <2>2. nth(rank[i]) \in P /\ rank[nth(rank[i])] = rank[i]
      BY <1>6, <2>1
    <2> HIDE DEF rank, nth
    <2> QED
      BY <1>4, <2>1, <2>2 DEF Injection, IsInjective
  <1>10. Picked(s, P) \in Seq(T) /\ Len(Picked(s, P)) = N
    <2>1. \A n \in 1 .. N : nth(n) \in 1 .. Len(s)
      BY <1>6
    <2> HIDE DEF nth
    <2>2. \A n \in 1 .. N : s[nth(n)] \in T
      BY <2>1
    <2> HIDE DEF N
    <2> QED
      BY <1>1, <1>7, <2>2
  <1>11. P = {} => Picked(s, P) = <<>>
    BY <1>7, <1>10, FS_EmptySet
  <1>12. /\ \A n \in 1 .. N : Picked(s, P)[n] = s[f[n]]
         /\ \A n, k \in 1 .. N : f[n] = f[k] => n = k
         /\ \A i \in P : \E n \in 1 .. N : f[n] = i
    <2> HIDE DEF nth, rank, N, f
    <2>1. \A n \in 1 .. N : Picked(s, P)[n] = s[f[n]]
      BY <1>7, <1>8
    <2>2. \A n, k \in 1 .. N : f[n] = f[k] => n = k
      BY <1>6, <1>8
    <2>3. \A i \in P : \E n \in 1 .. N : f[n] = i
      BY <1>8, <1>9
    <2> QED
      BY <2>1, <2>2, <2>3
  <1> HIDE DEF f, N
  <1> QED
    BY SMTT(30), <1>8, <1>10, <1>11, <1>12

\* The places and the elements of a concatenation.
LEMMA CatElements ==
  ASSUME NEW T, NEW s \in Seq(T), NEW t \in Seq(T)
  PROVE  /\ s \o t \in Seq(T) /\ Len(s \o t) = Len(s) + Len(t)
         /\ \A i \in 1 .. Len(s) : i \in 1 .. Len(s \o t) /\ (s \o t)[i] = s[i]
         /\ \A i \in 1 .. Len(t) : Len(s) + i \in 1 .. Len(s \o t) /\ (s \o t)[Len(s) + i] = t[i]
         /\ \A k \in 1 .. Len(s \o t) :
              k \in 1 .. Len(s) \/ \E i \in 1 .. Len(t) : k = Len(s) + i
  <1>1. /\ s \o t \in Seq(T) /\ Len(s \o t) = Len(s) + Len(t)
        /\ Len(s) \in Nat /\ Len(t) \in Nat
    OBVIOUS
  <1>2. \A i \in 1 .. Len(s) : i \in 1 .. Len(s \o t) /\ (s \o t)[i] = s[i]
    OBVIOUS
  <1>3. \A i \in 1 .. Len(t) : Len(s) + i \in 1 .. Len(s \o t) /\ (s \o t)[Len(s) + i] = t[i]
    OBVIOUS
  <1>4. ASSUME NEW k \in 1 .. Len(s \o t), k \notin 1 .. Len(s)
        PROVE  \E i \in 1 .. Len(t) : k = Len(s) + i
    <2>1. k - Len(s) \in 1 .. Len(t) /\ k = Len(s) + (k - Len(s))
      BY <1>1, <1>4
    <2> QED
      BY <2>1
  <1> QED
    BY <1>1, <1>2, <1>3, <1>4

\* What a log says after more was appended.
LEMMA CatSets ==
  ASSUME NEW s \in Seq(Event), NEW t \in Seq(Event)
  PROVE  /\ IdsOf(s \o t) = IdsOf(s) \cup IdsOf(t)
         /\ \A a : EventsOf(s \o t, a) = EventsOf(s, a) \cup EventsOf(t, a)
         /\ \A a : Erased(s \o t, a) <=> Erased(s, a) \/ Erased(t, a)
  <1> DEFINE u == s \o t
  <1>1. /\ \A i \in 1 .. Len(s) : i \in 1 .. Len(u) /\ u[i] = s[i]
        /\ \A i \in 1 .. Len(t) : Len(s) + i \in 1 .. Len(u) /\ u[Len(s) + i] = t[i]
        /\ \A k \in 1 .. Len(u) : k \in 1 .. Len(s) \/ \E i \in 1 .. Len(t) : k = Len(s) + i
    BY CatElements
  <1> HIDE DEF u
  <1>2. \A k \in 1 .. Len(u) : \/ k \in 1 .. Len(s) /\ u[k] = s[k]
                               \/ \E i \in 1 .. Len(t) : u[k] = t[i]
    BY <1>1
  <1>3. \A i \in 1 .. Len(s) : \E k \in 1 .. Len(u) : u[k] = s[i]
    BY <1>1
  <1>4. \A i \in 1 .. Len(t) : \E k \in 1 .. Len(u) : u[k] = t[i]
    BY <1>1
  <1>5. IdsOf(u) = IdsOf(s) \cup IdsOf(t)
    <2>1. ASSUME NEW x \in IdsOf(u) PROVE x \in IdsOf(s) \cup IdsOf(t)
      <3>1. PICK k \in 1 .. Len(u) : x = u[k].id
        BY DEF IdsOf
      <3> QED
        BY <1>2, <3>1 DEF IdsOf
    <2>2. ASSUME NEW x \in IdsOf(s) PROVE x \in IdsOf(u)
      <3>1. PICK k \in 1 .. Len(s) : x = s[k].id
        BY DEF IdsOf
      <3> QED
        BY <1>3, <3>1 DEF IdsOf
    <2>3. ASSUME NEW x \in IdsOf(t) PROVE x \in IdsOf(u)
      <3>1. PICK k \in 1 .. Len(t) : x = t[k].id
        BY DEF IdsOf
      <3> QED
        BY <1>4, <3>1 DEF IdsOf
    <2> QED
      BY <2>1, <2>2, <2>3
  <1>6. ASSUME NEW a PROVE EventsOf(u, a) = EventsOf(s, a) \cup EventsOf(t, a)
    <2>1. ASSUME NEW x \in EventsOf(u, a) PROVE x \in EventsOf(s, a) \cup EventsOf(t, a)
      <3>1. PICK k \in 1 .. Len(u) : x = u[k] /\ u[k].atom = a
        BY DEF EventsOf
      <3> QED
        BY <1>2, <3>1 DEF EventsOf
    <2>2. ASSUME NEW x \in EventsOf(s, a) PROVE x \in EventsOf(u, a)
      <3>1. PICK k \in 1 .. Len(s) : x = s[k] /\ s[k].atom = a
        BY DEF EventsOf
      <3> QED
        BY <1>3, <3>1 DEF EventsOf
    <2>3. ASSUME NEW x \in EventsOf(t, a) PROVE x \in EventsOf(u, a)
      <3>1. PICK k \in 1 .. Len(t) : x = t[k] /\ t[k].atom = a
        BY DEF EventsOf
      <3> QED
        BY <1>4, <3>1 DEF EventsOf
    <2> QED
      BY <2>1, <2>2, <2>3
  <1>7. ASSUME NEW a PROVE Erased(u, a) <=> Erased(s, a) \/ Erased(t, a)
    <2>1. Erased(u, a) => Erased(s, a) \/ Erased(t, a)
      BY <1>2 DEF Erased
    <2>2. Erased(s, a) => Erased(u, a)
      BY <1>3 DEF Erased
    <2>3. Erased(t, a) => Erased(u, a)
      BY <1>4 DEF Erased
    <2> QED
      BY <2>1, <2>2, <2>3
  <1> QED
    BY <1>5, <1>6, <1>7 DEF u

\* Histories whose events have different ids make a history.
LEMMA CatHistory ==
  ASSUME NEW n \in Nat, NEW k \in Nat, n <= k, NEW s, NEW t, History(s, n), History(t, k),
         IdsOf(s) \cap IdsOf(t) = {}
  PROVE  History(s \o t, k)
  <1> DEFINE u == s \o t
  <1>1. s \in Seq(Event) /\ t \in Seq(Event)
    BY DEF History
  <1>2. /\ u \in Seq(Event)
        /\ \A i \in 1 .. Len(s) : i \in 1 .. Len(u) /\ u[i] = s[i]
        /\ \A i \in 1 .. Len(t) : Len(s) + i \in 1 .. Len(u) /\ u[Len(s) + i] = t[i]
        /\ \A j \in 1 .. Len(u) : j \in 1 .. Len(s) \/ \E i \in 1 .. Len(t) : j = Len(s) + i
    BY <1>1, CatElements
  <1> HIDE DEF u
  <1>3. ASSUME NEW i \in 1 .. Len(u)
        PROVE  /\ u[i].id \in 1 .. k /\ u[i].at # 0
               /\ u[i].type = "supersede" => u[i].to \in Atoms
    <2>1. CASE i \in 1 .. Len(s)
      <3>1. s[i].id \in 1 .. n /\ s[i].at # 0 /\ (s[i].type = "supersede" => s[i].to \in Atoms)
        BY <2>1 DEF History
      <3> QED
        BY <1>2, <2>1, <3>1
    <2>2. CASE \E j \in 1 .. Len(t) : i = Len(s) + j
      BY ZenonT(60), <1>2, <2>2 DEF History
    <2> QED
      BY <1>2, <2>1, <2>2
  <1>4. ASSUME NEW i \in 1 .. Len(u), NEW j \in 1 .. Len(u), u[i].id = u[j].id
        PROVE  i = j
    <2>1. \A x \in 1 .. Len(s), y \in 1 .. Len(t) : s[x].id # t[y].id
      BY DEF IdsOf
    <2>2. /\ \A x, y \in 1 .. Len(s) : s[x].id = s[y].id => x = y
          /\ \A x, y \in 1 .. Len(t) : t[x].id = t[y].id => x = y
      BY DEF History
    <2>3. \A y \in 1 .. Len(u) : \/ y \in 1 .. Len(s) /\ u[y] = s[y]
                                 \/ \E x \in 1 .. Len(t) : y = Len(s) + x /\ u[y] = t[x]
      BY <1>2
    <2>4. CASE i \in 1 .. Len(s) /\ u[i] = s[i]
      <3>1. CASE j \in 1 .. Len(s) /\ u[j] = s[j]
        BY <1>4, <2>2, <2>4, <3>1
      <3>2. ASSUME NEW y \in 1 .. Len(t), u[j] = t[y] PROVE FALSE
        BY <1>4, <2>1, <2>4, <3>2
      <3> QED
        BY <2>3, <3>1, <3>2
    <2>5. ASSUME NEW x \in 1 .. Len(t), i = Len(s) + x, u[i] = t[x] PROVE i = j
      <3>1. CASE j \in 1 .. Len(s) /\ u[j] = s[j]
        BY <1>4, <2>1, <2>5, <3>1
      <3>2. ASSUME NEW y \in 1 .. Len(t), j = Len(s) + y, u[j] = t[y] PROVE i = j
        <4>1. x = y
          BY <1>4, <2>2, <2>5, <3>2
        <4> QED
          BY <2>5, <3>2, <4>1
      <3> QED
        BY <2>3, <3>1, <3>2
    <2> QED
      BY <2>3, <2>4, <2>5
  <1>5. History(u, k)
    BY <1>2, <1>3, <1>4 DEF History
  <1> QED
    BY <1>5 DEF u

\* Where the last change of an atom stands in a log.
LEMMA LastChangePlace ==
  ASSUME NEW s \in Seq(Event), NEW a,
         \E i \in 1 .. Len(s) : s[i].atom = a /\ s[i].type \in Changes
  PROVE  \E m \in 1 .. Len(s) :
           /\ s[m].atom = a /\ s[m].type \in Changes /\ LastChange(s, a) = s[m].type
           /\ \A i \in 1 .. Len(s) : s[i].atom = a /\ s[i].type \in Changes => i <= m
  <1> DEFINE at == {i \in 1 .. Len(s) : s[i].atom = a /\ s[i].type \in Changes}
             m  == CHOOSE i \in at : \A j \in at : j <= i
  <1>1. at \in SUBSET (1 .. Len(s)) /\ at # {} /\ \A i \in at : i \in Nat
    OBVIOUS
  <1>2. IsFiniteSet(at)
    <2>1. Len(s) \in Nat
      OBVIOUS
    <2> HIDE DEF at
    <2> QED
      BY <1>1, <2>1, PlacesFinite
  <1>3. \E i \in at : \A j \in at : j <= i
    <2> HIDE DEF at
    <2> QED
      BY <1>1, <1>2, Ends
  <1>4. m \in at /\ \A j \in at : j <= m
    BY <1>3
  <1>5. LastChange(s, a) = s[m].type
    BY <1>1 DEF LastChange
  <1> HIDE DEF m
  <1> QED
    BY <1>4, <1>5

\* A log that is longer, by nothing that hides or shows the atom, has the same last change.
LEMMA LastChangeKept ==
  ASSUME NEW s \in Seq(Event), NEW u \in Seq(Event), NEW a,
         \A i \in 1 .. Len(s) : i \in 1 .. Len(u) /\ u[i] = s[i],
         \A k \in 1 .. Len(u) : \/ k \in 1 .. Len(s)
                                \/ ~ (u[k].atom = a /\ u[k].type \in Changes)
  PROVE  LastChange(u, a) = LastChange(s, a)
  <1> DEFINE at(v) == {i \in 1 .. Len(v) : v[i].atom = a /\ v[i].type \in Changes}
  <1>1. at(u) = at(s)
    <2>1. \A i \in at(u) : i \in at(s)
      OBVIOUS
    <2>2. \A i \in at(s) : i \in at(u)
      OBVIOUS
    <2> HIDE DEF at
    <2> QED
      BY <2>1, <2>2
  <1>2. CASE at(s) = {}
    BY <1>1, <1>2 DEF LastChange
  <1>3. CASE at(s) # {}
    <2>0. \E i \in 1 .. Len(s) : s[i].atom = a /\ s[i].type \in Changes
      BY <1>3
    <2> HIDE DEF at
    <2>1. PICK m \in 1 .. Len(s) :
            /\ s[m].atom = a /\ s[m].type \in Changes /\ LastChange(s, a) = s[m].type
            /\ \A i \in 1 .. Len(s) : s[i].atom = a /\ s[i].type \in Changes => i <= m
      BY <2>0, LastChangePlace
    <2>2. \E i \in 1 .. Len(u) : u[i].atom = a /\ u[i].type \in Changes
      BY <2>1
    <2>3. PICK n \in 1 .. Len(u) :
            /\ u[n].atom = a /\ u[n].type \in Changes /\ LastChange(u, a) = u[n].type
            /\ \A i \in 1 .. Len(u) : u[i].atom = a /\ u[i].type \in Changes => i <= n
      BY SMTT(30), <2>2, LastChangePlace
    <2>4. n \in 1 .. Len(s) /\ s[n] = u[n] /\ m \in 1 .. Len(u) /\ u[m] = s[m]
      BY <2>1, <2>3
    <2>5. s[n].atom = a /\ s[n].type \in Changes /\ u[m].atom = a /\ u[m].type \in Changes
      BY <2>1, <2>3, <2>4
    <2>6. n = m
      <3>1. n <= m /\ m <= n
        BY <2>1, <2>3, <2>4, <2>5
      <3> QED
        BY <3>1
    <2> QED
      BY <2>1, <2>3, <2>4, <2>6
  <1> QED
    BY <1>2, <1>3

\* When what was added changes the atom in one way, that is its last change.
LEMMA LastChangeMade ==
  ASSUME NEW u \in Seq(Event), NEW s \in Seq(Event), NEW a, NEW y,
         \E k \in 1 .. Len(u) : k > Len(s) /\ u[k].atom = a /\ u[k].type \in Changes,
         \A k \in 1 .. Len(u) :
           k > Len(s) /\ u[k].atom = a /\ u[k].type \in Changes => u[k].type = y
  PROVE  LastChange(u, a) = y
  <1>1. PICK m \in 1 .. Len(u) :
          /\ u[m].atom = a /\ u[m].type \in Changes /\ LastChange(u, a) = u[m].type
          /\ \A i \in 1 .. Len(u) : u[i].atom = a /\ u[i].type \in Changes => i <= m
    BY LastChangePlace
  <1>2. m > Len(s)
    <2>1. Len(s) \in Nat
      OBVIOUS
    <2> QED
      BY <1>1, <2>1
  <1> QED
    BY <1>1, <1>2

\* The events a log has of an atom are finitely many, each with an id of its own.
LEMMA EventsFinite ==
  ASSUME NEW n, NEW s, History(s, n), NEW E, \A e \in E : \E k \in 1 .. Len(s) : s[k] = e
  PROVE  IsFiniteSet(E) /\ E \subseteq Event /\ \A e, f \in E : e.id = f.id => e = f
  <1>1. s \in Seq(Event) /\ Len(s) \in Nat
    BY DEF History
  <1> DEFINE places == {k \in 1 .. Len(s) : s[k] \in E}
             f      == [k \in places |-> s[k]]
  <1>2. f \in Surjection(places, E)
    BY DEF Surjection
  <1>3. IsFiniteSet(places)
    <2>1. places \in SUBSET (1 .. Len(s))
      OBVIOUS
    <2> HIDE DEF places
    <2> QED
      BY <1>1, <2>1, PlacesFinite
  <1>4. IsFiniteSet(E)
    <2> HIDE DEF f, places
    <2> QED
      BY <1>2, <1>3, FS_Surjection
  <1>5. E \subseteq Event
    BY <1>1
  <1>6. \A e, g \in E : e.id = g.id => e = g
    BY DEF History
  <1> QED
    BY <1>4, <1>5, <1>6

\* An event is of an atom when it stands in the log with that atom.
LEMMA InEventsOf ==
  \A s, a, e : e \in EventsOf(s, a) <=> \E k \in 1 .. Len(s) : s[k] = e /\ e.atom = a
  BY DEF EventsOf

\* A history stays one when more ids are given out.
LEMMA HistoryMono ==
  ASSUME NEW n \in Nat, NEW k \in Nat, n <= k, NEW s, History(s, n)
  PROVE  History(s, k)
  <1>1. \A i \in 1 .. Len(s) : s[i].id \in 1 .. k
    BY DEF History
  <1> QED
    BY <1>1 DEF History

----------------------------------------------------------------------------
(* Lifecycle operations.                                                  *)

\* What the rows are made of.
LEMMA Types ==
  ASSUME TypeOK, NEW d \in Devices
  PROVE  /\ row[d] \in Table /\ log[d] \in Seq(Event) /\ Len(log[d]) \in Nat
         /\ \A a \in Atoms : row[d][a] # NoRow =>
              /\ row[d][a].scope \in Scopes /\ row[d][a].from \in Nat /\ row[d][a].to \in Nat
              /\ row[d][a].by \in Atoms \cup {NoAtom} /\ row[d][a].archived \in {"yes", "no"}
              /\ row[d][a].batch \in 0 .. MaxBatches
         /\ ids \in Nat /\ spent \in Nat /\ Now(d) \in Nat \ {0} /\ ids + Skew[d] \in Nat
         /\ NoAtom \notin Atoms /\ MaxBatches \in Nat
  <1>1. row[d] \in Table /\ log[d] \in Seq(Event) /\ ids \in Nat /\ spent \in Nat
    BY DEF TypeOK
  <1>2. \A a \in Atoms : row[d][a] # NoRow => row[d][a] \in Row
    BY <1>1 DEF Table
  <1>3. Skew[d] \in Nat /\ NoAtom \notin Atoms /\ MaxBatches \in Nat
    BY MemorySyncAssumption
  <1>4. Now(d) \in Nat \ {0} /\ ids + Skew[d] \in Nat
    BY <1>1, <1>3 DEF Now
  <1> QED
    BY SMTT(30), <1>1, <1>2, <1>3, <1>4 DEF Row

\* A row with all its columns is no absent row.
LEMMA RowIsThere == NoRow \notin Row
  <1>1. \A r \in Row : r.scope \in Scopes
    BY DEF Row
  <1>2. NoRow.scope \notin Scopes
    BY DEF NoRow, Scopes
  <1> QED
    BY <1>1, <1>2

\* The events an operation of a device may write: with the next ids, the time of the
\* device, and the user as their cause.
Written(d, es) ==
  /\ es \in Seq(Event)
  /\ \A i \in 1 .. Len(es) : /\ es[i].id = ids + i /\ es[i].why = "user" /\ es[i].at = Now(d)
                             /\ es[i].type = "supersede" => es[i].to \in Atoms

Silent(es, a) == \A i \in 1 .. Len(es) : ~ (es[i].atom = a /\ es[i].type \in Changes)
Tells(es, a, y) ==
  /\ \E i \in 1 .. Len(es) : es[i].atom = a /\ es[i].type \in Changes
  /\ \A i \in 1 .. Len(es) : es[i].atom = a /\ es[i].type \in Changes => es[i].type = y

Undone == {<<"archive", "restore">>, <<"supersede", "unsupersede">>, <<"purge", "unpurge">>}

\* What an operation that writes es may do to the row of an atom.  A row of the device's
\* own atom stays as it was, with nothing said of it, or is shown, or hidden.
RowStep(d, es, a) ==
  LET o == row[d][a]
      n == row'[d][a]
  IN
  /\ Erased(es, a) => n = NoRow
  /\ o = NoRow /\ n # NoRow => ~ Erased(log[d], a)
  /\ o # NoRow /\ n = NoRow => Erased(es, a)
  /\ o # NoRow /\ n # NoRow => n.from \in {o.from, Now(d)}
  /\ n # NoRow /\ Own(d, a) =>
       \/ /\ o # NoRow /\ n.to = o.to /\ n.by = o.by /\ n.archived = o.archived
          /\ n.batch = o.batch /\ Silent(es, a)
       \/ /\ n.to = 0 /\ n.by = NoAtom /\ n.archived = "no" /\ n.batch = 0
          /\ o # NoRow /\ o.to # 0 =>
               \E p \in Undone : LastChange(log[d], a) = p[1] /\ Tells(es, a, p[2])
       \/ /\ o # NoRow /\ o.to = 0 /\ n.to = Now(d) /\ Len(es) > 0
          /\ n.archived = "yes" => Tells(es, a, "archive")
          /\ n.batch # 0 => Tells(es, a, "purge")
          /\ n.by # NoAtom => /\ Tells(es, a, "supersede")
                              /\ row'[d][n.by] # NoRow /\ row'[d][n.by].from = Now(d)

LocalStep(d, es) ==
  /\ merge = NoMerge /\ Written(d, es)
  /\ log' = [log EXCEPT ![d] = @ \o es] /\ ids' = ids + Len(es)
  /\ UNCHANGED <<synced, rejected, watermark, flight, cloud, refused, merge>>
  /\ row' \in [Devices -> Table] /\ \A c \in Devices \ {d} : row'[c] = row[c]
  /\ batches' \in [Devices -> [1 .. MaxBatches -> Status]] /\ spent' \in Nat
  /\ \A a \in Atoms : RowStep(d, es, a)

\* The logs after an operation.
LEMMA LocalLogs ==
  ASSUME TypeOK, HistoriesSound, NEW d \in Devices, NEW es, LocalStep(d, es)
  PROVE  /\ log' \in [Devices -> Seq(Event)] /\ ids' \in Nat /\ ids <= ids'
         /\ log'[d] = log[d] \o es /\ \A c \in Devices \ {d} : log'[c] = log[c]
         /\ es \in Seq(Event) /\ History(es, ids') /\ IdsOf(es) \cap IdsOf(log[d]) = {}
         /\ \A c \in Devices : IdsOf(log[c]) \subseteq IdsOf(log'[c])
         /\ \A c \in Devices, a \in Atoms : Own(c, a)' => Own(c, a)
  <1>1. /\ log[d] \in Seq(Event) /\ es \in Seq(Event) /\ Len(es) \in Nat /\ ids \in Nat
        /\ log \in [Devices -> Seq(Event)] /\ Now(d) # 0 /\ Now(d) \in Nat
    BY Types DEF TypeOK, LocalStep, Written
  <1>2. log'[d] = log[d] \o es /\ \A c \in Devices \ {d} : log'[c] = log[c]
    BY <1>1 DEF LocalStep
  <1>3. log[d] \o es \in Seq(Event)
    BY <1>1
  <1>4. log' \in [Devices -> Seq(Event)] /\ ids' \in Nat /\ ids <= ids'
    BY <1>1, <1>3 DEF LocalStep
  <1>5. \A i \in 1 .. Len(es) : es[i].id = ids + i
    BY DEF LocalStep, Written
  <1>6. History(es, ids')
    <2>1. ASSUME NEW i \in 1 .. Len(es)
          PROVE  /\ es[i].id \in 1 .. ids' /\ es[i].at # 0
                 /\ es[i].type = "supersede" => es[i].to \in Atoms
      BY <1>1 DEF LocalStep, Written
    <2>2. \A i, k \in 1 .. Len(es) : es[i].id = es[k].id => i = k
      BY <1>1, <1>5
    <2> QED
      BY <1>1, <2>1, <2>2 DEF History
  <1>7. IdsOf(es) \cap IdsOf(log[d]) = {}
    <2>1. \A i \in 1 .. Len(log[d]) : log[d][i].id \in 1 .. ids
      BY DEF HistoriesSound, History
    <2>2. ASSUME NEW x \in IdsOf(es), x \in IdsOf(log[d]) PROVE FALSE
      <3>1. PICK i \in 1 .. Len(es) : x = es[i].id
        BY DEF IdsOf
      <3>2. PICK k \in 1 .. Len(log[d]) : x = log[d][k].id
        BY <2>2 DEF IdsOf
      <3>3. x \in 1 .. ids /\ x = ids + i
        BY <1>5, <2>1, <3>1, <3>2
      <3> QED
        BY <1>1, <3>3
    <2> QED
      BY <2>2
  <1>8. /\ IdsOf(log'[d]) = IdsOf(log[d]) \cup IdsOf(es)
        /\ \A a : EventsOf(log'[d], a) = EventsOf(log[d], a) \cup EventsOf(es, a)
    BY <1>1, <1>2, CatSets
  <1>9. \A c \in Devices : IdsOf(log[c]) \subseteq IdsOf(log'[c])
    BY <1>2, <1>8
  <1>10. ASSUME NEW c \in Devices, NEW a \in Atoms, Own(c, a)' PROVE Own(c, a)
    <2>1. EventsOf(log[c], a) \subseteq EventsOf(log'[c], a)
      BY <1>2, <1>8
    <2> QED
      BY <1>9, <1>10, <2>1 DEF Own, OwnIn
  <1> QED
    BY <1>1, <1>2, <1>4, <1>6, <1>7, <1>9, <1>10

\* The histories after an operation.
LEMMA LocalHistories ==
  ASSUME TypeOK, HistoriesSound, NEW d \in Devices, NEW es, LocalStep(d, es)
  PROVE  HistoriesSound'
  <1>1. /\ log' \in [Devices -> Seq(Event)] /\ ids \in Nat /\ ids' \in Nat /\ ids <= ids'
        /\ log'[d] = log[d] \o es /\ \A c \in Devices \ {d} : log'[c] = log[c]
        /\ History(es, ids') /\ IdsOf(es) \cap IdsOf(log[d]) = {}
        /\ \A c \in Devices : IdsOf(log[c]) \subseteq IdsOf(log'[c])
    BY LocalLogs DEF TypeOK
  <1>2. flight' = flight /\ cloud' = cloud
    BY DEF LocalStep
  <1>3. \A c \in Devices : History(log'[c], ids')
    <2> TAKE c \in Devices
    <2>1. History(log[c], ids)
      BY DEF HistoriesSound
    <2>2. CASE c = d
      <3>1. History(log[d], ids) /\ IdsOf(log[d]) \cap IdsOf(es) = {}
        BY <1>1, <2>1, <2>2
      <3>2. History(log[d] \o es, ids')
        BY <1>1, <3>1, CatHistory
      <3> QED
        BY <1>1, <2>2, <3>2
    <2>3. CASE c # d
      BY <1>1, <2>1, <2>3, HistoryMono
    <2> QED
      BY <2>2, <2>3
  <1>4. \A c \in Devices : History(flight'[c], ids') /\ IdsOf(flight'[c]) \subseteq IdsOf(log'[c])
    <2> TAKE c \in Devices
    <2>1. History(flight[c], ids) /\ IdsOf(flight[c]) \subseteq IdsOf(log[c])
      BY DEF HistoriesSound
    <2> QED
      BY <1>1, <1>2, <2>1, HistoryMono
  <1>5. History(cloud', ids')
    BY <1>1, <1>2, HistoryMono DEF HistoriesSound
  <1>6. \A i \in 1 .. Len(cloud') : \E c \in Devices : cloud'[i].id \in IdsOf(log'[c])
    BY <1>1, <1>2 DEF HistoriesSound
  <1> QED
    BY <1>3, <1>4, <1>5, <1>6 DEF HistoriesSound

\* The last change of an atom after an operation.
LEMMA LocalChanges ==
  ASSUME TypeOK, HistoriesSound, NEW d \in Devices, NEW es, LocalStep(d, es), NEW a \in Atoms
  PROVE  /\ Silent(es, a) => LastChange(log'[d], a) = LastChange(log[d], a)
         /\ \A y : Tells(es, a, y) => LastChange(log'[d], a) = y
         /\ Erased(log'[d], a) <=> Erased(log[d], a) \/ Erased(es, a)
  <1> DEFINE s == log[d]
             u == log'[d]
  <1>1. s \in Seq(Event) /\ es \in Seq(Event) /\ u = s \o es /\ Len(s) \in Nat
    BY LocalLogs DEF TypeOK
  <1> HIDE DEF s, u
  <1>2. /\ u \in Seq(Event)
        /\ \A i \in 1 .. Len(s) : i \in 1 .. Len(u) /\ u[i] = s[i]
        /\ \A i \in 1 .. Len(es) : Len(s) + i \in 1 .. Len(u) /\ u[Len(s) + i] = es[i]
        /\ \A k \in 1 .. Len(u) :
             k \in 1 .. Len(s) \/ \E i \in 1 .. Len(es) : k = Len(s) + i
    BY SMTT(30), <1>1, CatElements
  <1>3. Erased(u, a) <=> Erased(s, a) \/ Erased(es, a)
    BY <1>1, CatSets
  <1>4. ASSUME Silent(es, a) PROVE LastChange(u, a) = LastChange(s, a)
    <2>1. \A k \in 1 .. Len(u) : \/ k \in 1 .. Len(s)
                                 \/ ~ (u[k].atom = a /\ u[k].type \in Changes)
      BY ZenonT(60), <1>2, <1>4 DEF Silent
    <2> QED
      BY ZenonT(60), <1>1, <1>2, <2>1, LastChangeKept
  <1>5. ASSUME NEW y, Tells(es, a, y) PROVE LastChange(u, a) = y
    <2>1. \E k \in 1 .. Len(u) : k > Len(s) /\ u[k].atom = a /\ u[k].type \in Changes
      <3>1. PICK i \in 1 .. Len(es) : es[i].atom = a /\ es[i].type \in Changes
        BY <1>5 DEF Tells
      <3>2. Len(s) + i \in 1 .. Len(u) /\ u[Len(s) + i] = es[i] /\ Len(s) + i > Len(s)
        BY SMTT(30), <1>1, <1>2
      <3> QED
        BY <3>1, <3>2
    <2>2. \A k \in 1 .. Len(u) :
            k > Len(s) /\ u[k].atom = a /\ u[k].type \in Changes => u[k].type = y
      <3> SUFFICES ASSUME NEW k \in 1 .. Len(u), k > Len(s),
                          u[k].atom = a /\ u[k].type \in Changes
                   PROVE  u[k].type = y
        OBVIOUS
      <3>1. PICK i \in 1 .. Len(es) : k = Len(s) + i
        BY <1>1, <1>2
      <3>2. u[k] = es[i]
        BY <1>2, <3>1
      <3> QED
        BY <1>5, <3>2 DEF Tells
    <2>3. u \in Seq(Event) /\ s \in Seq(Event)
      BY <1>1, <1>2
    <2> QED
      BY <2>1, <2>2, <2>3, LastChangeMade
  <1> QED
    BY <1>3, <1>4, <1>5 DEF s, u

\* The rows of a device that an operation was not made on.
LEMMA OtherRows ==
  ASSUME TypeOK, RowsSound, NEW c \in Devices, row'[c] = row[c], log'[c] = log[c],
         ids' \in Nat, ids <= ids', \A a \in Atoms : Own(c, a)' => Own(c, a)
  PROVE  \A a \in Atoms : row'[c][a] # NoRow /\ Own(c, a)' => OwnRow(c, a)'
  <1> SUFFICES ASSUME NEW a \in Atoms, row'[c][a] # NoRow, Own(c, a)'
               PROVE  OwnRow(c, a)'
    OBVIOUS
  <1>1. OwnRow(c, a)
    BY DEF RowsSound
  <1>2. row[c][a].to \in Nat /\ ids \in Nat /\ Skew[c] \in Nat
    BY Types, MemorySyncAssumption
  <1>3. row[c][a].to <= ids' + Skew[c]
    BY <1>1, <1>2 DEF OwnRow
  <1> QED
    BY <1>1, <1>3 DEF OwnRow

\* The rows of the device an operation is made on.
LEMMA LocalRows ==
  ASSUME SyncInv, NEW d \in Devices, NEW es, LocalStep(d, es)
  PROVE  \A a \in Atoms : row'[d][a] # NoRow /\ Own(d, a)' => OwnRow(d, a)'
  <1> SUFFICES ASSUME NEW a \in Atoms, row'[d][a] # NoRow, Own(d, a)'
               PROVE  OwnRow(d, a)'
    OBVIOUS
  <1> DEFINE o == row[d][a]
             n == row'[d][a]
  <1>0. TypeOK /\ HistoriesSound /\ RowsSound
    BY DEF SyncInv
  <1>1. Own(d, a)
    BY <1>0, LocalLogs
  <1>2. \A b \in Atoms : RowStep(d, es, b)
    BY DEF LocalStep
  <1>3. ids \in Nat /\ ids' \in Nat /\ ids <= ids' /\ Skew[d] \in Nat /\ Now(d) = ids + 1 + Skew[d]
    BY <1>0, LocalLogs, Types, MemorySyncAssumption DEF Now
  <1>4. \A b \in Atoms : row'[d][b] # NoRow =>
          row'[d][b].to \in Nat /\ row'[d][b].from \in Nat /\ row'[d][b].by \in Atoms \cup {NoAtom}
    BY DEF LocalStep, Table, Row
  <1>5. /\ Silent(es, a) => LastChange(log'[d], a) = LastChange(log[d], a)
        /\ \A y : Tells(es, a, y) => LastChange(log'[d], a) = y
        /\ \A b \in Atoms : Erased(log'[d], b) <=> Erased(log[d], b) \/ Erased(es, b)
    BY <1>0, LocalChanges
  <1>6. CASE /\ o # NoRow /\ n.to = o.to /\ n.by = o.by /\ n.archived = o.archived
             /\ n.batch = o.batch /\ Silent(es, a)
    <2>1. OwnRow(d, a)
      BY <1>0, <1>1, <1>6 DEF RowsSound
    <2>2. o.to \in Nat /\ o.to <= ids + Skew[d]
      BY <1>0, <1>6, <2>1, Types DEF OwnRow
    <2>3. n.to <= ids' + Skew[d]
      BY <1>3, <1>6, <2>2
    <2>4. n.by # NoAtom => IF row'[d][n.by] = NoRow THEN Erased(log'[d], n.by)
                                                    ELSE n.to <= row'[d][n.by].from
      <3> SUFFICES ASSUME n.by # NoAtom
                   PROVE  IF row'[d][n.by] = NoRow THEN Erased(log'[d], n.by)
                                                   ELSE n.to <= row'[d][n.by].from
        OBVIOUS
      <3> DEFINE b == n.by
      <3>1. b \in Atoms /\ b = o.by /\ b = n.by /\ RowStep(d, es, b)
        BY <1>2, <1>4, <1>6
      <3>2. IF row[d][b] = NoRow THEN Erased(log[d], b) ELSE o.to <= row[d][b].from
        BY <2>1, <3>1 DEF OwnRow
      <3> HIDE DEF b
      <3>3. CASE row[d][b] = NoRow
        BY <1>5, <3>1, <3>2, <3>3 DEF RowStep
      <3>4. CASE row[d][b] # NoRow /\ row'[d][b] = NoRow
        BY <1>5, <3>1, <3>4 DEF RowStep
      <3>5. CASE row[d][b] # NoRow /\ row'[d][b] # NoRow
        <4>1. row'[d][b].from \in {row[d][b].from, Now(d)}
          BY <3>1, <3>5 DEF RowStep
        <4>2. o.to <= row[d][b].from /\ o.to <= Now(d)
          BY <1>3, <2>2, <3>2, <3>5
        <4> QED
          BY <1>6, <3>1, <3>5, <4>1, <4>2
      <3> QED
        BY <3>3, <3>4, <3>5 DEF b
    <2> QED
      BY <1>5, <1>6, <2>1, <2>3, <2>4 DEF OwnRow
  <1>7. CASE n.to = 0 /\ n.by = NoAtom /\ n.archived = "no" /\ n.batch = 0
    BY <1>3, <1>7 DEF OwnRow
  <1>8. CASE /\ o # NoRow /\ o.to = 0 /\ n.to = Now(d) /\ Len(es) > 0
             /\ n.archived = "yes" => Tells(es, a, "archive")
             /\ n.batch # 0 => Tells(es, a, "purge")
             /\ n.by # NoAtom => /\ Tells(es, a, "supersede")
                                 /\ row'[d][n.by] # NoRow /\ row'[d][n.by].from = Now(d)
    <2>1. Len(es) \in Nat /\ ids' = ids + Len(es)
      BY <1>8 DEF LocalStep, Written
    <2>2. n.to # 0 /\ n.to <= Now(d)
      BY <1>3, <1>8
    <2>3. n.to <= ids' + Skew[d]
      BY <1>3, <1>8, <2>1
    <2> QED
      BY <1>5, <1>8, <2>2, <2>3 DEF OwnRow
  <1> QED
    BY <1>1, <1>2, <1>6, <1>7, <1>8 DEF RowStep

\* An operation keeps the invariant.
LEMMA LocalKeeps ==
  ASSUME SyncInv, NEW d \in Devices, NEW es, LocalStep(d, es)
  PROVE  SyncInv'
  <1>0. /\ TypeOK /\ HistoriesSound /\ RowsSound /\ ErasureWins /\ NoGap /\ SyncedMeansStored
        /\ EnvelopesAreShared
    BY DEF SyncInv
  <1>1. /\ log' \in [Devices -> Seq(Event)] /\ ids' \in Nat /\ ids <= ids'
        /\ \A c \in Devices \ {d} : log'[c] = log[c]
        /\ \A c \in Devices : IdsOf(log[c]) \subseteq IdsOf(log'[c])
        /\ \A c \in Devices, a \in Atoms : Own(c, a)' => Own(c, a)
    BY <1>0, LocalLogs
  <1>2. /\ merge' = NoMerge /\ \A c \in Devices \ {d} : row'[c] = row[c]
        /\ watermark' = watermark /\ cloud' = cloud /\ synced' = synced /\ flight' = flight
    BY DEF LocalStep
  <1>3. TypeOK'
    BY <1>0, <1>1 DEF TypeOK, LocalStep
  <1>4. HistoriesSound'
    BY <1>0, LocalHistories
  <1>5. MergeSound'
    BY <1>2 DEF MergeSound
  <1>6. RowsSound'
    <2>1. ASSUME NEW c \in Devices
          PROVE  \A a \in Atoms : row'[c][a] # NoRow /\ Own(c, a)' => OwnRow(c, a)'
      <3>1. CASE c = d
        BY <3>1, LocalRows
      <3>2. CASE c # d
        <4>1. /\ row'[c] = row[c] /\ log'[c] = log[c]
              /\ \A a \in Atoms : Own(c, a)' => Own(c, a)
          BY <1>1, <1>2, <3>2
        <4> QED
          BY <1>0, <1>1, <4>1, OtherRows
      <3> QED
        BY <3>1, <3>2
    <2> QED
      BY <2>1 DEF RowsSound
  <1>7. ErasureWins'
    <2>1. ASSUME NEW c \in Devices, NEW a \in Atoms, Erased(log'[c], a)
          PROVE  row'[c][a] = NoRow
      <3>1. CASE c # d
        BY <1>0, <1>1, <1>2, <2>1, <3>1 DEF ErasureWins
      <3>2. CASE c = d
        <4>1. Erased(log[d], a) \/ Erased(es, a)
          BY <1>0, <2>1, <3>2, LocalChanges
        <4>2. RowStep(d, es, a) /\ (Erased(log[d], a) => row[d][a] = NoRow)
          BY <1>0 DEF LocalStep, ErasureWins
        <4> QED
          BY <3>2, <4>1, <4>2 DEF RowStep
      <3> QED
        BY <3>1, <3>2
    <2> QED
      BY <2>1 DEF ErasureWins
  <1>8. NoGap'
    BY <1>0, <1>1, <1>2 DEF NoGap
  <1>9. SyncedMeansStored' /\ EnvelopesAreShared'
    BY <1>0, <1>2 DEF SyncedMeansStored, EnvelopesAreShared
  <1> QED
    BY <1>3, <1>4, <1>5, <1>6, <1>7, <1>8, <1>9 DEF SyncInv

\* What UndoMatches says of a step.
UndoStep ==
  \A d \in Devices, a \in Atoms :
    /\ row[d][a] # NoRow /\ row[d][a].to # 0 /\ Own(d, a)
    /\ Valid(row'[d], a)
    => <<LastChange(log[d], a), LastChange(log'[d], a)>> \in Undone

\* A step that leaves a device's rows alone undoes nothing there.
LEMMA RowsKeptUndo ==
  ASSUME NEW d \in Devices, row'[d] = row[d]
  PROVE  \A a \in Atoms : ~ (row[d][a] # NoRow /\ row[d][a].to # 0 /\ Valid(row'[d], a))
  BY DEF Valid

\* An operation shows a row only by undoing what hid it.
LEMMA LocalUndo ==
  ASSUME SyncInv, NEW d \in Devices, NEW es, LocalStep(d, es)
  PROVE  UndoStep
  <1> SUFFICES ASSUME NEW c \in Devices, NEW a \in Atoms,
                      row[c][a] # NoRow /\ row[c][a].to # 0 /\ Own(c, a), Valid(row'[c], a)
               PROVE  <<LastChange(log[c], a), LastChange(log'[c], a)>> \in Undone
    BY DEF UndoStep
  <1>1. TypeOK /\ HistoriesSound
    BY DEF SyncInv
  <1>2. c = d
    BY RowsKeptUndo DEF LocalStep
  <1>3. RowStep(d, es, a) /\ Now(d) # 0 /\ row'[d][a] # NoRow /\ row'[d][a].to = 0
    BY <1>1, <1>2, Types DEF LocalStep, Valid
  <1>4. \E p \in Undone : LastChange(log[d], a) = p[1] /\ Tells(es, a, p[2])
    BY <1>2, <1>3 DEF RowStep
  <1>5. \A y : Tells(es, a, y) => LastChange(log'[d], a) = y
    BY <1>1, LocalChanges
  <1> QED
    BY <1>2, <1>4, <1>5 DEF Undone

\* One event of an operation.
LEMMA WrittenOne ==
  ASSUME TypeOK, NEW d \in Devices, NEW type \in EventTypes, NEW a \in Atoms,
         NEW to \in Atoms \cup {NoAtom}, NEW scope \in Scopes, type = "supersede" => to \in Atoms
  PROVE  LET e  == MkEvent(d, 1, type, a, to, scope)
             es == <<e>>
         IN  /\ Written(d, es) /\ Len(es) = 1 /\ es[1] = e /\ e.atom = a /\ e.type = type
             /\ Erased(es, a) <=> type = "erase_request"
             /\ \A b : b # a => ~ Erased(es, b) /\ Silent(es, b)
             /\ type \notin Changes => Silent(es, a)
             /\ type \in Changes => Tells(es, a, type)
  <1> DEFINE e  == MkEvent(d, 1, type, a, to, scope)
             es == <<e>>
  <1>1. ids \in Nat /\ Now(d) \in Nat
    BY Types
  <1>2. /\ e.id = ids + 1 /\ e.why = "user" /\ e.at = Now(d) /\ e.atom = a /\ e.type = type
        /\ e.to = to
    BY DEF MkEvent
  <1>3. e \in Event
    BY <1>1 DEF MkEvent, Event
  <1> HIDE DEF e
  <1>4. es \in Seq(Event) /\ Len(es) = 1 /\ es[1] = e
    BY <1>3
  <1>5. \A i : i \in 1 .. Len(es) <=> i = 1
    BY <1>4
  <1> HIDE DEF es
  <1>6. Written(d, es)
    BY <1>2, <1>4, <1>5 DEF Written
  <1>7. /\ Erased(es, a) <=> type = "erase_request"
        /\ \A b : b # a => ~ Erased(es, b)
    BY <1>2, <1>4, <1>5 DEF Erased
  <1>8. \A b : b # a => Silent(es, b)
    BY <1>2, <1>4, <1>5 DEF Silent
  <1>9. /\ type \notin Changes => Silent(es, a)
        /\ type \in Changes => Tells(es, a, type)
    BY <1>2, <1>4, <1>5 DEF Silent, Tells
  <1> QED
    BY <1>2, <1>4, <1>6, <1>7, <1>8, <1>9 DEF e, es

\* The parts of an operation on one row: r is what it makes of the row.
LEMMA OneRow ==
  ASSUME TypeOK, merge = NoMerge, NEW d \in Devices, NEW name, Op(d, name), UNCHANGED batches,
         NEW a \in Atoms, NEW r \in {NoRow} \cup Row,
         row' = [row EXCEPT ![d] = [row[d] EXCEPT ![a] = r]],
         NEW es, Written(d, es), append(d, es),
         \A b \in Atoms \ {a} : ~ Erased(es, b) /\ Silent(es, b),
         row'[d][a] = r => RowStep(d, es, a)
  PROVE  LocalStep(d, es)
  <1>1. row[d] \in Table /\ spent \in Nat /\ row \in [Devices -> Table]
    BY Types DEF TypeOK
  <1>2. [row[d] EXCEPT ![a] = r] \in Table
    BY <1>1 DEF Table
  <1>3. /\ row'[d] = [row[d] EXCEPT ![a] = r] /\ \A c \in Devices \ {d} : row'[c] = row[c]
        /\ row' \in [Devices -> Table]
    BY <1>1, <1>2
  <1>4. row'[d][a] = r /\ \A b \in Atoms \ {a} : row'[d][b] = row[d][b]
    BY <1>1, <1>3 DEF Table
  <1>5. ASSUME NEW b \in Atoms \ {a} PROVE RowStep(d, es, b)
    <2>1. row'[d][b] = row[d][b] /\ ~ Erased(es, b) /\ Silent(es, b)
      BY <1>4
    <2> QED
      BY <2>1 DEF RowStep
  <1>6. spent' \in Nat
    BY <1>1 DEF Op, Spend
  <1> QED
    BY <1>3, <1>4, <1>5, <1>6 DEF LocalStep, Op, append, TypeOK

\* An invalidation hides a valid row.
LEMMA InvalidateStep ==
  ASSUME SyncInv, merge = NoMerge, NEW d \in Devices, NEW a \in Atoms, invalidate(d, a)
  PROVE  \E es : LocalStep(d, es)
  <1> DEFINE o  == row[d][a]
             r  == [o EXCEPT !.to = Now(d)]
             e  == MkEvent(d, 1, "invalidate", a, NoAtom, o.scope)
             es == <<e>>
  <1>1. TypeOK /\ RowsSound
    BY DEF SyncInv
  <1>2. o # NoRow /\ o.to = 0 /\ o \in Row /\ o.scope \in Scopes /\ Now(d) \in Nat
    BY <1>1, Types DEF invalidate, Valid, Table, TypeOK
  <1>3. /\ r \in Row /\ r # NoRow /\ r.to = Now(d) /\ r.from = o.from /\ r.by = o.by
        /\ r.archived = o.archived /\ r.batch = o.batch
    BY <1>2, RowIsThere DEF Row
  <1>4. row' = [row EXCEPT ![d] = [row[d] EXCEPT ![a] = r]]
    BY DEF invalidate
  <1>5. append(d, es) /\ Op(d, "invalidate") /\ UNCHANGED batches
    BY DEF invalidate, append1
  <1>6. /\ Written(d, es) /\ Len(es) = 1 /\ ~ Erased(es, a)
        /\ \A b : b # a => ~ Erased(es, b) /\ Silent(es, b)
        /\ Tells(es, a, "invalidate")
    BY <1>1, <1>2, WrittenOne DEF EventTypes, Changes
  <1> HIDE DEF r, es
  <1>7. Own(d, a) => o.by = NoAtom /\ o.archived = "no" /\ o.batch = 0
    BY <1>1, <1>2 DEF RowsSound, OwnRow
  <1>8. row'[d][a] = r => RowStep(d, es, a)
    BY <1>2, <1>3, <1>6, <1>7 DEF RowStep
  <1>9. LocalStep(d, es)
    BY <1>1, <1>3, <1>4, <1>5, <1>6, <1>8, OneRow
  <1> QED
    BY <1>9

\* An insertion: the content was not erased.
LEMMA InsertStep ==
  ASSUME SyncInv, merge = NoMerge, NEW d \in Devices, NEW a \in Atoms, NEW scope \in Scopes,
         insertWithCreateEvent(d, a, scope)
  PROVE  \E es : LocalStep(d, es)
  <1> DEFINE o  == row[d][a]
             r  == NewRow(scope, Now(d))
             e  == MkEvent(d, 1, "create", a, NoAtom, scope)
             es == <<e>>
  <1>1. TypeOK /\ RowsSound /\ ErasureWins
    BY DEF SyncInv
  <1>2. o = NoRow /\ ~ Erased(log[d], a) /\ Now(d) \in Nat
    BY <1>1, Types DEF insertWithCreateEvent, Valid, Table, TypeOK, ErasureWins
  <1>3. /\ r \in Row /\ r # NoRow /\ r.to = 0 /\ r.by = NoAtom /\ r.archived = "no" /\ r.batch = 0
    BY <1>2, RowIsThere, MemorySyncAssumption DEF Row, NewRow
  <1>4. row' = [row EXCEPT ![d] = [row[d] EXCEPT ![a] = r]]
    BY DEF insertWithCreateEvent
  <1>5. append(d, es) /\ Op(d, "create") /\ UNCHANGED batches
    BY DEF insertWithCreateEvent, append1
  <1>6. /\ Written(d, es) /\ Len(es) = 1
        /\ \A b : b # a => ~ Erased(es, b) /\ Silent(es, b)
        /\ ~ Erased(es, a)
    BY <1>1, <1>2, WrittenOne DEF EventTypes, Changes
  <1> HIDE DEF r, es
  <1>7. row'[d][a] = r => RowStep(d, es, a)
    BY <1>1, <1>2, <1>3, <1>6 DEF RowStep, Undone
  <1>8. LocalStep(d, es)
    BY <1>1, <1>3, <1>4, <1>5, <1>6, <1>7, OneRow
  <1> QED
    BY <1>8

\* An archival hides a valid row.
LEMMA ArchiveStep ==
  ASSUME SyncInv, merge = NoMerge, NEW d \in Devices, NEW a \in Atoms, archive(d, a)
  PROVE  \E es : LocalStep(d, es)
  <1> DEFINE o  == row[d][a]
             r  == [o EXCEPT !.to = Now(d), !.archived = "yes"]
             e  == MkEvent(d, 1, "archive", a, NoAtom, o.scope)
             es == <<e>>
  <1>1. TypeOK /\ RowsSound /\ ErasureWins
    BY DEF SyncInv
  <1>2. o # NoRow /\ o.to = 0 /\ o \in Row /\ o.scope \in Scopes /\ Now(d) \in Nat
    BY <1>1, Types DEF archive, Valid, Table, TypeOK, ErasureWins
  <1>3. /\ r \in Row /\ r # NoRow /\ r.to = Now(d) /\ r.from = o.from /\ r.by = o.by
        /\ r.archived = "yes" /\ r.batch = o.batch
    BY <1>2, RowIsThere DEF Row
  <1>4. row' = [row EXCEPT ![d] = [row[d] EXCEPT ![a] = r]]
    BY DEF archive
  <1>5. append(d, es) /\ Op(d, "archive") /\ UNCHANGED batches
    BY DEF archive, append1
  <1>6. /\ Written(d, es) /\ Len(es) = 1
        /\ \A b : b # a => ~ Erased(es, b) /\ Silent(es, b)
        /\ ~ Erased(es, a) /\ Tells(es, a, "archive")
    BY <1>1, <1>2, WrittenOne DEF EventTypes, Changes
  <1> HIDE DEF r, es
  <1>7. Own(d, a) => o.by = NoAtom /\ o.batch = 0
    BY <1>1, <1>2 DEF RowsSound, OwnRow
  <1>8. row'[d][a] = r => RowStep(d, es, a)
    BY <1>1, <1>2, <1>3, <1>6, <1>7 DEF RowStep, Undone
  <1>9. LocalStep(d, es)
    BY <1>1, <1>3, <1>4, <1>5, <1>6, <1>8, OneRow
  <1> QED
    BY <1>9

\* A restoration shows a row that an archival hid: no supersession or purge came after it.
LEMMA RestoreStep ==
  ASSUME SyncInv, merge = NoMerge, NEW d \in Devices, NEW a \in Atoms, restore(d, a)
  PROVE  \E es : LocalStep(d, es)
  <1> DEFINE o  == row[d][a]
             r  == [o EXCEPT !.to = 0, !.archived = "no"]
             e  == MkEvent(d, 1, "restore", a, NoAtom, o.scope)
             es == <<e>>
  <1>1. TypeOK /\ RowsSound /\ ErasureWins
    BY DEF SyncInv
  <1>2. o # NoRow /\ o.archived = "yes" /\ o \in Row /\ o.scope \in Scopes
    BY <1>1, Types DEF restore, Valid, Table, TypeOK, ErasureWins
  <1>3. /\ r \in Row /\ r # NoRow /\ r.to = 0 /\ r.from = o.from /\ r.by = o.by
        /\ r.archived = "no" /\ r.batch = o.batch
    <2>1. /\ r.to = 0 /\ r.from = o.from /\ r.by = o.by
          /\ r.archived = "no" /\ r.batch = o.batch
      BY <1>2 DEF Row
    <2>2. r \in Row
      BY <1>2 DEF Row
    <2> QED
      BY <2>1, <2>2, RowIsThere
  <1>4. row' = [row EXCEPT ![d] = [row[d] EXCEPT ![a] = r]]
    BY DEF restore
  <1>5. append(d, es) /\ Op(d, "restore") /\ UNCHANGED batches
    BY DEF restore, append1
  <1>6. /\ Written(d, es) /\ Len(es) = 1
        /\ \A b : b # a => ~ Erased(es, b) /\ Silent(es, b)
        /\ ~ Erased(es, a) /\ Tells(es, a, "restore")
    BY <1>1, <1>2, WrittenOne DEF EventTypes, Changes
  <1> HIDE DEF r, es
  <1>7. Own(d, a) => o.by = NoAtom /\ o.batch = 0 /\ LastChange(log[d], a) = "archive"
    BY <1>1, <1>2 DEF RowsSound, OwnRow
  <1>8. row'[d][a] = r => RowStep(d, es, a)
    BY <1>1, <1>2, <1>3, <1>6, <1>7 DEF RowStep, Undone
  <1>9. LocalStep(d, es)
    BY <1>1, <1>3, <1>4, <1>5, <1>6, <1>8, OneRow
  <1> QED
    BY <1>9

\* A supersession is undone where nothing else hid the row after it.
LEMMA UnsupersedeStep ==
  ASSUME SyncInv, merge = NoMerge, NEW d \in Devices, NEW a \in Atoms, unsupersede(d, a)
  PROVE  \E es : LocalStep(d, es)
  <1> DEFINE o  == row[d][a]
             r  == [o EXCEPT !.to = 0, !.by = NoAtom]
             e  == MkEvent(d, 1, "unsupersede", a, NoAtom, o.scope)
             es == <<e>>
  <1>1. TypeOK /\ RowsSound /\ ErasureWins
    BY DEF SyncInv
  <1>2. o # NoRow /\ o.archived = "no" /\ o.by # NoAtom /\ o \in Row /\ o.scope \in Scopes
    BY <1>1, Types DEF unsupersede, Valid, Table, TypeOK, ErasureWins
  <1>3. /\ r \in Row /\ r # NoRow /\ r.to = 0 /\ r.from = o.from /\ r.by = NoAtom
        /\ r.archived = o.archived /\ r.batch = o.batch
    <2>1. /\ r.to = 0 /\ r.from = o.from /\ r.by = NoAtom
          /\ r.archived = o.archived /\ r.batch = o.batch
      BY <1>2 DEF Row
    <2>2. r \in Row
      BY <1>2 DEF Row
    <2> QED
      BY <2>1, <2>2, RowIsThere
  <1>4. row' = [row EXCEPT ![d] = [row[d] EXCEPT ![a] = r]]
    BY DEF unsupersede
  <1>5. append(d, es) /\ Op(d, "unsupersede") /\ UNCHANGED batches
    BY DEF unsupersede, append1
  <1>6. /\ Written(d, es) /\ Len(es) = 1
        /\ \A b : b # a => ~ Erased(es, b) /\ Silent(es, b)
        /\ ~ Erased(es, a) /\ Tells(es, a, "unsupersede")
    BY <1>1, <1>2, WrittenOne DEF EventTypes, Changes
  <1> HIDE DEF r, es
  <1>7. Own(d, a) => o.batch = 0 /\ LastChange(log[d], a) = "supersede"
    BY <1>1, <1>2 DEF RowsSound, OwnRow
  <1>8. row'[d][a] = r => RowStep(d, es, a)
    BY <1>1, <1>2, <1>3, <1>6, <1>7 DEF RowStep, Undone
  <1>9. LocalStep(d, es)
    BY <1>1, <1>3, <1>4, <1>5, <1>6, <1>8, OneRow
  <1> QED
    BY <1>9

\* A promotion changes the scope alone.
LEMMA PromoteStep ==
  ASSUME SyncInv, merge = NoMerge, NEW d \in Devices, NEW a \in Atoms, promoteScope(d, a)
  PROVE  \E es : LocalStep(d, es)
  <1> DEFINE o  == row[d][a]
             r  == [o EXCEPT !.scope = "shared"]
             e  == MkEvent(d, 1, "promote_scope", a, NoAtom, "shared")
             es == <<e>>
  <1>1. TypeOK /\ RowsSound /\ ErasureWins
    BY DEF SyncInv
  <1>2. o # NoRow /\ o \in Row /\ "shared" \in Scopes
    BY <1>1, Types DEF promoteScope, Scopes, Table, TypeOK
  <1>3. /\ r \in Row /\ r # NoRow /\ r.to = o.to /\ r.from = o.from /\ r.by = o.by
        /\ r.archived = o.archived /\ r.batch = o.batch
    BY <1>2, RowIsThere DEF Row
  <1>4. row' = [row EXCEPT ![d] = [row[d] EXCEPT ![a] = r]]
    BY DEF promoteScope
  <1>5. append(d, es) /\ Op(d, "promote") /\ UNCHANGED batches
    BY DEF promoteScope, append1
  <1>6. /\ Written(d, es) /\ Len(es) = 1
        /\ \A b : b # a => ~ Erased(es, b) /\ Silent(es, b)
        /\ ~ Erased(es, a) /\ Silent(es, a)
    BY <1>1, <1>2, WrittenOne DEF EventTypes, Changes
  <1> HIDE DEF r, es
  <1>7. row'[d][a] = r => RowStep(d, es, a)
    BY <1>1, <1>2, <1>3, <1>6 DEF RowStep, Undone
  <1>8. LocalStep(d, es)
    BY <1>1, <1>3, <1>4, <1>5, <1>6, <1>7, OneRow
  <1> QED
    BY <1>8

\* An erasure removes the row.
LEMMA EraseStep ==
  ASSUME SyncInv, merge = NoMerge, NEW d \in Devices, NEW a \in Atoms, erase(d, a)
  PROVE  \E es : LocalStep(d, es)
  <1> DEFINE o  == row[d][a]
             r  == NoRow
             e  == MkEvent(d, 1, "erase_request", a, NoAtom, o.scope)
             es == <<e>>
  <1>1. TypeOK /\ RowsSound /\ ErasureWins
    BY DEF SyncInv
  <1>2. o # NoRow /\ o \in Row /\ o.scope \in Scopes
    BY <1>1, Types DEF erase, Valid, Table, TypeOK, ErasureWins
  <1>3. r = NoRow
    BY <1>2, RowIsThere DEF Row
  <1>4. row' = [row EXCEPT ![d] = [row[d] EXCEPT ![a] = r]]
    BY DEF erase
  <1>5. append(d, es) /\ Op(d, "erase") /\ UNCHANGED batches
    BY DEF erase, append1
  <1>6. /\ Written(d, es) /\ Len(es) = 1
        /\ \A b : b # a => ~ Erased(es, b) /\ Silent(es, b)
        /\ Erased(es, a)
    BY <1>1, <1>2, WrittenOne DEF EventTypes, Changes
  <1> HIDE DEF r, es
  <1>7. row'[d][a] = r => RowStep(d, es, a)
    BY <1>1, <1>2, <1>3, <1>6 DEF RowStep, Undone
  <1>8. LocalStep(d, es)
    BY <1>1, <1>3, <1>4, <1>5, <1>6, <1>7, OneRow
  <1> QED
    BY <1>8

\* A usefulness signal leaves the row as it is.
LEMMA UsefulnessStep ==
  ASSUME SyncInv, merge = NoMerge, NEW d \in Devices, NEW a \in Atoms, usefulness(d, a)
  PROVE  \E es : LocalStep(d, es)
  <1> DEFINE o  == row[d][a]
             r  == o
             e  == MkEvent(d, 1, "usefulness", a, NoAtom, o.scope)
             es == <<e>>
  <1>1. TypeOK /\ RowsSound /\ ErasureWins
    BY DEF SyncInv
  <1>2. o # NoRow /\ o \in Row /\ o.scope \in Scopes
    BY <1>1, Types DEF usefulness, Valid, Table, TypeOK, ErasureWins
  <1>3. r \in Row /\ r # NoRow /\ r = o
    BY <1>2, RowIsThere DEF Row
  <1>4. row' = [row EXCEPT ![d] = [row[d] EXCEPT ![a] = r]]
    <2>1. [row[d] EXCEPT ![a] = r] = row[d]
      BY <1>1 DEF TypeOK, Table
    <2> HIDE DEF r
    <2> QED
      BY <1>1, <2>1 DEF usefulness, TypeOK
  <1>5. append(d, es) /\ Op(d, "usefulness") /\ UNCHANGED batches
    BY DEF usefulness, append1
  <1>6. /\ Written(d, es) /\ Len(es) = 1
        /\ \A b : b # a => ~ Erased(es, b) /\ Silent(es, b)
        /\ ~ Erased(es, a) /\ Silent(es, a)
    BY <1>1, <1>2, WrittenOne DEF EventTypes, Changes
  <1> HIDE DEF r, es
  <1>7. row'[d][a] = r => RowStep(d, es, a)
    BY <1>1, <1>2, <1>3, <1>6 DEF RowStep, Undone
  <1>8. LocalStep(d, es)
    BY <1>1, <1>3, <1>4, <1>5, <1>6, <1>7, OneRow
  <1> QED
    BY <1>8

\* The parts of an operation on several rows: t is what it makes of the table.
LEMMA ManyRows ==
  ASSUME TypeOK, merge = NoMerge, NEW d \in Devices, NEW name, Op(d, name),
         batches' \in [Devices -> [1 .. MaxBatches -> Status]],
         NEW t \in Table, row' = [row EXCEPT ![d] = t],
         NEW es, Written(d, es), append(d, es),
         row'[d] = t => \A a \in Atoms : RowStep(d, es, a)
  PROVE  LocalStep(d, es)
  <1>1. spent \in Nat /\ row \in [Devices -> Table]
    BY DEF TypeOK
  <1>2. /\ row'[d] = t /\ \A c \in Devices \ {d} : row'[c] = row[c]
        /\ row' \in [Devices -> Table]
    BY <1>1
  <1>3. spent' \in Nat
    BY <1>1 DEF Op, Spend
  <1> QED
    BY <1>2, <1>3 DEF LocalStep, Op, append

\* A supersession hides a row and lets its successor begin where it ends.
LEMMA SupersedeStep ==
  ASSUME SyncInv, merge = NoMerge, NEW d \in Devices, NEW a \in Atoms, NEW b \in Atoms,
         supersede(d, a, b)
  PROVE  \E es : LocalStep(d, es)
  <1> DEFINE o  == row[d][a]
             p  == row[d][b]
             ra == [o EXCEPT !.to = Now(d), !.by = b]
             rb == [p EXCEPT !.from = Now(d)]
             rr == [ra EXCEPT !.from = Now(d)]
             t  == IF a = b THEN [row[d] EXCEPT ![a] = rr]
                            ELSE [row[d] EXCEPT ![a] = ra, ![b] = rb]
             e  == MkEvent(d, 1, "supersede", a, b, o.scope)
             es == <<e>>
  <1>1. TypeOK /\ RowsSound
    BY DEF SyncInv
  <1>2. /\ o # NoRow /\ o.to = 0 /\ o \in Row /\ o.scope \in Scopes /\ Now(d) \in Nat
        /\ p # NoRow /\ p.to = 0 /\ p \in Row /\ row[d] \in Table /\ row \in [Devices -> Table]
        /\ b # NoAtom
    BY <1>1, Types DEF supersede, Valid, Table, TypeOK
  <1>3. /\ ra \in Row /\ ra.to = Now(d) /\ ra.by = b /\ ra.archived = o.archived
        /\ ra.batch = o.batch /\ ra.from = o.from
    BY <1>2 DEF Row
  <1>4. /\ rr \in Row /\ rr.to = Now(d) /\ rr.by = b /\ rr.archived = o.archived
        /\ rr.batch = o.batch /\ rr.from = Now(d)
    BY <1>2 DEF Row
  <1>5. /\ rb \in Row /\ rb.to = p.to /\ rb.by = p.by /\ rb.archived = p.archived
        /\ rb.batch = p.batch /\ rb.from = Now(d)
    BY <1>2 DEF Row
  <1>6. row' = [row EXCEPT ![d] = t]
    <2>1. CASE a = b
      BY <1>2, <2>1 DEF supersede, Table
    <2>2. CASE a # b
      BY <1>2, <2>2 DEF supersede, Table
    <2> QED
      BY <2>1, <2>2
  <1>7. append(d, es) /\ Op(d, "supersede") /\ batches' \in [Devices -> [1 .. MaxBatches -> Status]]
    BY <1>1 DEF supersede, TypeOK
  <1>8. /\ Written(d, es) /\ Len(es) = 1 /\ ~ Erased(es, a)
        /\ \A x : x # a => ~ Erased(es, x) /\ Silent(es, x)
        /\ Tells(es, a, "supersede")
    BY <1>1, <1>2, WrittenOne DEF EventTypes, Changes
  <1> HIDE DEF ra, rb, rr, es
  <1>9. t \in Table
    BY <1>2, <1>3, <1>4, <1>5 DEF Table
  <1>10. /\ a = b => t[a] = rr
         /\ a # b => t[a] = ra /\ t[b] = rb
         /\ \A x \in Atoms \ {a, b} : t[x] = row[d][x]
    BY <1>2 DEF Table
  <1> HIDE DEF t
  <1>11. Own(d, a) => o.by = NoAtom /\ o.archived = "no" /\ o.batch = 0
    BY <1>1, <1>2 DEF RowsSound, OwnRow
  <1>12. ASSUME row'[d] = t, NEW x \in Atoms PROVE RowStep(d, es, x)
    <2>0. rr # NoRow /\ ra # NoRow /\ rb # NoRow
      BY <1>3, <1>4, <1>5, RowIsThere
    <2>1. CASE x = a /\ a = b
      BY <1>2, <1>4, <1>8, <1>10, <1>11, <1>12, <2>0, <2>1 DEF RowStep
    <2>2. CASE x = a /\ a # b
      BY <1>2, <1>3, <1>5, <1>8, <1>10, <1>11, <1>12, <2>0, <2>2 DEF RowStep
    <2>3. CASE x = b /\ a # b
      BY <1>2, <1>5, <1>8, <1>10, <1>12, <2>0, <2>3 DEF RowStep
    <2>4. CASE x \notin {a, b}
      BY <1>8, <1>10, <1>12, <2>4 DEF RowStep
    <2> QED
      BY <2>1, <2>2, <2>3, <2>4
  <1>13. LocalStep(d, es)
    BY <1>1, <1>6, <1>7, <1>8, <1>9, <1>12, ManyRows
  <1> QED
    BY <1>13

\* The events of an operation on several atoms: one of its type for each.
LEMMA BatchEvents ==
  ASSUME TypeOK, NEW d \in Devices, NEW type \in EventTypes \ {"supersede"},
         NEW S \in SUBSET Atoms, \A a \in S : row[d][a] # NoRow
  PROVE  LET es == OnePerAtom(d, type, S)
         IN  /\ Written(d, es)
             /\ \A a \in S : /\ Len(es) > 0
                             /\ Erased(es, a) <=> type = "erase_request"
                             /\ type \notin Changes => Silent(es, a)
                             /\ type \in Changes => Tells(es, a, type)
             /\ \A a : a \notin S => ~ Erased(es, a) /\ Silent(es, a)
             /\ \A a \in S : EventsOf(es, a) # {}
             /\ \A a : \A e \in EventsOf(es, a) :
                  a \in S /\ e.type = type /\ e.scope = row[d][a].scope
  <1> DEFINE N     == Cardinality(S)
             order == CHOOSE f \in [1 .. N -> S] : {f[i] : i \in DOMAIN f} = S
             ev(i) == MkEvent(d, i, type, order[i], NoAtom, row[d][order[i]].scope)
             es    == [i \in 1 .. N |-> ev(i)]
  <1>1. IsFiniteSet(S) /\ N \in Nat /\ ExistsBijection(1 .. N, S)
    <2>1. IsFiniteSet(S)
      BY MemorySyncAssumption, FS_Subset
    <2> QED
      BY <2>1, FS_CardinalityType
  <1>2. order \in [1 .. N -> S] /\ {order[i] : i \in 1 .. N} = S
    <2>1. \E f \in [1 .. N -> S] : {f[i] : i \in DOMAIN f} = S
      <3> HIDE DEF N
      <3>1. PICK f : f \in Bijection(1 .. N, S)
        BY <1>1 DEF ExistsBijection
      <3>2. f \in [1 .. N -> S] /\ \A x \in S : \E i \in 1 .. N : f[i] = x
        BY <3>1 DEF Bijection, Surjection
      <3>3. {f[i] : i \in DOMAIN f} = S
        BY <3>2
      <3> QED
        BY <3>2, <3>3
    <2>2. order \in [1 .. N -> S] /\ {order[i] : i \in DOMAIN order} = S
      <3> HIDE DEF N
      <3> QED
        BY <2>1
    <2> HIDE DEF order, N
    <2> QED
      BY <2>2
  <1>3. OnePerAtom(d, type, S) = es
    BY DEF OnePerAtom
  <1> HIDE DEF order, N
  <1>4. \A i \in 1 .. N : order[i] \in S
    BY <1>2
  <1>5. \A a \in S : \E i \in 1 .. N : order[i] = a
    BY <1>2
  <1>6. ids \in Nat /\ Now(d) \in Nat /\ \A a \in S : row[d][a].scope \in Scopes
    BY Types
  <1>7. ASSUME NEW i \in 1 .. N
        PROVE  /\ ev(i) \in Event /\ ev(i).id = ids + i /\ ev(i).why = "user"
               /\ ev(i).at = Now(d) /\ ev(i).type = type /\ ev(i).atom = order[i]
               /\ ev(i).scope = row[d][order[i]].scope
    <2>1. order[i] \in S /\ order[i] \in Atoms /\ row[d][order[i]].scope \in Scopes /\ i \in Nat
      BY <1>1, <1>4, <1>6
    <2>2. ids + i \in Nat
      BY <1>6, <2>1
    <2> QED
      BY <1>6, <2>1, <2>2 DEF MkEvent, Event
  <1> HIDE DEF ev
  <1>8. es \in Seq(Event) /\ Len(es) = N /\ \A i \in 1 .. N : es[i] = ev(i)
    BY <1>1, <1>7
  <1> HIDE DEF es
  <1>9. Written(d, es)
    BY <1>7, <1>8 DEF Written
  <1>10. ASSUME NEW a \in S
         PROVE  /\ Len(es) > 0
                /\ Erased(es, a) <=> type = "erase_request"
                /\ type \notin Changes => Silent(es, a)
                /\ type \in Changes => Tells(es, a, type)
    <2>1. PICK i \in 1 .. N : order[i] = a
      BY <1>5
    <2>2. es[i].atom = a /\ es[i].type = type /\ Len(es) > 0
      BY <1>1, <1>7, <1>8, <2>1
    <2>3. \A j \in 1 .. Len(es) : es[j].type = type
      BY <1>7, <1>8
    <2>4. Erased(es, a) <=> type = "erase_request"
      BY <1>8, <2>2, <2>3 DEF Erased
    <2>5. type \notin Changes => Silent(es, a)
      BY <1>8, <2>3 DEF Silent
    <2>6. type \in Changes => Tells(es, a, type)
      BY <1>8, <2>2, <2>3 DEF Tells
    <2> QED
      BY <2>2, <2>4, <2>5, <2>6
  <1>11. ASSUME NEW a, a \notin S PROVE ~ Erased(es, a) /\ Silent(es, a)
    <2>1. \A j \in 1 .. Len(es) : es[j].atom # a
      BY <1>4, <1>7, <1>8, <1>11
    <2> QED
      BY <2>1 DEF Erased, Silent
  <1>12. ASSUME NEW a \in S PROVE EventsOf(es, a) # {}
    <2>1. PICK i \in 1 .. N : order[i] = a
      BY <1>5
    <2>2. es[i].atom = a /\ i \in 1 .. Len(es)
      BY <1>7, <1>8, <2>1
    <2> QED
      BY <2>2 DEF EventsOf
  <1>13. ASSUME NEW a, NEW e \in EventsOf(es, a)
         PROVE  a \in S /\ e.type = type /\ e.scope = row[d][a].scope
    <2>1. PICK i \in 1 .. Len(es) : es[i] = e /\ es[i].atom = a
      BY DEF EventsOf
    <2> QED
      BY <1>4, <1>7, <1>8, <2>1
  <1> QED
    BY <1>3, <1>9, <1>10, <1>11, <1>12, <1>13

\* What they say of the state of an atom.
LEMMA WrittenMany ==
  ASSUME TypeOK, NEW d \in Devices, NEW type \in EventTypes \ {"supersede"},
         NEW S \in SUBSET Atoms, \A a \in S : row[d][a] # NoRow
  PROVE  LET es == OnePerAtom(d, type, S)
         IN  /\ Written(d, es)
             /\ \A a \in S : /\ Len(es) > 0
                             /\ Erased(es, a) <=> type = "erase_request"
                             /\ type \notin Changes => Silent(es, a)
                             /\ type \in Changes => Tells(es, a, type)
             /\ \A a : a \notin S => ~ Erased(es, a) /\ Silent(es, a)
  BY BatchEvents

\* A purge hides the valid rows of its atoms.
LEMMA PurgeStep ==
  ASSUME SyncInv, merge = NoMerge, NEW d \in Devices, NEW b \in 1 .. MaxBatches,
         NEW S \in SUBSET Atoms, purgeBatch(d, b, S)
  PROVE  \E es : LocalStep(d, es)
  <1> DEFINE P    == {a \in S : Valid(row[d], a)}
             r(a) == [row[d][a] EXCEPT !.to = Now(d), !.batch = b]
             t    == [a \in Atoms |-> IF a \in P THEN r(a) ELSE row[d][a]]
             es   == OnePerAtom(d, "purge", P)
  <1>1. TypeOK /\ RowsSound
    BY DEF SyncInv
  <1>2. /\ row[d] \in Table /\ Now(d) \in Nat /\ b \in 0 .. MaxBatches /\ b # 0
        /\ batches' \in [Devices -> [1 .. MaxBatches -> Status]]
    <2>1. batches \in [Devices -> [1 .. MaxBatches -> Status]] /\ "open" \in Status
      BY <1>1 DEF TypeOK, Status
    <2>2. batches' \in [Devices -> [1 .. MaxBatches -> Status]]
      BY <2>1 DEF purgeBatch
    <2> QED
      BY <1>1, <2>2, Types
  <1>3. ASSUME NEW a \in P
        PROVE  /\ a \in Atoms /\ row[d][a] # NoRow /\ row[d][a].to = 0
               /\ r(a) \in Row /\ r(a) # NoRow /\ r(a).to = Now(d) /\ r(a).from = row[d][a].from
               /\ r(a).by = row[d][a].by /\ r(a).archived = row[d][a].archived
               /\ r(a).batch = b
    <2>1. a \in Atoms /\ row[d][a] # NoRow /\ row[d][a].to = 0 /\ row[d][a] \in Row
      BY <1>2 DEF Valid, Table
    <2>2. r(a) \in Row
      BY <1>2, <2>1 DEF Row
    <2>3. /\ r(a).to = Now(d) /\ r(a).from = row[d][a].from /\ r(a).by = row[d][a].by
          /\ r(a).archived = row[d][a].archived /\ r(a).batch = b
      BY <2>1 DEF Row
    <2> QED
      BY <2>1, <2>2, <2>3, RowIsThere
  <1>4. row' = [row EXCEPT ![d] = t] /\ append(d, es) /\ Op(d, "purge")
    BY DEF purgeBatch
  <1>5. P \in SUBSET Atoms
    OBVIOUS
  <1> HIDE DEF r, P
  <1>6. t \in Table
    BY <1>2, <1>3 DEF Table
  <1>7. /\ Written(d, es)
        /\ \A a \in P : Len(es) > 0 /\ ~ Erased(es, a) /\ Tells(es, a, "purge")
        /\ \A a : a \notin P => ~ Erased(es, a) /\ Silent(es, a)
    BY <1>1, <1>3, <1>5, WrittenMany DEF EventTypes, Changes
  <1>8. /\ \A a \in P : t[a] = r(a)
        /\ \A a \in Atoms \ P : t[a] = row[d][a]
    BY <1>5
  <1> HIDE DEF t, es
  <1>9. ASSUME row'[d] = t, NEW a \in Atoms PROVE RowStep(d, es, a)
    <2>1. CASE a \in P
      <3>1. Own(d, a) => /\ row[d][a].by = NoAtom /\ row[d][a].archived = "no"
        BY <1>1, <1>3, <2>1 DEF RowsSound, OwnRow
      <3> QED
        BY <1>3, <1>7, <1>8, <1>9, <2>1, <3>1 DEF RowStep
    <2>2. CASE a \notin P
      BY <1>7, <1>8, <1>9, <2>2 DEF RowStep
    <2> QED
      BY <2>1, <2>2
  <1>10. LocalStep(d, es)
    BY <1>1, <1>2, <1>4, <1>6, <1>7, <1>9, ManyRows
  <1> QED
    BY <1>10

\* Restoring a batch shows the rows that it hid and nothing else hid after it.
LEMMA RestoreBatchStep ==
  ASSUME SyncInv, merge = NoMerge, NEW d \in Devices, NEW b \in 1 .. MaxBatches,
         restorePurgeBatch(d, b)
  PROVE  \E es : LocalStep(d, es)
  <1> DEFINE P    == InBatch(d, b)
             r(a) == [row[d][a] EXCEPT !.to = 0, !.batch = 0]
             t    == [a \in Atoms |-> IF a \in P THEN r(a) ELSE row[d][a]]
             es   == OnePerAtom(d, "unpurge", P)
  <1>1. TypeOK /\ RowsSound
    BY DEF SyncInv
  <1>2. /\ row[d] \in Table /\ MaxBatches \in Nat /\ b # 0
        /\ batches' \in [Devices -> [1 .. MaxBatches -> Status]]
    <2>1. batches \in [Devices -> [1 .. MaxBatches -> Status]] /\ "restored" \in Status
      BY <1>1 DEF TypeOK, Status
    <2>2. batches' \in [Devices -> [1 .. MaxBatches -> Status]]
      BY <2>1 DEF restorePurgeBatch
    <2> QED
      BY <1>1, <2>2, Types
  <1>3. ASSUME NEW a \in P
        PROVE  /\ a \in Atoms /\ row[d][a] # NoRow /\ row[d][a].batch = b
               /\ r(a) \in Row /\ r(a) # NoRow /\ r(a).to = 0 /\ r(a).from = row[d][a].from
               /\ r(a).by = row[d][a].by /\ r(a).archived = row[d][a].archived
               /\ r(a).batch = 0
    <2>1. a \in Atoms /\ row[d][a] # NoRow /\ row[d][a].batch = b /\ row[d][a] \in Row
      BY <1>2 DEF InBatch, Table
    <2>2. r(a) \in Row
      <3>1. 0 \in 0 .. MaxBatches /\ 0 \in Nat
        BY <1>2
      <3> QED
        BY <2>1, <3>1 DEF Row
    <2>3. /\ r(a).to = 0 /\ r(a).from = row[d][a].from /\ r(a).by = row[d][a].by
          /\ r(a).archived = row[d][a].archived /\ r(a).batch = 0
      BY <2>1 DEF Row
    <2> QED
      BY <2>1, <2>2, <2>3, RowIsThere
  <1>4. row' = [row EXCEPT ![d] = t] /\ append(d, es) /\ Op(d, "unpurge")
    BY DEF restorePurgeBatch
  <1>5. P \in SUBSET Atoms
    BY DEF InBatch
  <1> HIDE DEF r, P
  <1>6. t \in Table
    BY <1>2, <1>3 DEF Table
  <1>7. /\ Written(d, es)
        /\ \A a \in P : Len(es) > 0 /\ ~ Erased(es, a) /\ Tells(es, a, "unpurge")
        /\ \A a : a \notin P => ~ Erased(es, a) /\ Silent(es, a)
    BY <1>1, <1>3, <1>5, WrittenMany DEF EventTypes, Changes
  <1>8. /\ \A a \in P : t[a] = r(a)
        /\ \A a \in Atoms \ P : t[a] = row[d][a]
    BY <1>5
  <1> HIDE DEF t, es
  <1>9. ASSUME row'[d] = t, NEW a \in Atoms PROVE RowStep(d, es, a)
    <2>1. CASE a \in P
      <3>1. Own(d, a) => LastChange(log[d], a) = "purge"
        BY <1>1, <1>2, <1>3, <2>1 DEF RowsSound, OwnRow
      <3>2. Own(d, a) => row[d][a].by = NoAtom
        BY <1>1, <1>3, <2>1, <3>1 DEF RowsSound, OwnRow
      <3>3. Own(d, a) => row[d][a].archived = "no"
        <4>1. row[d][a].archived \in {"yes", "no"}
          BY <1>1, <1>3, <2>1, Types
        <4> QED
          BY <1>1, <1>3, <2>1, <3>1, <4>1 DEF RowsSound, OwnRow
      <3> QED
        BY <1>3, <1>7, <1>8, <1>9, <2>1, <3>1, <3>2, <3>3 DEF RowStep, Undone
    <2>2. CASE a \notin P
      BY <1>7, <1>8, <1>9, <2>2 DEF RowStep
    <2> QED
      BY <2>1, <2>2
  <1>10. LocalStep(d, es)
    BY <1>1, <1>2, <1>4, <1>6, <1>7, <1>9, ManyRows
  <1> QED
    BY <1>10

\* Finalizing a batch erases the rows that are hidden in it.
LEMMA FinalizeStep ==
  ASSUME SyncInv, merge = NoMerge, NEW d \in Devices, NEW b \in 1 .. MaxBatches,
         finalizePurgeBatch(d, b)
  PROVE  \E es : LocalStep(d, es)
  <1> DEFINE P    == InBatch(d, b)
             t    == [a \in Atoms |-> IF a \in P THEN NoRow ELSE row[d][a]]
             es   == OnePerAtom(d, "erase_request", P)
  <1>1. TypeOK
    BY DEF SyncInv
  <1>2. row[d] \in Table /\ batches' \in [Devices -> [1 .. MaxBatches -> Status]]
    <2>1. batches \in [Devices -> [1 .. MaxBatches -> Status]] /\ "finalized" \in Status
      BY <1>1 DEF TypeOK, Status
    <2>2. batches' \in [Devices -> [1 .. MaxBatches -> Status]]
      BY <2>1 DEF finalizePurgeBatch
    <2> QED
      BY <1>1, <2>2, Types
  <1>3. P \in SUBSET Atoms /\ \A a \in P : row[d][a] # NoRow
    BY DEF InBatch
  <1>4. row' = [row EXCEPT ![d] = t] /\ append(d, es) /\ Op(d, "finalize")
    BY DEF finalizePurgeBatch
  <1> HIDE DEF P
  <1>5. t \in Table
    BY <1>2 DEF Table
  <1>6. /\ Written(d, es)
        /\ \A a \in P : Erased(es, a)
        /\ \A a : a \notin P => ~ Erased(es, a) /\ Silent(es, a)
    BY <1>1, <1>3, WrittenMany DEF EventTypes
  <1>7. /\ \A a \in P : t[a] = NoRow
        /\ \A a \in Atoms \ P : t[a] = row[d][a]
    BY <1>3
  <1> HIDE DEF t, es
  <1>8. ASSUME row'[d] = t, NEW a \in Atoms PROVE RowStep(d, es, a)
    <2>1. CASE a \in P
      BY <1>3, <1>6, <1>7, <1>8, <2>1 DEF RowStep
    <2>2. CASE a \notin P
      BY <1>6, <1>7, <1>8, <2>2 DEF RowStep
    <2> QED
      BY <2>1, <2>2
  <1>9. LocalStep(d, es)
    BY <1>1, <1>2, <1>4, <1>5, <1>6, <1>8, ManyRows
  <1> QED
    BY <1>9

\* Steps that change neither rows nor logs nor ids: what is left to show of them.
Rest(d) == UNCHANGED <<row, log, watermark, ids>> /\ merge = NoMerge /\ merge' = NoMerge

\* What such a step must still show: histories that pass on events of logs, and its marks.
LEMMA RestKeeps ==
  ASSUME SyncInv, NEW d \in Devices, Rest(d), TypeOK',
         History(cloud', ids), \A c \in Devices : History(flight'[c], ids),
         \A c \in Devices : IdsOf(flight'[c]) \subseteq IdsOf(log[c]),
         \A i \in 1 .. Len(cloud') : \E c \in Devices : cloud'[i].id \in IdsOf(log[c]),
         \A i \in 1 .. Len(cloud) : i \in 1 .. Len(cloud') /\ cloud'[i] = cloud[i],
         SyncedMeansStored', EnvelopesAreShared'
  PROVE  SyncInv' /\ UndoStep
  <1>0. HistoriesSound /\ RowsSound /\ ErasureWins /\ NoGap /\ TypeOK
    BY DEF SyncInv
  <1>1. HistoriesSound'
    BY <1>0 DEF HistoriesSound, Rest
  <1>2. MergeSound'
    BY DEF MergeSound, Rest
  <1>3. RowsSound'
    BY <1>0 DEF RowsSound, Rest, Own, OwnIn, OwnRow
  <1>4. ErasureWins'
    BY <1>0 DEF ErasureWins, Rest
  <1>5. NoGap'
    <2>1. Len(cloud) \in Nat /\ watermark \in [Devices -> Nat] /\ Len(cloud') \in Nat
      BY <1>0 DEF TypeOK
    <2>2. ASSUME NEW c \in Devices, NEW i \in 1 .. watermark[c]
          PROVE  i <= Len(cloud') /\ cloud'[i].id \in IdsOf(log[c])
      <3>1. i <= Len(cloud) /\ cloud[i].id \in IdsOf(log[c])
        BY <1>0 DEF NoGap
      <3>2. i \in 1 .. Len(cloud)
        BY <2>1, <3>1
      <3> QED
        BY <2>1, <3>1, <3>2
    <2> QED
      BY <2>2 DEF NoGap, Rest
  <1>6. UndoStep
    BY DEF UndoStep, Rest, Valid
  <1> QED
    BY <1>1, <1>2, <1>3, <1>4, <1>5, <1>6 DEF SyncInv

\* Every lifecycle operation keeps the invariant and undoes what it may undo.
LEMMA LifecycleKeeps ==
  ASSUME SyncInv, merge = NoMerge, NEW d \in Devices, Lifecycle(d)
  PROVE  SyncInv' /\ UndoStep
  <1>1. CASE \E es : LocalStep(d, es)
    BY <1>1, LocalKeeps, LocalUndo
  <1>2. ASSUME NEW a \in Atoms, \E scope \in Scopes : insertWithCreateEvent(d, a, scope)
        PROVE  SyncInv' /\ UndoStep
    BY <1>1, <1>2, InsertStep
  <1>3. ASSUME NEW a \in Atoms, NEW b \in Atoms, supersede(d, a, b) PROVE SyncInv' /\ UndoStep
    BY <1>1, <1>3, SupersedeStep
  <1>4. ASSUME NEW a \in Atoms, \/ usefulness(d, a) \/ invalidate(d, a) \/ archive(d, a)
                                \/ restore(d, a) \/ unsupersede(d, a) \/ promoteScope(d, a)
                                \/ erase(d, a)
        PROVE  SyncInv' /\ UndoStep
    BY <1>1, <1>4, UsefulnessStep, InvalidateStep, ArchiveStep, RestoreStep, UnsupersedeStep,
       PromoteStep, EraseStep
  <1>5. ASSUME NEW b \in 1 .. MaxBatches, NEW S \in SUBSET Atoms, purgeBatch(d, b, S)
        PROVE  SyncInv' /\ UndoStep
    BY <1>1, <1>5, PurgeStep
  <1>6. ASSUME NEW b \in 1 .. MaxBatches, restorePurgeBatch(d, b) \/ finalizePurgeBatch(d, b)
        PROVE  SyncInv' /\ UndoStep
    BY <1>1, <1>6, RestoreBatchStep, FinalizeStep
  <1>7. ASSUME NEW b \in 1 .. MaxBatches, RestoreDeadline(d, b) PROVE SyncInv' /\ UndoStep
    <2>1. /\ Rest(d) /\ cloud' = cloud /\ flight' = flight /\ synced' = synced
          /\ refused' = refused /\ rejected' = rejected /\ spent' = spent
      BY <1>7 DEF RestoreDeadline, Rest
    <2>2. TypeOK /\ HistoriesSound /\ SyncedMeansStored /\ EnvelopesAreShared
      BY DEF SyncInv
    <2>3. batches' \in [Devices -> [1 .. MaxBatches -> Status]]
      <3>1. batches \in [Devices -> [1 .. MaxBatches -> Status]] /\ "overdue" \in Status
        BY <2>2 DEF TypeOK, Status
      <3> QED
        BY <1>7, <3>1 DEF RestoreDeadline
    <2>4. TypeOK'
      BY <2>1, <2>2, <2>3 DEF TypeOK, Rest
    <2>5. SyncedMeansStored' /\ EnvelopesAreShared'
      BY <2>1, <2>2 DEF SyncedMeansStored, EnvelopesAreShared
    <2>6. /\ History(cloud', ids) /\ \A c \in Devices : History(flight'[c], ids)
          /\ \A c \in Devices : IdsOf(flight'[c]) \subseteq IdsOf(log[c])
          /\ \A i \in 1 .. Len(cloud') : \E c \in Devices : cloud'[i].id \in IdsOf(log[c])
          /\ \A i \in 1 .. Len(cloud) : i \in 1 .. Len(cloud') /\ cloud'[i] = cloud[i]
      BY <2>1, <2>2 DEF HistoriesSound
    <2> QED
      BY <2>1, <2>4, <2>5, <2>6, RestKeeps
  <1> QED
    BY <1>2, <1>3, <1>4, <1>5, <1>6, <1>7 DEF Lifecycle

----------------------------------------------------------------------------
(* Shipping.                                                              *)

\* Picking from a history gives a history.
LEMMA PickedHistory ==
  ASSUME NEW n \in Nat, NEW s, History(s, n), NEW P \in SUBSET (1 .. Len(s))
  PROVE  /\ History(Picked(s, P), n)
         /\ \A k \in 1 .. Len(Picked(s, P)) : \E i \in P : Picked(s, P)[k] = s[i]
         /\ \A i \in P : \E k \in 1 .. Len(Picked(s, P)) : Picked(s, P)[k] = s[i]
  <1> DEFINE p == Picked(s, P)
  <1>1. s \in Seq(Event)
    BY DEF History
  <1>2. /\ p \in Seq(Event)
        /\ \E f \in [1 .. Len(p) -> P] :
              /\ \A k \in 1 .. Len(p) : p[k] = s[f[k]]
              /\ \A j, k \in 1 .. Len(p) : f[j] = f[k] => j = k
              /\ \A i \in P : \E k \in 1 .. Len(p) : f[k] = i
    BY <1>1, PickedElements
  <1> HIDE DEF p
  <1>3. PICK f \in [1 .. Len(p) -> P] :
              /\ \A k \in 1 .. Len(p) : p[k] = s[f[k]]
              /\ \A j, k \in 1 .. Len(p) : f[j] = f[k] => j = k
              /\ \A i \in P : \E k \in 1 .. Len(p) : f[k] = i
    BY <1>2
  <1>4. \A k \in 1 .. Len(p) : f[k] \in P /\ f[k] \in 1 .. Len(s)
    BY <1>3
  <1>5. /\ \A i \in 1 .. Len(s) : /\ s[i].id \in 1 .. n /\ s[i].at # 0
                                  /\ s[i].type = "supersede" => s[i].to \in Atoms
        /\ \A i, k \in 1 .. Len(s) : s[i].id = s[k].id => i = k
    BY DEF History
  <1>6. \A k \in 1 .. Len(p) : /\ p[k].id \in 1 .. n /\ p[k].at # 0
                               /\ p[k].type = "supersede" => p[k].to \in Atoms
    BY <1>3, <1>4, <1>5
  <1>7. ASSUME NEW j \in 1 .. Len(p), NEW k \in 1 .. Len(p), p[j].id = p[k].id
        PROVE  j = k
    <2>1. s[f[j]].id = s[f[k]].id
      BY <1>3, <1>7
    <2>2. f[j] = f[k]
      BY <1>4, <1>5, <2>1
    <2> QED
      BY <1>3, <2>2
  <1>8. History(p, n)
    BY <1>2, <1>6, <1>7 DEF History
  <1>9. /\ \A k \in 1 .. Len(p) : \E i \in P : p[k] = s[i]
        /\ \A i \in P : \E k \in 1 .. Len(p) : p[k] = s[i]
    <2>1. ASSUME NEW k \in 1 .. Len(p) PROVE \E i \in P : p[k] = s[i]
      BY <1>3, <1>4
    <2>2. ASSUME NEW i \in P PROVE \E k \in 1 .. Len(p) : p[k] = s[i]
      <3>1. PICK k \in 1 .. Len(p) : f[k] = i
        BY <1>3
      <3>2. p[k] = s[i]
        BY <1>3, <3>1
      <3> QED
        BY <3>2
    <2> QED
      BY <2>1, <2>2
  <1> QED
    BY <1>8, <1>9 DEF p

\* What the cloud keeps when it takes a part of an envelope.
LEMMA TakesSound ==
  ASSUME SyncInv, NEW d \in Devices, NEW n \in 1 .. Len(flight[d])
  PROVE  /\ Takes(d, n) \in Seq(Event) /\ History(Takes(d, n), ids)
         /\ \A i \in 1 .. Len(Takes(d, n)) : \E c \in Devices : Takes(d, n)[i].id \in IdsOf(log[c])
         /\ \A i \in 1 .. Len(cloud) : i \in 1 .. Len(Takes(d, n)) /\ Takes(d, n)[i] = cloud[i]
         /\ IdsOf(cloud) \subseteq IdsOf(Takes(d, n))
         /\ \A i \in 1 .. n : Refuses(flight[d][i]) \/ flight[d][i].id \in IdsOf(Takes(d, n))
  <1> DEFINE F == flight[d]
             P == {i \in 1 .. n : ~ Refuses(F[i]) /\ F[i].id \notin IdsOf(cloud)}
             p == Picked(F, P)
             t == cloud \o p
  <1>1. HistoriesSound /\ ids \in Nat /\ cloud \in Seq(Event)
    BY DEF SyncInv, TypeOK
  <1>2. History(F, ids) /\ IdsOf(F) \subseteq IdsOf(log[d]) /\ History(cloud, ids)
    BY <1>1 DEF HistoriesSound
  <1>3. Takes(d, n) = t
    BY DEF Takes
  <1>4. P \in SUBSET (1 .. Len(F)) /\ Len(F) \in Nat
    BY <1>2 DEF History
  <1>5. \A i \in P : F[i].id \notin IdsOf(cloud)
    OBVIOUS
  <1>6. \A i \in 1 .. n : i \in P \/ Refuses(F[i]) \/ F[i].id \in IdsOf(cloud)
    OBVIOUS
  <1> HIDE DEF P, F
  <1>7. /\ History(p, ids)
        /\ \A k \in 1 .. Len(p) : \E i \in P : p[k] = F[i]
        /\ \A i \in P : \E k \in 1 .. Len(p) : p[k] = F[i]
    BY <1>1, <1>2, <1>4, PickedHistory
  <1> HIDE DEF p
  <1>8. IdsOf(cloud) \cap IdsOf(p) = {}
    <2>1. ASSUME NEW x \in IdsOf(p) PROVE x \notin IdsOf(cloud)
      BY <1>5, <1>7 DEF IdsOf
    <2> QED
      BY <2>1
  <1>9. History(t, ids)
    BY <1>1, <1>2, <1>7, <1>8, CatHistory
  <1>10. p \in Seq(Event) /\ t \in Seq(Event)
    BY <1>7, <1>9 DEF History
  <1>11. /\ IdsOf(t) = IdsOf(cloud) \cup IdsOf(p)
         /\ \A i \in 1 .. Len(cloud) : i \in 1 .. Len(t) /\ t[i] = cloud[i]
    BY <1>1, <1>10, CatSets, CatElements
  <1>12. \A i \in P : F[i].id \in IdsOf(p)
    BY <1>7 DEF IdsOf
  <1>13. IdsOf(p) \subseteq IdsOf(log[d])
    <2>1. \A i \in P : F[i].id \in IdsOf(F)
      BY <1>4 DEF IdsOf
    <2>2. ASSUME NEW x \in IdsOf(p) PROVE x \in IdsOf(log[d])
      <3>1. PICK k \in 1 .. Len(p) : x = p[k].id
        BY DEF IdsOf
      <3> QED
        BY <1>2, <1>7, <2>1, <3>1
    <2> QED
      BY <2>2
  <1>14. ASSUME NEW x \in IdsOf(cloud) PROVE \E c \in Devices : x \in IdsOf(log[c])
    <2>1. PICK i \in 1 .. Len(cloud) : x = cloud[i].id
      BY DEF IdsOf
    <2>2. \E c \in Devices : cloud[i].id \in IdsOf(log[c])
      BY <1>1 DEF HistoriesSound
    <2> QED
      BY <2>1, <2>2
  <1>15. ASSUME NEW i \in 1 .. Len(t) PROVE \E c \in Devices : t[i].id \in IdsOf(log[c])
    <2>1. t[i].id \in IdsOf(t)
      BY DEF IdsOf
    <2> HIDE DEF t
    <2> QED
      BY <1>11, <1>13, <1>14, <2>1
  <1>16. \A i \in 1 .. n : Refuses(F[i]) \/ F[i].id \in IdsOf(t)
    BY <1>6, <1>11, <1>12
  <1> HIDE DEF t
  <1> QED
    BY <1>3, <1>9, <1>10, <1>11, <1>15, <1>16 DEF F

\* What a row of a batch says as it leaves the device.
LEMMA EnvelopeRow ==
  ASSUME SyncInv, NEW d \in Devices, NEW e \in Event, Shippable(d, e), e \in EventsOf(log[d], e.atom)
  PROVE  LET x == withCurrentScope(d, e)
         IN  /\ x \in Event /\ x.id = e.id /\ x.type = e.type /\ x.to = e.to /\ x.at = e.at
             /\ x.type \in {"create", "erase_request"} => x.scope = "shared"
  <1> DEFINE x == withCurrentScope(d, e)
  <1>1. TypeOK /\ ErasureWins
    BY DEF SyncInv
  <1>2. e.atom \in Atoms /\ e.scope \in Scopes
    BY DEF Event
  <1>3. row[d][e.atom] # NoRow => row[d][e.atom].scope \in Scopes
    BY <1>1, <1>2, Types
  <1>4. CASE e.type = "create" /\ row[d][e.atom] # NoRow
    <2>1. x = [e EXCEPT !.scope = row[d][e.atom].scope]
      BY <1>4 DEF withCurrentScope
    <2>2. row[d][e.atom].scope = "shared"
      BY <1>4 DEF Shippable
    <2> HIDE DEF x
    <2>3. /\ x.id = e.id /\ x.type = e.type /\ x.to = e.to /\ x.at = e.at /\ x.scope = "shared"
      BY <2>1, <2>2 DEF Event
    <2>4. x \in Event
      BY <1>3, <1>4, <2>1 DEF Event
    <2> QED
      BY <2>3, <2>4 DEF x
  <1>5. CASE ~ (e.type = "create" /\ row[d][e.atom] # NoRow)
    <2>1. x = e
      BY <1>5 DEF withCurrentScope
    <2>2. e.type # "create"
      BY <1>5 DEF Shippable
    <2>3. e.type = "erase_request" => row[d][e.atom] = NoRow
      <3>1. e.type = "erase_request" => Erased(log[d], e.atom)
        BY DEF EventsOf, Erased
      <3> QED
        BY <1>1, <1>2, <3>1 DEF ErasureWins
    <2>4. e.type = "erase_request" => e.scope = "shared"
      BY <2>3 DEF Shippable
    <2> HIDE DEF x
    <2> QED
      BY <2>1, <2>2, <2>4 DEF x
  <1> QED
    BY <1>4, <1>5

\* A round reads its batch.
LEMMA ShipStartKeeps ==
  ASSUME SyncInv, merge = NoMerge, NEW d \in Devices, ShipStart(d)
  PROVE  SyncInv' /\ UndoStep
  <1> DEFINE P    == {i \in 1 .. Len(log[d]) : Shippable(d, log[d][i])}
             rows == Picked(log[d], P)
             n    == IF Len(rows) < BatchSize THEN Len(rows) ELSE BatchSize
             F    == [i \in 1 .. n |-> withCurrentScope(d, rows[i])]
  <1>1. TypeOK /\ HistoriesSound /\ SyncedMeansStored /\ EnvelopesAreShared
    BY DEF SyncInv
  <1>2. History(log[d], ids) /\ ids \in Nat
    BY <1>1 DEF HistoriesSound, TypeOK
  <1>3. P \in SUBSET (1 .. Len(log[d])) /\ \A i \in P : Shippable(d, log[d][i])
    OBVIOUS
  <1>4. /\ flight' = [flight EXCEPT ![d] = F] /\ Rest(d) /\ cloud' = cloud /\ synced' = synced
        /\ refused' = refused /\ rejected' = rejected /\ spent' = spent /\ batches' = batches
    BY DEF ShipStart, Unsynced, Rest
  <1> HIDE DEF P
  <1>5. /\ History(rows, ids)
        /\ \A k \in 1 .. Len(rows) : \E i \in P : rows[k] = log[d][i]
    BY <1>2, <1>3, PickedHistory
  <1> HIDE DEF rows
  <1>6. rows \in Seq(Event) /\ Len(rows) \in Nat /\ n \in Nat /\ n <= Len(rows)
    BY <1>5, MemorySyncAssumption DEF History
  <1> HIDE DEF n
  <1>7. ASSUME NEW k \in 1 .. n
        PROVE  /\ k \in 1 .. Len(rows) /\ F[k] \in Event /\ F[k].id = rows[k].id
               /\ F[k].type = rows[k].type /\ F[k].to = rows[k].to /\ F[k].at = rows[k].at
               /\ F[k].type \in {"create", "erase_request"} => F[k].scope = "shared"
               /\ F[k].id \in IdsOf(log[d])
    <2>1. k \in 1 .. Len(rows)
      BY <1>6
    <2>2. PICK i \in P : rows[k] = log[d][i]
      BY <1>5, <2>1
    <2>3. /\ rows[k] \in Event /\ Shippable(d, rows[k]) /\ rows[k] \in EventsOf(log[d], rows[k].atom)
          /\ rows[k].id \in IdsOf(log[d])
      BY <1>3, <1>6, <2>1, <2>2 DEF EventsOf, IdsOf
    <2>4. F[k] = withCurrentScope(d, rows[k])
      OBVIOUS
    <2> HIDE DEF F
    <2> QED
      BY <2>1, <2>3, <2>4, EnvelopeRow
  <1>8. F \in Seq(Event) /\ Len(F) = n
    BY <1>6, <1>7
  <1> HIDE DEF F
  <1>9. History(F, ids)
    <2>1. /\ \A k \in 1 .. Len(rows) : /\ rows[k].id \in 1 .. ids /\ rows[k].at # 0
                                       /\ rows[k].type = "supersede" => rows[k].to \in Atoms
          /\ \A i, k \in 1 .. Len(rows) : rows[i].id = rows[k].id => i = k
      BY <1>5 DEF History
    <2>2. ASSUME NEW i \in 1 .. Len(F)
          PROVE  /\ F[i].id \in 1 .. ids /\ F[i].at # 0
                 /\ F[i].type = "supersede" => F[i].to \in Atoms
      BY <1>7, <1>8, <2>1
    <2>3. ASSUME NEW i \in 1 .. Len(F), NEW k \in 1 .. Len(F), F[i].id = F[k].id
          PROVE  i = k
      <3>1. rows[i].id = rows[k].id /\ i \in 1 .. Len(rows) /\ k \in 1 .. Len(rows)
        BY <1>7, <1>8, <2>3
      <3> QED
        BY <2>1, <3>1
    <2> QED
      BY <1>8, <2>2, <2>3 DEF History
  <1>10. IdsOf(F) \subseteq IdsOf(log[d])
    BY <1>7, <1>8 DEF IdsOf
  <1>11. /\ flight' \in [Devices -> Seq(Event)] /\ flight'[d] = F
         /\ \A c \in Devices \ {d} : flight'[c] = flight[c]
    BY <1>1, <1>4, <1>8 DEF TypeOK
  <1>12. TypeOK'
    BY <1>1, <1>4, <1>11 DEF TypeOK, Rest
  <1>13. /\ \A c \in Devices : History(flight'[c], ids)
         /\ \A c \in Devices : IdsOf(flight'[c]) \subseteq IdsOf(log[c])
    BY <1>1, <1>9, <1>10, <1>11 DEF HistoriesSound
  <1>14. /\ History(cloud', ids)
         /\ \A i \in 1 .. Len(cloud') : \E c \in Devices : cloud'[i].id \in IdsOf(log[c])
         /\ \A i \in 1 .. Len(cloud) : i \in 1 .. Len(cloud') /\ cloud'[i] = cloud[i]
    BY <1>1, <1>4 DEF HistoriesSound
  <1>15. SyncedMeansStored'
    BY <1>1, <1>4 DEF SyncedMeansStored
  <1>16. EnvelopesAreShared'
    <2>1. ASSUME NEW c \in Devices, NEW i \in 1 .. Len(flight'[c]),
                 flight'[c][i].type \in {"create", "erase_request"}
          PROVE  flight'[c][i].scope = "shared"
      <3>1. CASE c = d
        BY <1>7, <1>8, <1>11, <2>1, <3>1
      <3>2. CASE c # d
        BY <1>1, <1>11, <2>1, <3>2 DEF EnvelopesAreShared
      <3> QED
        BY <3>1, <3>2
    <2> QED
      BY <2>1 DEF EnvelopesAreShared
  <1> QED
    BY <1>4, <1>12, <1>13, <1>14, <1>15, <1>16, RestKeeps

\* The cloud grows by a part of an envelope, or not at all, and the envelope is gone.
LEMMA ShipEndKeeps ==
  ASSUME SyncInv, merge = NoMerge, NEW d \in Devices,
         UNCHANGED <<row, log, watermark, batches, refused, merge, ids>>, spent' \in Nat,
         cloud' = cloud \/ \E n \in 1 .. Len(flight[d]) : cloud' = Takes(d, n),
         flight' = [flight EXCEPT ![d] = <<>>],
         synced' \in [Devices -> SUBSET Nat], rejected' \in [Devices -> SUBSET Nat],
         \A c \in Devices : synced'[c] \subseteq synced[c] \cup IdsOf(cloud')
  PROVE  SyncInv' /\ UndoStep
  <1>1. TypeOK /\ HistoriesSound /\ SyncedMeansStored /\ EnvelopesAreShared
    BY DEF SyncInv
  <1>2. /\ cloud' \in Seq(Event) /\ History(cloud', ids)
        /\ \A i \in 1 .. Len(cloud') : \E c \in Devices : cloud'[i].id \in IdsOf(log[c])
        /\ \A i \in 1 .. Len(cloud) : i \in 1 .. Len(cloud') /\ cloud'[i] = cloud[i]
        /\ IdsOf(cloud) \subseteq IdsOf(cloud')
    <2>1. CASE cloud' = cloud
      BY <1>1, <2>1 DEF HistoriesSound, TypeOK
    <2>2. CASE \E n \in 1 .. Len(flight[d]) : cloud' = Takes(d, n)
      BY <2>2, TakesSound
    <2> QED
      BY <2>1, <2>2
  <1>3. /\ flight' \in [Devices -> Seq(Event)] /\ flight'[d] = <<>>
        /\ \A c \in Devices \ {d} : flight'[c] = flight[c]
    BY <1>1 DEF TypeOK
  <1>4. TypeOK'
    BY <1>1, <1>2, <1>3 DEF TypeOK
  <1>5. /\ \A c \in Devices : History(flight'[c], ids)
        /\ \A c \in Devices : IdsOf(flight'[c]) \subseteq IdsOf(log[c])
    <2>1. History(<<>>, ids) /\ IdsOf(<<>>) = {}
      BY DEF History, IdsOf
    <2> QED
      BY <1>1, <1>3, <2>1 DEF HistoriesSound
  <1>6. SyncedMeansStored'
    BY <1>1, <1>2 DEF SyncedMeansStored
  <1>7. EnvelopesAreShared'
    <2>1. ASSUME NEW c \in Devices, NEW i \in 1 .. Len(flight'[c]),
                 flight'[c][i].type \in {"create", "erase_request"}
          PROVE  flight'[c][i].scope = "shared"
      <3>1. c # d
        BY <1>3
      <3> QED
        BY <1>1, <1>3, <2>1, <3>1 DEF EnvelopesAreShared
    <2> QED
      BY <2>1 DEF EnvelopesAreShared
  <1>8. Rest(d)
    BY DEF Rest
  <1> QED
    BY <1>2, <1>4, <1>5, <1>6, <1>7, <1>8, RestKeeps

\* What the answer marks as synced is kept by the cloud: no refused row is among it.
LEMMA ShipAnsweredKeeps ==
  ASSUME SyncInv, merge = NoMerge, NEW d \in Devices, ShipAnswered(d)
  PROVE  SyncInv' /\ UndoStep
  <1>1. TypeOK /\ HistoriesSound /\ SyncedMeansStored
    BY DEF SyncInv
  <1>2. PICK n \in 1 .. Len(flight[d]) :
          /\ IF n = Len(flight[d]) THEN UNCHANGED spent ELSE Spend
          /\ cloud' = Takes(d, n)
          /\ synced' = [synced EXCEPT ![d] = @ \cup AckedRows(d, n)]
          /\ rejected' = [rejected EXCEPT ![d] = @ \cup RejectedSeqs(d, n)]
          /\ flight' = [flight EXCEPT ![d] = <<>>]
          /\ UNCHANGED <<row, log, watermark, batches, refused, merge, ids>>
    BY DEF ShipAnswered
  <1>3. flight[d] \in Seq(Event) /\ n \in Nat /\ n <= Len(flight[d]) /\ spent \in Nat
    BY <1>1 DEF TypeOK
  <1>4. \A i \in 1 .. n : flight[d][i] \in Event /\ flight[d][i].id \in Nat
    <2>1. \A i \in 1 .. n : flight[d][i] \in Event
      BY <1>3
    <2>2. \A e \in Event : e.id \in Nat
      BY DEF Event
    <2> QED
      BY <2>1, <2>2
  <1>5. RejectedSeqs(d, n) \subseteq Nat
    BY <1>4 DEF RejectedSeqs
  <1>6. ASSUME NEW x \in AckedRows(d, n)
        PROVE  \E i \in 1 .. n : x = flight[d][i].id /\ ~ Refuses(flight[d][i])
    <2>1. x \in IdsOf(SubSeq(flight[d], 1, n)) /\ x \notin RejectedSeqs(d, n)
      BY DEF AckedRows
    <2>2. Len(SubSeq(flight[d], 1, n)) = n /\ \A i \in 1 .. n : SubSeq(flight[d], 1, n)[i] = flight[d][i]
      BY <1>3
    <2>3. PICK i \in 1 .. n : x = flight[d][i].id
      BY <2>1, <2>2 DEF IdsOf
    <2>4. ~ Refuses(flight[d][i])
      BY <2>1, <2>3 DEF RejectedSeqs
    <2> QED
      BY <2>3, <2>4
  <1>7. AckedRows(d, n) \subseteq IdsOf(cloud')
    BY <1>2, <1>6, TakesSound
  <1>8. AckedRows(d, n) \subseteq Nat
    BY <1>4, <1>6
  <1>9. /\ synced' \in [Devices -> SUBSET Nat] /\ rejected' \in [Devices -> SUBSET Nat]
        /\ \A c \in Devices : synced'[c] \subseteq synced[c] \cup IdsOf(cloud')
    <2>1. synced \in [Devices -> SUBSET Nat] /\ rejected \in [Devices -> SUBSET Nat]
      BY <1>1 DEF TypeOK
    <2>2. synced' \in [Devices -> SUBSET Nat]
      BY <1>2, <1>8, <2>1
    <2>3. rejected' \in [Devices -> SUBSET Nat]
      BY <1>2, <1>5, <2>1
    <2>4. \A c \in Devices : synced'[c] \subseteq synced[c] \cup IdsOf(cloud')
      BY <1>2, <1>7, <2>1
    <2> QED
      BY <2>2, <2>3, <2>4
  <1>10. spent' \in Nat
    BY <1>2, <1>3 DEF Spend
  <1> QED
    BY <1>2, <1>9, <1>10, ShipEndKeeps

\* A request or an answer that is lost marks nothing.
LEMMA ShipFailedKeeps ==
  ASSUME SyncInv, merge = NoMerge, NEW d \in Devices, ShipFailed(d)
  PROVE  SyncInv' /\ UndoStep
  <1>1. TypeOK
    BY DEF SyncInv
  <1>2. /\ synced' \in [Devices -> SUBSET Nat] /\ rejected' \in [Devices -> SUBSET Nat]
        /\ \A c \in Devices : synced'[c] \subseteq synced[c] \cup IdsOf(cloud')
        /\ spent' \in Nat
    BY <1>1 DEF ShipFailed, TypeOK, Spend
  <1>3. cloud' = cloud \/ \E n \in 1 .. Len(flight[d]) : cloud' = Takes(d, n)
    BY DEF ShipFailed
  <1> QED
    BY <1>2, <1>3, ShipEndKeeps DEF ShipFailed

\* The cloud's refusals, and their repair, touch neither what is stored nor what is synced.
LEMMA RefusalsKeep ==
  ASSUME SyncInv, merge = NoMerge, NEW d \in Devices, CloudRefuses(d) \/ clearRejected(d)
  PROVE  SyncInv' /\ UndoStep
  <1>1. TypeOK /\ HistoriesSound /\ SyncedMeansStored /\ EnvelopesAreShared
    BY DEF SyncInv
  <1>2. Rest(d) /\ cloud' = cloud /\ flight' = flight /\ synced' = synced /\ batches' = batches
    BY DEF CloudRefuses, clearRejected, Rest
  <1>3. refused' \subseteq Nat /\ rejected' \in [Devices -> SUBSET Nat] /\ spent' \in Nat
    <2>0. /\ flight[d] \in Seq(Event) /\ refused \subseteq Nat /\ spent \in Nat
          /\ rejected \in [Devices -> SUBSET Nat]
      BY <1>1 DEF TypeOK
    <2>1. \A i \in 1 .. Len(flight[d]) : flight[d][i].id \in Nat
      <3>1. \A i \in 1 .. Len(flight[d]) : flight[d][i] \in Event
        BY <2>0
      <3>2. \A e \in Event : e.id \in Nat
        BY DEF Event
      <3> QED
        BY <3>1, <3>2
    <2>2. CASE CloudRefuses(d)
      <3>1. PICK i \in 1 .. Len(flight[d]) : refused' = refused \cup {flight[d][i].id}
        BY <2>2 DEF CloudRefuses
      <3>2. rejected' = rejected /\ spent' = spent + 1
        BY <2>2 DEF CloudRefuses, Spend
      <3>3. refused' \subseteq Nat
        BY <2>0, <2>1, <3>1
      <3>4. rejected' \in [Devices -> SUBSET Nat] /\ spent' \in Nat
        BY <2>0, <3>2
      <3> QED
        BY <3>3, <3>4
    <2>3. CASE clearRejected(d)
      <3>1. /\ refused' = refused \ rejected[d] /\ rejected' = [rejected EXCEPT ![d] = {}]
            /\ spent' = spent + 1
        BY <2>3 DEF clearRejected, Spend
      <3>2. refused' \subseteq Nat
        BY <2>0, <3>1
      <3>3. rejected' \in [Devices -> SUBSET Nat]
        BY <2>0, <3>1
      <3>4. spent' \in Nat
        BY <2>0, <3>1
      <3> QED
        BY <3>2, <3>3, <3>4
    <2> QED
      BY <2>2, <2>3
  <1>4. TypeOK'
    BY <1>1, <1>2, <1>3 DEF TypeOK, Rest
  <1>5. SyncedMeansStored' /\ EnvelopesAreShared'
    BY <1>1, <1>2 DEF SyncedMeansStored, EnvelopesAreShared
  <1>6. /\ History(cloud', ids) /\ \A c \in Devices : History(flight'[c], ids)
        /\ \A c \in Devices : IdsOf(flight'[c]) \subseteq IdsOf(log[c])
        /\ \A i \in 1 .. Len(cloud') : \E c \in Devices : cloud'[i].id \in IdsOf(log[c])
        /\ \A i \in 1 .. Len(cloud) : i \in 1 .. Len(cloud') /\ cloud'[i] = cloud[i]
    BY <1>1, <1>2 DEF HistoriesSound
  <1> QED
    BY <1>2, <1>4, <1>5, <1>6, RestKeeps

\* Every step of the shipper and the cloud keeps the invariant.
LEMMA ShipKeeps ==
  ASSUME SyncInv, merge = NoMerge, NEW d \in Devices, Ship(d)
  PROVE  SyncInv' /\ UndoStep
  BY ShipStartKeeps, ShipAnsweredKeeps, ShipFailedKeeps, RefusalsKeep DEF Ship

----------------------------------------------------------------------------
(* Pulling.                                                               *)

\* Steps of a pull transaction before it commits leave the rest of the system at rest.
Open == UNCHANGED <<row, log, synced, rejected, watermark, batches, flight, cloud, refused, ids>>

\* Such a step keeps the invariant when the copy it leaves open is sound.
LEMMA OpenKeeps ==
  ASSUME SyncInv, Open, spent' \in Nat, NEW m, merge' = m,
         m = NoMerge \/ (m \in Merge /\ CopySound(m))
  PROVE  SyncInv' /\ UndoStep
  <1>1. /\ TypeOK /\ HistoriesSound /\ RowsSound /\ ErasureWins /\ NoGap /\ SyncedMeansStored
        /\ EnvelopesAreShared
    BY DEF SyncInv
  <1>2. TypeOK'
    BY <1>1 DEF TypeOK, Open
  <1>3. HistoriesSound' /\ ErasureWins' /\ NoGap'
    BY <1>1 DEF HistoriesSound, ErasureWins, NoGap, Open
  <1>4. SyncedMeansStored' /\ EnvelopesAreShared'
    BY <1>1 DEF SyncedMeansStored, EnvelopesAreShared, Open
  <1>5. RowsSound'
    BY <1>1 DEF RowsSound, Open, Own, OwnIn, OwnRow
  <1>6. MergeSound'
    <2>1. CASE m = NoMerge
      BY <2>1 DEF MergeSound
    <2>2. CASE CopySound(m)
      <3>1. CopySound(merge)'
        <4>1. merge' = m /\ row' = row /\ log' = log /\ cloud' = cloud /\ ids' = ids
          BY DEF Open
        <4>2. \A s, a : OwnIn(m.dev, s, a)' <=> OwnIn(m.dev, s, a)
          BY <4>1 DEF OwnIn
        <4>3. /\ History(m.log, m.ids) /\ ids' <= m.ids
              /\ \A i \in 1 .. Len(log'[m.dev]) : i <= Len(m.log) /\ m.log[i] = log'[m.dev][i]
              /\ \A a \in m.touched : \E i \in 1 .. Len(m.fresh) : m.fresh[i].atom = a
              /\ \A i \in 1 .. m.cursor : i <= Len(cloud') /\ cloud'[i].id \in IdsOf(m.log)
          BY <2>2, <4>1 DEF CopySound
        <4>4. /\ \A i \in 1 .. Len(m.stack) : \A e \in m.stack[i].losers :
                   e.type = "supersede" /\ \E k \in 1 .. Len(m.log) : m.log[k] = e
              /\ m.stack # <<>> => m.stack[1].losers # {}
              /\ \A a \in Atoms : Erased(m.log, a) => m.row[a] = NoRow \/ a \in m.touched
          BY <2>2 DEF CopySound
        <4>5. \A a \in Atoms : row'[m.dev][a] # NoRow =>
                \/ m.row[a] = NoRow /\ Erased(m.log, a)
                \/ /\ m.row[a] # NoRow /\ m.row[a].from = row'[m.dev][a].from
                   /\ row'[m.dev][a].to # 0 => m.row[a].to # 0
          BY <2>2, <4>1 DEF CopySound
        <4>6. \A a \in Atoms : OwnIn(m.dev, m.log, a) =>
                /\ a \notin m.touched /\ m.row[a] = row'[m.dev][a]
                /\ \A k \in Len(log'[m.dev]) + 1 .. Len(m.log) : m.log[k].atom # a
          BY <2>2, <4>1 DEF CopySound
        <4> QED
          BY SMTT(60), <4>1, <4>2, <4>3, <4>4, <4>5, <4>6 DEF CopySound
      <3> QED
        BY <3>1 DEF MergeSound
    <2> QED
      BY <2>1, <2>2
  <1>7. UndoStep
    BY DEF UndoStep, Open, Valid
  <1> QED
    BY <1>2, <1>3, <1>4, <1>5, <1>6, <1>7 DEF SyncInv

\* A pull begins with a sound copy: what it fetched is of other devices, the atoms of it are
\* to be recomputed, and every event up to its cursor is in its log.
LEMMA PullStartKeeps ==
  ASSUME SyncInv, NEW d \in Devices, PullStart(d)
  PROVE  SyncInv' /\ UndoStep
  <1>0. TypeOK /\ HistoriesSound /\ ErasureWins /\ NoGap
    BY DEF SyncInv
  <1>1. PICK seen \in watermark[d] + 1 .. Len(cloud) :
          LET last  == IF watermark[d] + BatchSize < seen THEN watermark[d] + BatchSize ELSE seen
              fresh == Picked(cloud, {i \in watermark[d] + 1 .. last : cloud[i].id \notin IdsOf(log[d])})
          IN
          /\ IF seen = Len(cloud) THEN UNCHANGED spent ELSE Spend
          /\ merge' = [dev |-> d, fresh |-> fresh, log |-> log[d] \o fresh,
                       row |-> [a \in Atoms |-> IF a \in Materialized(d, fresh)
                                                THEN NewRow(CreateOf(fresh, a).scope, CreateOf(fresh, a).at)
                                                ELSE row[d][a]],
                       touched |-> {fresh[i].atom : i \in 1 .. Len(fresh)},
                       stack |-> <<>>, cursor |-> IF last = seen THEN 0 ELSE last, ids |-> ids]
          /\ Open
    BY DEF PullStart, Open
  <1> DEFINE last  == IF watermark[d] + BatchSize < seen THEN watermark[d] + BatchSize ELSE seen
             P     == {i \in watermark[d] + 1 .. last : cloud[i].id \notin IdsOf(log[d])}
             fresh == Picked(cloud, P)
             L     == log[d] \o fresh
             M     == Materialized(d, fresh)
             t     == [a \in Atoms |-> IF a \in M
                                       THEN NewRow(CreateOf(fresh, a).scope, CreateOf(fresh, a).at)
                                       ELSE row[d][a]]
             T     == {fresh[i].atom : i \in 1 .. Len(fresh)}
             cur   == IF last = seen THEN 0 ELSE last
             m     == [dev |-> d, fresh |-> fresh, log |-> L, row |-> t, touched |-> T,
                       stack |-> <<>>, cursor |-> cur, ids |-> ids]
  <1>2. merge' = m /\ Open /\ IF seen = Len(cloud) THEN UNCHANGED spent ELSE Spend
    BY <1>1
  <1>3. /\ cloud \in Seq(Event) /\ Len(cloud) \in Nat /\ watermark[d] \in Nat /\ seen \in Nat
        /\ log[d] \in Seq(Event) /\ row[d] \in Table /\ ids \in Nat /\ spent \in Nat
        /\ History(cloud, ids) /\ History(log[d], ids)
    BY <1>0 DEF TypeOK, HistoriesSound
  <1>4. last \in Nat /\ last <= Len(cloud) /\ watermark[d] < last /\ cur \in Nat /\ cur <= last
    BY <1>3, MemorySyncAssumption
  <1> HIDE DEF last
  <1>5. P \in SUBSET (1 .. Len(cloud))
    BY <1>3, <1>4
  <1>6. /\ \A i \in P : cloud[i].id \notin IdsOf(log[d])
        /\ \A i \in watermark[d] + 1 .. last : i \in P \/ cloud[i].id \in IdsOf(log[d])
    OBVIOUS
  <1> HIDE DEF P, cur
  <1>7. /\ History(fresh, ids)
        /\ \A k \in 1 .. Len(fresh) : \E i \in P : fresh[k] = cloud[i]
        /\ \A i \in P : \E k \in 1 .. Len(fresh) : fresh[k] = cloud[i]
    BY <1>3, <1>5, PickedHistory
  <1> HIDE DEF fresh
  <1>8. fresh \in Seq(Event) /\ \A k \in 1 .. Len(fresh) : fresh[k] \in Event
    BY <1>7 DEF History
  <1>9. ASSUME NEW k \in 1 .. Len(fresh)
        PROVE  /\ fresh[k].id \notin IdsOf(log[d])
               /\ \E c \in Devices \ {d} : fresh[k].id \in IdsOf(log[c])
    <2>1. PICK i \in P : fresh[k] = cloud[i]
      BY <1>7
    <2>2. \E c \in Devices : cloud[i].id \in IdsOf(log[c])
      BY <1>0, <1>5 DEF HistoriesSound
    <2> QED
      BY <1>6, <2>1, <2>2
  <1>10. IdsOf(log[d]) \cap IdsOf(fresh) = {}
    BY <1>9 DEF IdsOf
  <1>11. History(L, ids)
    BY <1>3, <1>7, <1>10, CatHistory
  <1>12. /\ L \in Seq(Event) /\ Len(L) \in Nat
         /\ \A i \in 1 .. Len(log[d]) : i \in 1 .. Len(L) /\ L[i] = log[d][i]
         /\ \A i \in 1 .. Len(fresh) : Len(log[d]) + i \in 1 .. Len(L) /\ L[Len(log[d]) + i] = fresh[i]
         /\ \A k \in 1 .. Len(L) :
              k \in 1 .. Len(log[d]) \/ \E i \in 1 .. Len(fresh) : k = Len(log[d]) + i
    <2> DEFINE s == log[d]
    <2>1. s \in Seq(Event) /\ L = s \o fresh
      BY <1>3
    <2> HIDE DEF s, L
    <2>2. /\ L \in Seq(Event) /\ Len(L) \in Nat
          /\ \A i \in 1 .. Len(s) : i \in 1 .. Len(L) /\ L[i] = s[i]
          /\ \A i \in 1 .. Len(fresh) : Len(s) + i \in 1 .. Len(L) /\ L[Len(s) + i] = fresh[i]
          /\ \A k \in 1 .. Len(L) : k \in 1 .. Len(s) \/ \E i \in 1 .. Len(fresh) : k = Len(s) + i
      BY <1>8, <2>1, CatElements
    <2> QED
      BY <2>2 DEF s
  <1>13. /\ IdsOf(L) = IdsOf(log[d]) \cup IdsOf(fresh)
         /\ \A a : EventsOf(L, a) = EventsOf(log[d], a) \cup EventsOf(fresh, a)
         /\ \A a : Erased(L, a) <=> Erased(log[d], a) \/ Erased(fresh, a)
    BY <1>3, <1>8, CatSets
  <1> HIDE DEF L
  <1>14. T \subseteq Atoms /\ \A a \in T : \E i \in 1 .. Len(fresh) : fresh[i].atom = a
    BY <1>8 DEF Event
  <1>15. \A i \in 1 .. Len(fresh) : fresh[i].atom \in T
    OBVIOUS
  <1>16. M \subseteq T /\ \A a \in M : row[d][a] = NoRow
    BY <1>15 DEF Materialized
  <1>17. ASSUME NEW a \in M
         PROVE  NewRow(CreateOf(fresh, a).scope, CreateOf(fresh, a).at) \in Row
    <2>1. \E i \in 1 .. Len(fresh) : fresh[i].atom = a /\ fresh[i].type = "create"
      BY DEF Materialized
    <2>2. PICK i \in 1 .. Len(fresh) : CreateOf(fresh, a) = fresh[i]
      BY <2>1 DEF CreateOf
    <2>3. CreateOf(fresh, a).scope \in Scopes /\ CreateOf(fresh, a).at \in Nat
      BY <1>8, <2>2 DEF Event
    <2> QED
      BY <2>3, MemorySyncAssumption DEF NewRow, Row
  <1>18. t \in Table
    <2>1. \A a \in Atoms : row[d][a] \in {NoRow} \cup Row
      BY <1>3 DEF Table
    <2> HIDE DEF M
    <2> QED
      BY <1>17, <2>1 DEF Table
  <1>19. \A a \in Atoms \ M : t[a] = row[d][a]
    OBVIOUS
  <1> HIDE DEF T, M, t
  <1>20. \A a \in T : ~ OwnIn(d, L, a)
    <2> TAKE a \in T
    <2>1. PICK i \in 1 .. Len(fresh) : fresh[i].atom = a
      BY <1>14
    <2>2. fresh[i] \in EventsOf(fresh, a)
      BY <2>1 DEF EventsOf
    <2>3. fresh[i] \in EventsOf(L, a)
      BY <1>13, <2>2
    <2> QED
      BY <1>9, <2>3 DEF OwnIn
  <1>21. m \in Merge
    BY <1>4, <1>8, <1>12, <1>14, <1>18, <1>3 DEF Merge
  <1>22. /\ m.dev = d /\ m.fresh = fresh /\ m.log = L /\ m.row = t /\ m.touched = T
         /\ m.stack = <<>> /\ m.cursor = cur /\ m.ids = ids
    OBVIOUS
  <1> HIDE DEF m
  <1>23. \A i \in 1 .. cur : i <= Len(cloud) /\ cloud[i].id \in IdsOf(L)
    <2> TAKE i \in 1 .. cur
    <2>1. i \in Nat /\ i <= last /\ i <= Len(cloud) /\ 1 <= i
      BY <1>3, <1>4
    <2>2. CASE i <= watermark[d]
      BY <1>0, <1>3, <1>13, <2>1, <2>2 DEF NoGap
    <2>3. CASE i > watermark[d]
      <3>1. i \in P \/ cloud[i].id \in IdsOf(log[d])
        BY <1>3, <1>4, <1>6, <2>1, <2>3
      <3>2. i \in P => cloud[i].id \in IdsOf(fresh)
        BY <1>7 DEF IdsOf
      <3> QED
        BY <1>13, <2>1, <3>1, <3>2
    <2> QED
      BY <1>3, <2>1, <2>2, <2>3
  <1>24. \A a \in Atoms : Erased(L, a) => t[a] = NoRow \/ a \in T
    <2> TAKE a \in Atoms
    <2>1. Erased(fresh, a) => a \in T
      BY <1>15 DEF Erased
    <2>2. Erased(log[d], a) => row[d][a] = NoRow
      BY <1>0 DEF ErasureWins
    <2> QED
      BY <1>13, <1>16, <1>19, <2>1, <2>2
  <1>25. \A a \in Atoms : row[d][a] # NoRow => t[a] = row[d][a]
    BY <1>16, <1>19
  <1>26. ASSUME NEW a \in Atoms, OwnIn(d, L, a)
         PROVE  /\ a \notin T /\ t[a] = row[d][a]
                /\ \A k \in Len(log[d]) + 1 .. Len(L) : L[k].atom # a
    <2>1. a \notin T
      BY <1>20, <1>26
    <2>2. t[a] = row[d][a]
      BY <1>16, <1>19, <2>1
    <2>3. ASSUME NEW k \in Len(log[d]) + 1 .. Len(L) PROVE L[k].atom # a
      <3>1. Len(log[d]) \in Nat /\ k \in 1 .. Len(L) /\ k \notin 1 .. Len(log[d])
        BY <1>3, <1>12
      <3>2. PICK i \in 1 .. Len(fresh) : k = Len(log[d]) + i
        BY <1>12, <3>1
      <3>3. L[k] = fresh[i]
        BY <1>12, <3>2
      <3> QED
        BY <1>15, <2>1, <3>3
    <2> QED
      BY <2>1, <2>2, <2>3
  <1>27. CopySound(m)
    <2>1. History(m.log, m.ids) /\ ids <= m.ids
      BY <1>3, <1>11, <1>22
    <2>2. /\ \A i \in 1 .. Len(log[m.dev]) : i <= Len(m.log) /\ m.log[i] = log[m.dev][i]
          /\ \A a \in m.touched : \E i \in 1 .. Len(m.fresh) : m.fresh[i].atom = a
          /\ \A i \in 1 .. m.cursor : i <= Len(cloud) /\ cloud[i].id \in IdsOf(m.log)
      BY <1>12, <1>14, <1>22, <1>23
    <2>3. /\ \A i \in 1 .. Len(m.stack) : \A e \in m.stack[i].losers :
               e.type = "supersede" /\ \E k \in 1 .. Len(m.log) : m.log[k] = e
          /\ m.stack # <<>> => m.stack[1].losers # {}
      BY <1>22
    <2>4. /\ \A a \in Atoms : Erased(m.log, a) => m.row[a] = NoRow \/ a \in m.touched
          /\ \A a \in Atoms : row[m.dev][a] # NoRow =>
               \/ m.row[a] = NoRow /\ Erased(m.log, a)
               \/ /\ m.row[a] # NoRow /\ m.row[a].from = row[m.dev][a].from
                  /\ row[m.dev][a].to # 0 => m.row[a].to # 0
      BY <1>22, <1>24, <1>25
    <2>5. \A a \in Atoms : OwnIn(m.dev, m.log, a) =>
            /\ a \notin m.touched /\ m.row[a] = row[m.dev][a]
            /\ \A k \in Len(log[m.dev]) + 1 .. Len(m.log) : m.log[k].atom # a
      BY <1>22, <1>26
    <2> QED
      BY <2>1, <2>2, <2>3, <2>4, <2>5 DEF CopySound
  <1>28. spent' \in Nat
    BY <1>2, <1>3 DEF Spend
  <1> QED
    BY <1>2, <1>21, <1>27, <1>28, OpenKeeps

\* The earliest time of some events of a log, and the one that wins the tie-break.
LEMMA TieBreak ==
  ASSUME NEW n, NEW s, History(s, n), NEW E, E # {}, \A e \in E : \E k \in 1 .. Len(s) : s[k] = e
  PROVE  /\ MinAt(E) \in Nat \ {0}
         /\ maxByTieBreak(E, s) \in E /\ maxByTieBreak(E, s) \in Event
  <1>1. IsFiniteSet(E) /\ E \subseteq Event /\ \A e, f \in E : e.id = f.id => e = f
    BY EventsFinite
  <1>2. /\ \E x \in E : \A f \in E \ {x} : Earlier(f, x)
        /\ \E x \in E : \A f \in E : x.at <= f.at
    BY <1>1, EventEnds
  <1>3. maxByTieBreak(E, s) \in E
    BY <1>2 DEF maxByTieBreak
  <1>4. \A e \in E : e.at \in Nat \ {0}
    BY <1>1 DEF History, Event
  <1>5. MinAt(E) \in Nat \ {0}
    BY <1>2, <1>4 DEF MinAt
  <1> QED
    BY <1>1, <1>3, <1>5

\* The supersede and invalidate events of an atom are in its log.
LEMMA Kinds ==
  ASSUME NEW n, NEW s, History(s, n), NEW a
  PROVE  /\ \A e \in Supersedes(s, a) : /\ e.type = "supersede" /\ e.to \in Atoms /\ e.atom = a
                                        /\ \E k \in 1 .. Len(s) : s[k] = e
         /\ \A e \in Invalidates(s, a) : \E k \in 1 .. Len(s) : s[k] = e
  <1>1. ASSUME NEW e \in Supersedes(s, a)
        PROVE  /\ e.type = "supersede" /\ e.to \in Atoms /\ e.atom = a
               /\ \E k \in 1 .. Len(s) : s[k] = e
    <2>1. e \in EventsOf(s, a) /\ e.type = "supersede"
      BY DEF Supersedes
    <2>2. PICK k \in 1 .. Len(s) : s[k] = e /\ e.atom = a
      BY <2>1, InEventsOf
    <2>3. e.to \in Atoms
      BY <2>1, <2>2 DEF History
    <2> QED
      BY <2>1, <2>2, <2>3
  <1>2. ASSUME NEW e \in Invalidates(s, a) PROVE \E k \in 1 .. Len(s) : s[k] = e
    <2>1. e \in EventsOf(s, a)
      BY DEF Invalidates
    <2> QED
      BY <2>1, InEventsOf
  <1> QED
    BY <1>1, <1>2

\* The row a recomputation writes: none for an atom that is erased or has none, and else a
\* row with the same beginning that stays hidden if it was.
LEMMA ProjectedRow ==
  ASSUME NEW m, NEW n, History(m.log, n), m.row \in Table, NEW a \in Atoms
  PROVE  /\ Projected(m, a) \in {NoRow} \cup Row
         /\ Erased(m.log, a) \/ m.row[a] = NoRow => Projected(m, a) = NoRow
         /\ ~ Erased(m.log, a) /\ m.row[a] # NoRow =>
              /\ Projected(m, a) # NoRow /\ Projected(m, a).from = m.row[a].from
              /\ m.row[a].to # 0 => Projected(m, a).to # 0
  <1> DEFINE r == m.row[a]
             p == Projected(m, a)
             S == Supersedes(m.log, a)
             I == Invalidates(m.log, a)
             w == maxByTieBreak(S, m.log)
  <1>1. CASE Erased(m.log, a) \/ r = NoRow
    BY <1>1 DEF Projected
  <1>2. CASE ~ (Erased(m.log, a) \/ r = NoRow)
    <2>1. r \in Row /\ r # NoRow
      BY <1>2 DEF Table
    <2>2. CASE S # {}
      <3>1. MinAt(S) \in Nat \ {0} /\ w \in S
        BY <2>2, TieBreak, Kinds
      <3>2. w.to \in Atoms
        BY <3>1, Kinds
      <3>3. p = [r EXCEPT !.to = MinAt(S), !.by = w.to]
        BY <1>2, <2>2 DEF Projected
      <3> HIDE DEF p, r, w, S
      <3>4. p.to = MinAt(S) /\ p.from = r.from
        BY <2>1, <3>3 DEF Row
      <3>5. p \in Row
        BY <2>1, <3>1, <3>2, <3>3 DEF Row
      <3> QED
        BY <1>2, <3>1, <3>4, <3>5, RowIsThere DEF p, r
    <2>3. CASE S = {} /\ I # {}
      <3>1. MinAt(I) \in Nat \ {0}
        BY <2>3, TieBreak, Kinds
      <3>2. p = [r EXCEPT !.to = MinAt(I)]
        BY <1>2, <2>3 DEF Projected
      <3> HIDE DEF p, r, w, S, I
      <3>3. p.to = MinAt(I) /\ p.from = r.from
        BY <2>1, <3>2 DEF Row
      <3>4. p \in Row
        BY <2>1, <3>1, <3>2 DEF Row
      <3> QED
        BY <1>2, <3>1, <3>3, <3>4, RowIsThere DEF p, r
    <2>4. CASE S = {} /\ I = {}
      <3>1. p = r
        BY <1>2, <2>4 DEF Projected
      <3> QED
        BY <1>2, <2>1, <3>1
    <2> QED
      BY <2>2, <2>3, <2>4
  <1> QED
    BY <1>1, <1>2

\* What is left of the calls when those that are done have returned.
LEMMA ReturnedCalls ==
  ASSUME NEW st \in Seq(Frame)
  PROVE  /\ Returned(st) \in Seq(Frame)
         /\ \A i \in 1 .. Len(Returned(st)) : \E k \in 1 .. Len(st) : Returned(st)[i] = st[k]
         /\ Returned(st) # <<>> => Returned(st)[1].losers # {}
  <1> DEFINE live == {i \in 1 .. Len(st) : st[i].losers # {}}
             j    == CHOOSE i \in live : \A k \in live : i <= k
  <1>1. CASE live = {}
    <2>1. Returned(st) = <<>>
      BY <1>1 DEF Returned
    <2> QED
      BY <2>1
  <1>2. CASE live # {}
    <2>1. IsFiniteSet(live) /\ live # {} /\ \A i \in live : i \in Nat
      <3>1. live \in SUBSET (1 .. Len(st)) /\ Len(st) \in Nat /\ live # {}
        BY <1>2
      <3> HIDE DEF live
      <3>2. IsFiniteSet(live)
        BY <3>1, PlacesFinite
      <3> QED
        BY <3>1, <3>2
    <2>2. j \in live
      <3> HIDE DEF live
      <3>1. \E i \in live : \A k \in live : i <= k
        BY <2>1, Ends
      <3> QED
        BY <3>1
    <2>3. Returned(st) = SubSeq(st, j, Len(st))
      BY <1>2 DEF Returned
    <2>4. j \in 1 .. Len(st) /\ st[j].losers # {} /\ Len(st) \in Nat
      <3>1. \A i \in live : i \in 1 .. Len(st) /\ st[i].losers # {}
        OBVIOUS
      <3> HIDE DEF j, live
      <3> QED
        BY <2>2, <3>1
    <2> HIDE DEF j, live
    <2> DEFINE u == SubSeq(st, j, Len(st))
    <2>5. u \in Seq(Frame) /\ Len(u) = Len(st) - j + 1
      BY <2>4
    <2>6. \A i \in 1 .. Len(u) : u[i] = st[j + i - 1] /\ j + i - 1 \in 1 .. Len(st)
      BY <2>4
    <2>7. u[1] = st[j]
      BY <2>4, <2>5, <2>6
    <2> HIDE DEF u
    <2>8. \A i \in 1 .. Len(u) : \E k \in 1 .. Len(st) : u[i] = st[k]
      BY <2>6
    <2> QED
      BY <2>3, <2>4, <2>5, <2>7, <2>8 DEF u
  <1> QED
    BY <1>1, <1>2

\* A copy in which one atom, which is not the device's own, is about to be recomputed.
CopyPending(m, a) ==
  /\ History(m.log, m.ids) /\ ids <= m.ids
  /\ \A i \in 1 .. Len(log[m.dev]) : i <= Len(m.log) /\ m.log[i] = log[m.dev][i]
  /\ \A b \in m.touched : \E i \in 1 .. Len(m.fresh) : m.fresh[i].atom = b
  /\ \A i \in 1 .. m.cursor : i <= Len(cloud) /\ cloud[i].id \in IdsOf(m.log)
  /\ \A i \in 1 .. Len(m.stack) : \A e \in m.stack[i].losers :
       e.type = "supersede" /\ \E k \in 1 .. Len(m.log) : m.log[k] = e
  /\ \A b \in Atoms \ {a} : Erased(m.log, b) => m.row[b] = NoRow \/ b \in m.touched
  /\ \A b \in Atoms : row[m.dev][b] # NoRow =>
       \/ m.row[b] = NoRow /\ Erased(m.log, b)
       \/ /\ m.row[b] # NoRow /\ m.row[b].from = row[m.dev][b].from
          /\ row[m.dev][b].to # 0 => m.row[b].to # 0
  /\ \A b \in Atoms : OwnIn(m.dev, m.log, b) =>
       /\ b \notin m.touched /\ m.row[b] = row[m.dev][b]
       /\ \A k \in Len(log[m.dev]) + 1 .. Len(m.log) : m.log[k].atom # b
  /\ ~ OwnIn(m.dev, m.log, a)

\* A recomputation makes the copy sound again.
LEMMA RecomputeSound ==
  ASSUME NEW m \in Merge, NEW a \in Atoms, CopyPending(m, a)
  PROVE  recomputeProjection(m, a) \in Merge /\ CopySound(recomputeProjection(m, a))
  <1> DEFINE p == Projected(m, a)
             S == Supersedes(m.log, a)
             W == maxByTieBreak(S, m.log)
             X == Losers(m, a)
             f == [winner |-> W.to, losers |-> X]
             st == IF X = {} THEN Returned(m.stack) ELSE <<f>> \o m.stack
             q == recomputeProjection(m, a)
  <1>1. /\ m.row \in Table /\ m.stack \in Seq(Frame) /\ m.dev \in Devices /\ m.log \in Seq(Event)
        /\ m.fresh \in Seq(Event) /\ m.touched \subseteq Atoms /\ m.cursor \in Nat /\ m.ids \in Nat
    BY DEF Merge
  <1>2. /\ p \in {NoRow} \cup Row
        /\ Erased(m.log, a) \/ m.row[a] = NoRow => p = NoRow
        /\ ~ Erased(m.log, a) /\ m.row[a] # NoRow =>
              /\ p # NoRow /\ p.from = m.row[a].from
              /\ m.row[a].to # 0 => p.to # 0
    BY <1>1, ProjectedRow DEF CopyPending
  <1>3. \A e \in X : e \in S
    BY DEF Losers
  <1>4. \A e \in S : e \in Event /\ e.type = "supersede" /\ \E k \in 1 .. Len(m.log) : m.log[k] = e
    <2>1. \A e \in S : e.type = "supersede" /\ \E k \in 1 .. Len(m.log) : m.log[k] = e
      BY Kinds DEF CopyPending
    <2> HIDE DEF S
    <2> QED
      BY <1>1, <2>1
  <1>5. S # {} => W.to \in Atoms
    <2>1. S # {} => W \in S
      BY TieBreak, Kinds DEF CopyPending
    <2> QED
      BY <2>1, Kinds DEF CopyPending
  <1>6. /\ q = [m EXCEPT !.row = [m.row EXCEPT ![a] = p], !.stack = st]
    BY DEF recomputeProjection
  <1> HIDE DEF p, S, W, X, q
  <1>7. X # {} => f \in Frame /\ f.losers = X
    BY <1>3, <1>4, <1>5 DEF Frame
  <1> HIDE DEF f
  <1>8. /\ st \in Seq(Frame)
        /\ \A i \in 1 .. Len(st) : \A e \in st[i].losers :
             e.type = "supersede" /\ \E k \in 1 .. Len(m.log) : m.log[k] = e
        /\ st # <<>> => st[1].losers # {}
    <2>0. \A i \in 1 .. Len(m.stack) : \A e \in m.stack[i].losers :
             e.type = "supersede" /\ \E k \in 1 .. Len(m.log) : m.log[k] = e
      BY DEF CopyPending
    <2>1. CASE X = {}
      <3>1. st = Returned(m.stack)
        BY <2>1
      <3> HIDE DEF st
      <3> QED
        <4> DEFINE t == m.stack
        <4>1. t \in Seq(Frame)
          BY <1>1
        <4>2. \A i \in 1 .. Len(t) : \A e \in t[i].losers :
                e.type = "supersede" /\ \E k \in 1 .. Len(m.log) : m.log[k] = e
          BY <2>0
        <4>3. st = Returned(t)
          BY <3>1
        <4> HIDE DEF t
        <4>4. /\ Returned(t) \in Seq(Frame)
              /\ \A i \in 1 .. Len(Returned(t)) : \E k \in 1 .. Len(t) : Returned(t)[i] = t[k]
              /\ Returned(t) # <<>> => Returned(t)[1].losers # {}
          BY <4>1, ReturnedCalls
        <4>5. ASSUME NEW i \in 1 .. Len(st), NEW e \in st[i].losers
              PROVE  e.type = "supersede" /\ \E k \in 1 .. Len(m.log) : m.log[k] = e
          <5>1. PICK k \in 1 .. Len(t) : st[i] = t[k]
            BY <4>3, <4>4
          <5> QED
            BY <4>2, <5>1
        <4>6. st \in Seq(Frame) /\ (st # <<>> => st[1].losers # {})
          BY <4>3, <4>4
        <4> QED
          BY <4>5, <4>6
    <2>2. CASE X # {}
      <3>1. st = <<f>> \o m.stack /\ <<f>> \in Seq(Frame) /\ Len(<<f>>) = 1 /\ <<f>>[1] = f
        BY <1>7, <2>2
      <3> DEFINE one == <<f>>
      <3>2. one \in Seq(Frame) /\ Len(one) = 1 /\ one[1] = f /\ st = one \o m.stack
        BY <3>1
      <3> HIDE DEF st, one
      <3>3. /\ st \in Seq(Frame)
            /\ \A i \in 1 .. Len(one) : i \in 1 .. Len(st) /\ st[i] = one[i]
            /\ \A k \in 1 .. Len(st) :
                 \/ k \in 1 .. Len(one)
                 \/ \E i \in 1 .. Len(m.stack) : k = Len(one) + i /\ st[k] = m.stack[i]
        <4> DEFINE s == m.stack
        <4>1. s \in Seq(Frame) /\ one \in Seq(Frame) /\ st = one \o s
          BY <1>1, <3>2
        <4> HIDE DEF s
        <4>2. /\ st \in Seq(Frame)
              /\ \A i \in 1 .. Len(one) : i \in 1 .. Len(st) /\ st[i] = one[i]
              /\ \A i \in 1 .. Len(s) : Len(one) + i \in 1 .. Len(st) /\ st[Len(one) + i] = s[i]
              /\ \A k \in 1 .. Len(st) :
                   k \in 1 .. Len(one) \/ \E i \in 1 .. Len(s) : k = Len(one) + i
          BY <4>1, CatElements
        <4>3. ASSUME NEW k \in 1 .. Len(st), k \notin 1 .. Len(one)
              PROVE  \E i \in 1 .. Len(s) : k = Len(one) + i /\ st[k] = s[i]
          BY <4>2, <4>3
        <4> QED
          BY <4>2, <4>3 DEF s
      <3>4. st[1] = f
        BY <3>2, <3>3
      <3>5. ASSUME NEW i \in 1 .. Len(st), NEW e \in st[i].losers
            PROVE  e.type = "supersede" /\ \E k \in 1 .. Len(m.log) : m.log[k] = e
        <4>1. CASE i \in 1 .. Len(one)
          <5>1. i = 1
            BY <3>2, <4>1
          <5>2. e \in X
            BY <1>7, <2>2, <3>4, <3>5, <5>1
          <5> QED
            BY <1>3, <1>4, <5>2
        <4>2. CASE \E k \in 1 .. Len(m.stack) : i = Len(one) + k /\ st[i] = m.stack[k]
          BY <2>0, <3>5, <4>2
        <4> QED
          BY <3>3, <4>1, <4>2
      <3> QED
        BY <1>7, <2>2, <3>3, <3>4, <3>5
    <2> QED
      BY <2>1, <2>2
  <1> HIDE DEF st
  <1>9. [m.row EXCEPT ![a] = p] \in Table
    BY <1>1, <1>2 DEF Table
  <1>10. /\ q \in Merge /\ q.dev = m.dev /\ q.fresh = m.fresh /\ q.log = m.log
         /\ q.touched = m.touched /\ q.cursor = m.cursor /\ q.ids = m.ids
         /\ q.row = [m.row EXCEPT ![a] = p] /\ q.stack = st
    BY <1>6, <1>8, <1>9 DEF Merge
  <1>11. q.row[a] = p /\ \A b \in Atoms \ {a} : q.row[b] = m.row[b]
    BY <1>1, <1>10 DEF Table
  <1>12. CopySound(q)
    <2>1. History(q.log, q.ids) /\ ids <= q.ids
      BY <1>10 DEF CopyPending
    <2>2. /\ \A i \in 1 .. Len(log[q.dev]) : i <= Len(q.log) /\ q.log[i] = log[q.dev][i]
          /\ \A b \in q.touched : \E i \in 1 .. Len(q.fresh) : q.fresh[i].atom = b
          /\ \A i \in 1 .. q.cursor : i <= Len(cloud) /\ cloud[i].id \in IdsOf(q.log)
      BY <1>10 DEF CopyPending
    <2>3. /\ \A i \in 1 .. Len(q.stack) : \A e \in q.stack[i].losers :
               e.type = "supersede" /\ \E k \in 1 .. Len(q.log) : q.log[k] = e
          /\ q.stack # <<>> => q.stack[1].losers # {}
      BY <1>8, <1>10
    <2>4. \A b \in Atoms : Erased(q.log, b) => q.row[b] = NoRow \/ b \in q.touched
      BY <1>2, <1>10, <1>11 DEF CopyPending
    <2>5. ASSUME NEW b \in Atoms, row[q.dev][b] # NoRow
          PROVE  \/ q.row[b] = NoRow /\ Erased(q.log, b)
                 \/ /\ q.row[b] # NoRow /\ q.row[b].from = row[q.dev][b].from
                    /\ row[q.dev][b].to # 0 => q.row[b].to # 0
      <3>1. \/ m.row[b] = NoRow /\ Erased(m.log, b)
            \/ /\ m.row[b] # NoRow /\ m.row[b].from = row[m.dev][b].from
               /\ row[m.dev][b].to # 0 => m.row[b].to # 0
        BY <1>10, <2>5 DEF CopyPending
      <3>2. CASE b # a
        BY <1>10, <1>11, <3>1, <3>2
      <3>3. CASE b = a
        BY <1>2, <1>10, <1>11, <3>1, <3>3
      <3> QED
        BY <3>2, <3>3
    <2>6. ASSUME NEW b \in Atoms, OwnIn(q.dev, q.log, b)
          PROVE  /\ b \notin q.touched /\ q.row[b] = row[q.dev][b]
                 /\ \A k \in Len(log[q.dev]) + 1 .. Len(q.log) : q.log[k].atom # b
      <3>1. OwnIn(m.dev, m.log, b) /\ b # a
        BY <1>10, <2>6 DEF CopyPending
      <3> QED
        BY <1>10, <1>11, <3>1 DEF CopyPending
    <2> QED
      BY <2>1, <2>2, <2>3, <2>4, <2>5, <2>6 DEF CopySound
  <1> QED
    BY <1>10, <1>12 DEF q

\* The first touched atom is one: each of them is named by an event of the batch.
LEMMA TouchedFirst ==
  ASSUME NEW m \in Merge, CopySound(m), m.touched # {}
  PROVE  FirstTouched(m) \in m.touched
  <1> DEFINE J == {j \in 1 .. Len(m.fresh) : m.fresh[j].atom \in m.touched}
             i == CHOOSE j \in 1 .. Len(m.fresh) :
                    /\ m.fresh[j].atom \in m.touched
                    /\ \A k \in 1 .. j - 1 : m.fresh[k].atom \notin m.touched
  <1>0. m.fresh \in Seq(Event) /\ Len(m.fresh) \in Nat
    BY DEF Merge
  <1>1. J # {}
    BY DEF CopySound
  <1>2. J \in SUBSET (1 .. Len(m.fresh)) /\ \A j \in J : j \in Nat
    OBVIOUS
  <1>3. \E j \in J : \A k \in J : j <= k
    <2> HIDE DEF J
    <2>1. IsFiniteSet(J)
      BY <1>0, <1>2, PlacesFinite
    <2>2. J # {} /\ IsFiniteSet(J) /\ \A j \in J : j \in Nat
      BY <1>1, <1>2, <2>1
    <2> QED
      BY <2>2, Ends
  <1>4. PICK j \in J : \A k \in J : j <= k
    BY <1>3
  <1>5. \A k \in 1 .. j - 1 : m.fresh[k].atom \notin m.touched
    <2>1. j \in 1 .. Len(m.fresh) /\ j \in Nat
      BY <1>2
    <2>2. \A k \in 1 .. j - 1 : k \in 1 .. Len(m.fresh) /\ ~ (j <= k)
      BY <1>0, <2>1
    <2> QED
      BY <1>4, <2>2
  <1>6. \E x \in 1 .. Len(m.fresh) :
          /\ m.fresh[x].atom \in m.touched
          /\ \A k \in 1 .. x - 1 : m.fresh[k].atom \notin m.touched
    BY <1>4, <1>5
  <1>7. m.fresh[i].atom \in m.touched
    BY <1>6
  <1>8. FirstTouched(m) = m.fresh[i].atom
    BY DEF FirstTouched
  <1> HIDE DEF i
  <1> QED
    BY <1>7, <1>8

\* The next touched atom is recomputed.
LEMMA MergeRecomputeKeeps ==
  ASSUME SyncInv, MergeRecompute
  PROVE  SyncInv' /\ UndoStep
  <1> DEFINE a == FirstTouched(merge)
             q == [merge EXCEPT !.touched = @ \ {a}]
             m == recomputeProjection(q, a)
  <1>1. /\ merge # NoMerge /\ merge.stack = <<>> /\ merge.touched # {} /\ merge' = m /\ Open
        /\ spent' = spent
    BY DEF MergeRecompute, Open
  <1>2. TypeOK /\ CopySound(merge) /\ merge \in Merge
    BY <1>1 DEF SyncInv, MergeSound, TypeOK
  <1>3. /\ merge.touched \subseteq Atoms /\ merge.fresh \in Seq(Event) /\ merge.stack \in Seq(Frame)
        /\ Len(merge.fresh) \in Nat
    BY <1>2 DEF Merge
  <1>4. a \in merge.touched
    BY <1>1, <1>2, TouchedFirst
  <1> HIDE DEF a
  <1>5. /\ q \in Merge /\ q.dev = merge.dev /\ q.fresh = merge.fresh /\ q.log = merge.log
        /\ q.row = merge.row /\ q.cursor = merge.cursor /\ q.ids = merge.ids
        /\ q.stack = merge.stack /\ q.touched = merge.touched \ {a}
    BY <1>2 DEF Merge
  <1> HIDE DEF q
  <1>6. ~ OwnIn(q.dev, q.log, a)
    BY <1>2, <1>3, <1>4, <1>5 DEF CopySound
  <1>7. CopyPending(q, a)
    <2>1. /\ History(q.log, q.ids) /\ ids <= q.ids
          /\ \A i \in 1 .. Len(log[q.dev]) : i <= Len(q.log) /\ q.log[i] = log[q.dev][i]
          /\ \A b \in q.touched : \E i \in 1 .. Len(q.fresh) : q.fresh[i].atom = b
          /\ \A i \in 1 .. q.cursor : i <= Len(cloud) /\ cloud[i].id \in IdsOf(q.log)
      BY <1>2, <1>5 DEF CopySound
    <2>2. \A i \in 1 .. Len(q.stack) : \A e \in q.stack[i].losers :
            e.type = "supersede" /\ \E k \in 1 .. Len(q.log) : q.log[k] = e
      BY <1>2, <1>5 DEF CopySound
    <2>3. \A b \in Atoms \ {a} : Erased(q.log, b) => q.row[b] = NoRow \/ b \in q.touched
      BY <1>2, <1>5 DEF CopySound
    <2>4. \A b \in Atoms : row[q.dev][b] # NoRow =>
            \/ q.row[b] = NoRow /\ Erased(q.log, b)
            \/ /\ q.row[b] # NoRow /\ q.row[b].from = row[q.dev][b].from
               /\ row[q.dev][b].to # 0 => q.row[b].to # 0
      BY <1>2, <1>5 DEF CopySound
    <2>5. \A b \in Atoms : OwnIn(q.dev, q.log, b) =>
            /\ b \notin q.touched /\ q.row[b] = row[q.dev][b]
            /\ \A k \in Len(log[q.dev]) + 1 .. Len(q.log) : q.log[k].atom # b
      BY <1>2, <1>5 DEF CopySound
    <2> QED
      BY <1>6, <2>1, <2>2, <2>3, <2>4, <2>5 DEF CopyPending
  <1>8. a \in Atoms
    BY <1>3, <1>4
  <1>9. m \in Merge /\ CopySound(m)
    BY <1>5, <1>7, <1>8, RecomputeSound
  <1> HIDE DEF m
  <1>10. spent' \in Nat
    BY <1>1, <1>2 DEF TypeOK
  <1> QED
    BY <1>1, <1>9, <1>10, OpenKeeps

\* A merge that throws or is stopped leaves nothing behind.
LEMMA MergeEndsKeeps ==
  ASSUME SyncInv, MergeThrows \/ MergeAbort
  PROVE  SyncInv' /\ UndoStep
  <1>1. merge' = NoMerge /\ Open
    BY DEF MergeThrows, MergeAbort, Open
  <1>2. spent' \in Nat
    BY DEF MergeThrows, MergeAbort, Spend, SyncInv, TypeOK
  <1> QED
    BY <1>1, <1>2, OpenKeeps

\* The commit: what the copy says becomes what the device has.
LEMMA MergeCommitKeeps ==
  ASSUME SyncInv, MergeCommit
  PROVE  SyncInv' /\ UndoStep
  <1> DEFINE m == merge
  <1>0. merge # NoMerge /\ TypeOK
    BY DEF MergeCommit, SyncInv
  <1>a. PICK d \in Devices : d = merge.dev
    BY <1>0 DEF TypeOK, Merge
  <1>1. /\ merge # NoMerge /\ m.touched = {}
        /\ row' = [row EXCEPT ![d] = m.row] /\ log' = [log EXCEPT ![d] = m.log]
        /\ watermark' = [watermark EXCEPT ![d] = m.cursor] /\ ids' = m.ids /\ merge' = NoMerge
        /\ UNCHANGED <<synced, rejected, batches, flight, cloud, refused, spent>>
    BY <1>a DEF MergeCommit
  <1>2. /\ TypeOK /\ HistoriesSound /\ RowsSound /\ ErasureWins /\ NoGap /\ SyncedMeansStored
        /\ EnvelopesAreShared
    BY DEF SyncInv
  <1>3. CopySound(m) /\ m \in Merge
    BY <1>1, <1>2 DEF SyncInv, MergeSound, TypeOK
  <1>4. /\ m.row \in Table /\ d \in Devices /\ m.log \in Seq(Event) /\ m.cursor \in Nat
        /\ m.ids \in Nat /\ ids \in Nat /\ ids <= m.ids /\ History(m.log, m.ids)
    BY <1>2, <1>3 DEF Merge, CopySound, TypeOK
  <1>7. m.dev = d
    BY <1>a
  <1> HIDE DEF m
  <1>5. /\ row \in [Devices -> Table] /\ log \in [Devices -> Seq(Event)]
        /\ watermark \in [Devices -> Nat]
    BY <1>2 DEF TypeOK
  <1>6. /\ row'[d] = m.row /\ log'[d] = m.log /\ watermark'[d] = m.cursor
        /\ \A c \in Devices \ {d} : row'[c] = row[c] /\ log'[c] = log[c] /\ watermark'[c] = watermark[c]
        /\ row' \in [Devices -> Table] /\ log' \in [Devices -> Seq(Event)]
        /\ watermark' \in [Devices -> Nat]
    BY <1>1, <1>4, <1>5
  <1>8. \A i \in 1 .. Len(log[d]) : i \in 1 .. Len(m.log) /\ m.log[i] = log[d][i]
    <2>1. Len(log[d]) \in Nat /\ Len(m.log) \in Nat
      BY <1>4, <1>5
    <2> QED
      BY <1>3, <1>7, <2>1 DEF CopySound
  <1>9. IdsOf(log[d]) \subseteq IdsOf(m.log) /\ \A a : EventsOf(log[d], a) \subseteq EventsOf(m.log, a)
    BY <1>8 DEF IdsOf, EventsOf
  <1>10. \A a : Erased(log[d], a) => Erased(m.log, a)
    BY <1>8 DEF Erased
  <1>11. \A c \in Devices : IdsOf(log[c]) \subseteq IdsOf(log'[c])
    BY <1>6, <1>9
  <1>12. \A c \in Devices, a \in Atoms : Own(c, a)' => Own(c, a)
    <2>1. ASSUME NEW c \in Devices, NEW a \in Atoms, Own(c, a)' PROVE Own(c, a)
      <3>1. EventsOf(log[c], a) \subseteq EventsOf(log'[c], a)
        BY <1>6, <1>9
      <3> QED
        BY <1>11, <2>1, <3>1 DEF Own, OwnIn
    <2> QED
      BY <2>1
  <1>13. TypeOK'
    BY <1>1, <1>2, <1>4, <1>6 DEF TypeOK
  <1>14. HistoriesSound'
    <2>1. ASSUME NEW c \in Devices PROVE History(log'[c], ids')
      <3>1. CASE c = d
        BY <1>1, <1>4, <1>6, <3>1
      <3>2. CASE c # d
        <4>1. History(log[c], ids) /\ log'[c] = log[c] /\ ids' \in Nat /\ ids <= ids'
          BY <1>1, <1>2, <1>4, <1>6, <3>2 DEF HistoriesSound
        <4> QED
          BY <1>4, <4>1, HistoryMono
      <3> QED
        BY <3>1, <3>2
    <2>2. ASSUME NEW c \in Devices
          PROVE  History(flight'[c], ids') /\ IdsOf(flight'[c]) \subseteq IdsOf(log'[c])
      <3>1. /\ History(flight[c], ids) /\ IdsOf(flight[c]) \subseteq IdsOf(log[c])
            /\ ids' \in Nat /\ ids <= ids' /\ flight'[c] = flight[c]
        BY <1>1, <1>2, <1>4 DEF HistoriesSound
      <3> QED
        BY <1>4, <1>11, <3>1, HistoryMono
    <2>3. History(cloud', ids')
      <3>1. History(cloud, ids) /\ ids' \in Nat /\ ids <= ids' /\ cloud' = cloud
        BY <1>1, <1>2, <1>4 DEF HistoriesSound
      <3> QED
        BY <1>4, <3>1, HistoryMono
    <2>4. \A i \in 1 .. Len(cloud') : \E c \in Devices : cloud'[i].id \in IdsOf(log'[c])
      BY <1>1, <1>2, <1>11 DEF HistoriesSound
    <2> QED
      BY <2>1, <2>2, <2>3, <2>4 DEF HistoriesSound
  <1>15. MergeSound'
    BY <1>1 DEF MergeSound
  <1>16. ErasureWins'
    <2>1. \A a \in Atoms : Erased(m.log, a) => m.row[a] = NoRow
      BY <1>1, <1>3 DEF CopySound
    <2>2. ASSUME NEW c \in Devices, NEW a \in Atoms, Erased(log'[c], a)
          PROVE  row'[c][a] = NoRow
      <3>1. CASE c = d
        BY <1>6, <2>1, <2>2, <3>1
      <3>2. CASE c # d
        BY <1>2, <1>6, <2>2, <3>2 DEF ErasureWins
      <3> QED
        BY <3>1, <3>2
    <2> QED
      BY <2>2 DEF ErasureWins
  <1>17. NoGap'
    <2>1. ASSUME NEW c \in Devices, NEW i \in 1 .. watermark'[c]
          PROVE  i <= Len(cloud') /\ cloud'[i].id \in IdsOf(log'[c])
      <3>1. CASE c = d
        BY <1>1, <1>3, <1>6, <2>1, <3>1 DEF CopySound
      <3>2. CASE c # d
        BY <1>1, <1>2, <1>6, <2>1, <3>2 DEF NoGap
      <3> QED
        BY <3>1, <3>2
    <2> QED
      BY <2>1 DEF NoGap
  <1>18. SyncedMeansStored' /\ EnvelopesAreShared'
    BY <1>1, <1>2 DEF SyncedMeansStored, EnvelopesAreShared
  <1>19. ASSUME NEW a \in Atoms, row'[d][a] # NoRow, Own(d, a)' PROVE OwnRow(d, a)'
    <2>1. OwnIn(d, m.log, a)
      <3>1. \A e \in EventsOf(m.log, a) :
              e.why = "user" /\ \A c \in Devices \ {d} : e.id \notin IdsOf(log'[c])
        BY <1>6, <1>19 DEF Own, OwnIn
      <3> QED
        BY <1>6, <3>1 DEF OwnIn
    <2>2. /\ m.row[a] = row[d][a]
          /\ \A k \in Len(log[d]) + 1 .. Len(m.log) : m.log[k].atom # a
      BY <1>3, <1>7, <2>1 DEF CopySound
    <2>3. OwnRow(d, a) /\ row[d][a] # NoRow
      BY <1>2, <1>4, <1>6, <1>12, <1>19, <2>2 DEF RowsSound
    <2>4. LastChange(m.log, a) = LastChange(log[d], a)
      <3>1. /\ log[d] \in Seq(Event) /\ m.log \in Seq(Event)
            /\ \A k \in 1 .. Len(m.log) :
                 k \in 1 .. Len(log[d]) \/ k \in Len(log[d]) + 1 .. Len(m.log)
        BY <1>4, <1>5
      <3>2. \A k \in 1 .. Len(m.log) : \/ k \in 1 .. Len(log[d])
                                       \/ ~ (m.log[k].atom = a /\ m.log[k].type \in Changes)
        BY <2>2, <3>1
      <3> QED
        BY <1>8, <3>1, <3>2, LastChangeKept
    <2> DEFINE r == row[d][a]
    <2>5. r.to \in Nat /\ Skew[d] \in Nat /\ r.by \in Atoms \cup {NoAtom}
      BY <1>2, <1>4, <2>3, Types, MemorySyncAssumption
    <2>6. r.to <= ids' + Skew[d]
      BY <1>1, <1>4, <2>3, <2>5 DEF OwnRow
    <2>7. ASSUME r.by # NoAtom
          PROVE  IF m.row[r.by] = NoRow THEN Erased(m.log, r.by) ELSE r.to <= m.row[r.by].from
      <3> DEFINE b == r.by
      <3>1. b \in Atoms /\ IF row[d][b] = NoRow THEN Erased(log[d], b) ELSE r.to <= row[d][b].from
        BY <2>3, <2>5, <2>7 DEF OwnRow
      <3> HIDE DEF b
      <3>2. CASE row[d][b] = NoRow
        <4>1. Erased(m.log, b)
          BY <1>10, <3>1, <3>2
        <4>2. m.row[b] = NoRow
          BY <1>1, <1>3, <3>1, <4>1 DEF CopySound
        <4> QED
          BY <4>1, <4>2 DEF b
      <3>3. CASE row[d][b] # NoRow
        <4>1. \/ m.row[b] = NoRow /\ Erased(m.log, b)
              \/ m.row[b] # NoRow /\ m.row[b].from = row[d][b].from
          BY <1>3, <1>7, <3>1, <3>3 DEF CopySound
        <4> QED
          BY <3>1, <3>3, <4>1 DEF b
      <3> QED
        BY <3>2, <3>3
    <2> QED
      BY <1>6, <2>2, <2>3, <2>4, <2>6, <2>7 DEF OwnRow
  <1>20. RowsSound'
    <2>1. ASSUME NEW c \in Devices
          PROVE  \A a \in Atoms : row'[c][a] # NoRow /\ Own(c, a)' => OwnRow(c, a)'
      <3>1. CASE c = d
        BY <1>19, <3>1
      <3>2. CASE c # d
        <4>1. /\ row'[c] = row[c] /\ log'[c] = log[c] /\ ids' \in Nat /\ ids <= ids'
              /\ \A a \in Atoms : Own(c, a)' => Own(c, a)
          BY <1>1, <1>4, <1>6, <1>12, <3>2
        <4> QED
          BY <1>2, <4>1, OtherRows
      <3> QED
        BY <3>1, <3>2
    <2> QED
      BY <2>1 DEF RowsSound
  <1>21. UndoStep
    <2>1. ASSUME NEW c \in Devices, NEW a \in Atoms,
                 row[c][a] # NoRow /\ row[c][a].to # 0, Valid(row'[c], a)
          PROVE  FALSE
      <3>1. CASE c = d
        <4>1. m.row[a] = NoRow \/ m.row[a].to # 0
          BY <1>3, <1>7, <2>1, <3>1 DEF CopySound
        <4> QED
          BY <1>6, <2>1, <3>1, <4>1 DEF Valid
      <3>2. CASE c # d
        BY <1>6, <2>1, <3>2 DEF Valid
      <3> QED
        BY <3>1, <3>2
    <2> QED
      BY <2>1 DEF UndoStep
  <1> QED
    BY <1>13, <1>14, <1>15, <1>16, <1>17, <1>18, <1>20, <1>21 DEF SyncInv

\* A loser that was chained already: its atom is not the device's own.
LEMMA ChainedBefore ==
  ASSUME NEW m \in Merge, CopySound(m), NEW st \in Seq(Frame), NEW b \in Atoms,
         \A i \in 1 .. Len(st) : \A e \in st[i].losers :
           e.type = "supersede" /\ \E k \in 1 .. Len(m.log) : m.log[k] = e,
         \E x \in EventsOf(m.log, b) : x.why = "conflict_merge",
         NEW q \in Merge, q.dev = m.dev, q.fresh = m.fresh, q.row = m.row, q.cursor = m.cursor,
         q.touched = m.touched, q.stack = st, q.ids = m.ids, q.log = m.log
  PROVE  CopyPending(q, b)
  <1>1. ~ OwnIn(q.dev, q.log, b)
    BY DEF OwnIn
  <1>2. /\ History(q.log, q.ids) /\ ids <= q.ids
        /\ \A i \in 1 .. Len(log[q.dev]) : i <= Len(q.log) /\ q.log[i] = log[q.dev][i]
        /\ \A a \in q.touched : \E i \in 1 .. Len(q.fresh) : q.fresh[i].atom = a
        /\ \A i \in 1 .. q.cursor : i <= Len(cloud) /\ cloud[i].id \in IdsOf(q.log)
    BY DEF CopySound
  <1>3. \A i \in 1 .. Len(q.stack) : \A e \in q.stack[i].losers :
          e.type = "supersede" /\ \E k \in 1 .. Len(q.log) : q.log[k] = e
    OBVIOUS
  <1>4. \A a \in Atoms \ {b} : Erased(q.log, a) => q.row[a] = NoRow \/ a \in q.touched
    BY DEF CopySound
  <1>5. \A a \in Atoms : row[q.dev][a] # NoRow =>
          \/ q.row[a] = NoRow /\ Erased(q.log, a)
          \/ /\ q.row[a] # NoRow /\ q.row[a].from = row[q.dev][a].from
             /\ row[q.dev][a].to # 0 => q.row[a].to # 0
    BY DEF CopySound
  <1>6. \A a \in Atoms : OwnIn(q.dev, q.log, a) =>
          /\ a \notin q.touched /\ q.row[a] = row[q.dev][a]
          /\ \A k \in Len(log[q.dev]) + 1 .. Len(q.log) : q.log[k].atom # a
    BY DEF CopySound
  <1> QED
    BY <1>1, <1>2, <1>3, <1>4, <1>5, <1>6 DEF CopyPending

\* A loser that is chained now: the synthetic event makes its atom another's.
LEMMA ChainedNow ==
  ASSUME NEW m \in Merge, CopySound(m), ids \in Nat, NEW st \in Seq(Frame), NEW b \in Atoms,
         \A d \in Devices : log[d] \in Seq(Event),
         \A i \in 1 .. Len(st) : \A e \in st[i].losers :
           e.type = "supersede" /\ \E k \in 1 .. Len(m.log) : m.log[k] = e,
         NEW x \in Event, x.id = m.ids + 1, x.at # 0, x.type = "supersede", x.to \in Atoms,
         x.atom = b, x.why = "conflict_merge",
         NEW q \in Merge, q.dev = m.dev, q.fresh = m.fresh, q.row = m.row, q.cursor = m.cursor,
         q.touched = m.touched, q.stack = st, q.ids = m.ids + 1, q.log = Append(m.log, x)
  PROVE  CopyPending(q, b)
  <1>1. /\ m.log \in Seq(Event) /\ m.ids \in Nat /\ Len(m.log) \in Nat /\ m.dev \in Devices
        /\ m.cursor \in Nat
    BY DEF Merge
  <1>2. /\ q.log \in Seq(Event) /\ Len(q.log) = Len(m.log) + 1 /\ q.log[Len(m.log) + 1] = x
        /\ \A k \in 1 .. Len(m.log) : k \in 1 .. Len(q.log) /\ q.log[k] = m.log[k]
    BY <1>1
  <1>3. History(m.log, m.ids) /\ ids <= m.ids
    BY DEF CopySound
  <1>4. History(q.log, q.ids)
    <2>1. ASSUME NEW i \in 1 .. Len(q.log)
          PROVE  /\ q.log[i].id \in 1 .. q.ids /\ q.log[i].at # 0
                 /\ q.log[i].type = "supersede" => q.log[i].to \in Atoms
      <3>1. CASE i \in 1 .. Len(m.log)
        BY <1>1, <1>2, <1>3, <3>1 DEF History
      <3>2. CASE i = Len(m.log) + 1
        BY <1>1, <1>2, <3>2
      <3> QED
        BY <1>1, <1>2, <3>1, <3>2
    <2>2. ASSUME NEW i \in 1 .. Len(q.log), NEW k \in 1 .. Len(q.log), q.log[i].id = q.log[k].id
          PROVE  i = k
      <3>1. \A j \in 1 .. Len(m.log) : m.log[j].id \in 1 .. m.ids
        BY <1>3 DEF History
      <3>2. /\ i \in 1 .. Len(m.log) \/ i = Len(m.log) + 1
            /\ k \in 1 .. Len(m.log) \/ k = Len(m.log) + 1
        BY <1>1, <1>2
      <3>3. CASE i \in 1 .. Len(m.log) /\ k \in 1 .. Len(m.log)
        BY <1>2, <1>3, <2>2, <3>3 DEF History
      <3> QED
        BY <1>1, <1>2, <2>2, <3>1, <3>2, <3>3
    <2> QED
      BY <1>2, <2>1, <2>2 DEF History
  <1>5. IdsOf(m.log) \subseteq IdsOf(q.log)
    BY <1>2 DEF IdsOf
  <1>6. \A a : EventsOf(m.log, a) \subseteq EventsOf(q.log, a)
    BY <1>2 DEF EventsOf
  <1>7. \A a : Erased(m.log, a) <=> Erased(q.log, a)
    <2>1. ASSUME NEW a PROVE Erased(m.log, a) => Erased(q.log, a)
      BY <1>2 DEF Erased
    <2>2. ASSUME NEW a, Erased(q.log, a) PROVE Erased(m.log, a)
      <3>1. PICK i \in 1 .. Len(q.log) : q.log[i].atom = a /\ q.log[i].type = "erase_request"
        BY <2>2 DEF Erased
      <3>2. i # Len(m.log) + 1
        BY <1>2, <3>1
      <3>3. i \in 1 .. Len(m.log)
        BY <1>1, <1>2, <3>2
      <3> QED
        BY <1>2, <3>1, <3>3 DEF Erased
    <2> QED
      BY <2>1, <2>2
  <1>8. x \in EventsOf(q.log, b)
    <2>1. Len(m.log) + 1 \in 1 .. Len(q.log)
      BY <1>1, <1>2
    <2> QED
      BY <1>2, <2>1 DEF EventsOf
  <1>9. ~ OwnIn(q.dev, q.log, b)
    BY <1>8 DEF OwnIn
  <1>10. \A a \in Atoms : OwnIn(q.dev, q.log, a) => OwnIn(m.dev, m.log, a)
    BY <1>6 DEF OwnIn
  <1>11. \A i \in 1 .. Len(log[q.dev]) : i <= Len(q.log) /\ q.log[i] = log[q.dev][i]
    <2>1. Len(log[m.dev]) \in Nat
      BY <1>1
    <2>2. \A i \in 1 .. Len(log[m.dev]) : i \in 1 .. Len(m.log) /\ m.log[i] = log[m.dev][i]
      BY <1>1, <2>1 DEF CopySound
    <2> QED
      BY <1>1, <1>2, <2>1, <2>2
  <1>12. /\ \A a \in q.touched : \E i \in 1 .. Len(q.fresh) : q.fresh[i].atom = a
         /\ \A i \in 1 .. q.cursor : i <= Len(cloud) /\ cloud[i].id \in IdsOf(q.log)
    BY <1>5 DEF CopySound
  <1>13. \A i \in 1 .. Len(q.stack) : \A e \in q.stack[i].losers :
           e.type = "supersede" /\ \E k \in 1 .. Len(q.log) : q.log[k] = e
    BY <1>2
  <1>14. \A a \in Atoms \ {b} : Erased(q.log, a) => q.row[a] = NoRow \/ a \in q.touched
    BY <1>7 DEF CopySound
  <1>15. \A a \in Atoms : row[q.dev][a] # NoRow =>
           \/ q.row[a] = NoRow /\ Erased(q.log, a)
           \/ /\ q.row[a] # NoRow /\ q.row[a].from = row[q.dev][a].from
              /\ row[q.dev][a].to # 0 => q.row[a].to # 0
    BY <1>7 DEF CopySound
  <1>16. ASSUME NEW a \in Atoms, OwnIn(q.dev, q.log, a)
         PROVE  /\ a \notin q.touched /\ q.row[a] = row[q.dev][a]
                /\ \A k \in Len(log[q.dev]) + 1 .. Len(q.log) : q.log[k].atom # a
    <2>1. /\ a \notin m.touched /\ m.row[a] = row[m.dev][a]
          /\ \A k \in Len(log[m.dev]) + 1 .. Len(m.log) : m.log[k].atom # a
      BY <1>10, <1>16 DEF CopySound
    <2>2. a # b
      BY <1>9, <1>16
    <2>3. Len(log[m.dev]) \in Nat
      BY <1>1
    <2>4. ASSUME NEW k \in Len(log[m.dev]) + 1 .. Len(q.log) PROVE q.log[k].atom # a
      <3>1. CASE k = Len(m.log) + 1
        BY <1>2, <2>2, <3>1
      <3>2. CASE k # Len(m.log) + 1
        <4>1. k \in Len(log[m.dev]) + 1 .. Len(m.log) /\ k \in 1 .. Len(m.log)
          BY <1>1, <1>2, <2>3, <3>2
        <4> QED
          BY <1>2, <2>1, <4>1
      <3> QED
        BY <3>1, <3>2
    <2> QED
      BY <2>1, <2>4
  <1>17. ids <= q.ids
    BY <1>1, <1>3
  <1> QED
    BY <1>4, <1>9, <1>11, <1>12, <1>13, <1>14, <1>15, <1>16, <1>17 DEF CopyPending

\* Some events of a log have a first one.
LEMMA FirstEvent ==
  ASSUME NEW n, NEW s, History(s, n), NEW E, E # {}, \A x \in E : \E k \in 1 .. Len(s) : s[k] = x
  PROVE  (CHOOSE x \in E : \A y \in E \ {x} : Earlier(x, y)) \in E
  <1>1. IsFiniteSet(E) /\ E \subseteq Event /\ \A x, y \in E : x.id = y.id => x = y
    BY EventsFinite
  <1>2. \E x \in E : \A y \in E \ {x} : Earlier(x, y)
    BY <1>1, EventEnds
  <1> QED
    BY <1>2

\* A loser is chained to the winner, unless it was before, and its own row recomputed.
LEMMA ChainStep ==
  ASSUME SyncInv, chainLoserToWinner
  PROVE  \E q \in Merge, b \in Atoms :
           /\ CopyPending(q, b) /\ merge' = recomputeProjection(q, b)
           /\ q.dev = merge.dev /\ q.row = merge.row /\ q.touched = merge.touched
           /\ \/ q.log = merge.log
              \/ \E x \in Event : /\ q.log = Append(merge.log, x) /\ x.id = merge.ids + 1
                                 /\ x.type = "supersede" /\ x.atom = b
  <1> DEFINE m       == merge
             frame   == Head(merge.stack)
             e       == CHOOSE x \in frame.losers : \A y \in frame.losers \ {x} : Earlier(x, y)
             now     == merge.ids + 1 + Skew[merge.dev]
             already == \E x \in Supersedes(merge.log, e.to) :
                          x.to = frame.winner /\ x.why = "conflict_merge"
             chained == [id |-> merge.ids + 1, type |-> "supersede", atom |-> e.to,
                         to |-> frame.winner, why |-> "conflict_merge",
                         at |-> IF e.at > now THEN e.at ELSE now, scope |-> e.scope]
             rest    == <<[winner |-> frame.winner, losers |-> frame.losers \ {e}]>> \o Tail(merge.stack)
             q       == [merge EXCEPT !.stack = rest,
                                      !.ids = IF already THEN @ ELSE @ + 1,
                                      !.log = IF already THEN @ ELSE Append(@, chained)]
             b       == e.to
             n       == recomputeProjection(q, b)
  <1>0. merge' = n
    BY DEF chainLoserToWinner
  <1> HIDE DEF n, q, b, rest, chained, already, now, e, frame
  <1>1. m # NoMerge /\ Len(m.stack) >= 1
    <2>1. merge # NoMerge
      BY DEF chainLoserToWinner
    <2>2. Len(merge.stack) \in 1 .. MaxDepth
      BY DEF chainLoserToWinner
    <2> QED
      BY <2>1, <2>2
  <1>2. /\ TypeOK /\ CopySound(m) /\ m \in Merge /\ HistoriesSound
    BY <1>1 DEF SyncInv, MergeSound, TypeOK
  <1>3. /\ m.stack \in Seq(Frame) /\ Len(m.stack) \in Nat /\ m.log \in Seq(Event) /\ m.ids \in Nat
        /\ m.dev \in Devices
    BY <1>2 DEF Merge
  <1>4. frame = m.stack[1] /\ frame \in Frame /\ frame.losers # {}
    <2>1. frame = m.stack[1] /\ frame \in Frame /\ m.stack # <<>>
      BY <1>1, <1>3 DEF frame
    <2> QED
      BY <1>2, <2>1 DEF CopySound
  <1>5. frame.winner \in Atoms /\ frame.losers \subseteq Event
    BY <1>4 DEF Frame
  <1>6. \A x \in frame.losers : x.type = "supersede" /\ \E k \in 1 .. Len(m.log) : m.log[k] = x
    <2>1. \A i \in 1 .. Len(m.stack) : \A x \in m.stack[i].losers :
            x.type = "supersede" /\ \E k \in 1 .. Len(m.log) : m.log[k] = x
      BY <1>2 DEF CopySound
    <2>2. 1 \in 1 .. Len(m.stack)
      BY <1>1, <1>3
    <2> HIDE DEF m
    <2> QED
      BY <1>4, <2>1, <2>2
  <1>7. History(m.log, m.ids)
    BY <1>2 DEF CopySound
  <1>8. e \in frame.losers
    <2> DEFINE L == frame.losers
               s == m.log
               k == m.ids
    <2>1. History(s, k) /\ L # {} /\ \A x \in L : \E j \in 1 .. Len(s) : s[j] = x
      BY <1>4, <1>6, <1>7
    <2> HIDE DEF L, s, k
    <2>2. (CHOOSE x \in L : \A y \in L \ {x} : Earlier(x, y)) \in L
      BY <2>1, FirstEvent
    <2> QED
      BY <2>2 DEF L, e
  <1>9. e \in Event /\ b \in Atoms
    <2>1. PICK k \in 1 .. Len(m.log) : m.log[k] = e /\ e.type = "supersede"
      BY <1>6, <1>8
    <2> QED
      BY <1>3, <1>7, <2>1 DEF History, b
  <1>10. rest \in Seq(Frame)
    <2>1. Tail(m.stack) \in Seq(Frame)
      BY <1>1, <1>3
    <2>2. [winner |-> frame.winner, losers |-> frame.losers \ {e}] \in Frame
      BY <1>5 DEF Frame
    <2> QED
      BY <2>1, <2>2 DEF rest
  <1>11. ASSUME NEW i \in 1 .. Len(rest), NEW x \in rest[i].losers
         PROVE  x.type = "supersede" /\ \E k \in 1 .. Len(m.log) : m.log[k] = x
    <2>1. CASE i = 1
      <3>1. rest[1] = [winner |-> frame.winner, losers |-> frame.losers \ {e}]
        BY DEF rest
      <3> QED
        BY <1>6, <1>11, <2>1, <3>1
    <2>2. CASE i # 1
      <3>1. i \in 1 .. Len(m.stack) /\ rest[i] = m.stack[i]
        BY <1>1, <1>3, <2>2 DEF rest
      <3> QED
        BY <1>2, <1>11, <3>1 DEF CopySound
    <2> QED
      BY <2>1, <2>2
  <1>12. now \in Nat /\ now # 0 /\ m.ids + 1 \in Nat
    BY <1>3, MemorySyncAssumption DEF now
  <1>13. /\ chained \in Event /\ chained.id = m.ids + 1 /\ chained.at # 0
         /\ chained.type = "supersede" /\ chained.to \in Atoms /\ chained.atom = b
         /\ chained.why = "conflict_merge"
    <2>1. e.at \in Nat /\ e.scope \in Scopes
      BY <1>9 DEF Event
    <2>2. /\ chained.id = m.ids + 1 /\ chained.type = "supersede" /\ chained.atom = b
          /\ chained.to = frame.winner /\ chained.why = "conflict_merge"
          /\ chained.scope = e.scope
          /\ chained.at \in Nat /\ chained.at # 0
      BY <1>12, <2>1 DEF chained, b
    <2> QED
      BY <1>5, <1>9, <1>12, <2>1, <2>2 DEF chained, Event, EventTypes
  <1>14. ASSUME already
         PROVE  /\ q \in Merge /\ CopyPending(q, b)
                /\ q.dev = m.dev /\ q.row = m.row /\ q.touched = m.touched /\ q.log = m.log
    <2>1. q = [m EXCEPT !.stack = rest]
      BY <1>2, <1>14 DEF q, Merge
    <2>2. /\ q \in Merge /\ q.dev = m.dev /\ q.fresh = m.fresh /\ q.row = m.row
          /\ q.cursor = m.cursor /\ q.touched = m.touched /\ q.stack = rest /\ q.ids = m.ids
          /\ q.log = m.log
      BY <1>2, <1>10, <2>1 DEF Merge
    <2>3. \E x \in EventsOf(m.log, b) : x.why = "conflict_merge"
      BY <1>14 DEF already, Supersedes, b
    <2> HIDE DEF m
    <2> QED
      BY <1>2, <1>9, <1>10, <1>11, <2>2, <2>3, ChainedBefore
  <1>15. ASSUME ~ already
         PROVE  /\ q \in Merge /\ CopyPending(q, b)
                /\ q.dev = m.dev /\ q.row = m.row /\ q.touched = m.touched
                /\ q.log = Append(m.log, chained)
    <2>1. q = [m EXCEPT !.stack = rest, !.ids = @ + 1, !.log = Append(@, chained)]
      BY <1>2, <1>15 DEF q, Merge
    <2>2. m.ids + 1 \in Nat /\ Append(m.log, chained) \in Seq(Event)
      BY <1>3, <1>13
    <2>3. /\ q \in Merge /\ q.dev = m.dev /\ q.fresh = m.fresh /\ q.row = m.row
          /\ q.cursor = m.cursor /\ q.touched = m.touched /\ q.stack = rest /\ q.ids = m.ids + 1
          /\ q.log = Append(m.log, chained)
      BY <1>2, <1>10, <2>1, <2>2 DEF Merge
    <2>4. ids \in Nat /\ \A d \in Devices : log[d] \in Seq(Event)
      BY <1>2 DEF TypeOK
    <2> HIDE DEF m
    <2> QED
      BY <1>2, <1>9, <1>10, <1>11, <1>13, <2>3, <2>4, ChainedNow
  <1>16. /\ q \in Merge /\ CopyPending(q, b)
         /\ q.dev = m.dev /\ q.row = m.row /\ q.touched = m.touched
         /\ \/ q.log = m.log
            \/ /\ q.log = Append(m.log, chained) /\ chained \in Event /\ chained.id = m.ids + 1
               /\ chained.type = "supersede" /\ chained.atom = b
    BY <1>13, <1>14, <1>15
  <1> HIDE DEF m
  <1>17. merge = m
    BY DEF m
  <1> QED
    BY <1>0, <1>9, <1>16, <1>17 DEF n

\* Such a step leaves a sound copy.
LEMMA ChainKeeps ==
  ASSUME SyncInv, chainLoserToWinner
  PROVE  SyncInv' /\ UndoStep
  <1>1. PICK q \in Merge, b \in Atoms : CopyPending(q, b) /\ merge' = recomputeProjection(q, b)
    BY ChainStep
  <1>2. merge' \in Merge /\ CopySound(recomputeProjection(q, b))
    BY <1>1, RecomputeSound
  <1>3. Open /\ spent' \in Nat
    BY DEF chainLoserToWinner, Open, SyncInv, TypeOK
  <1> QED
    BY <1>1, <1>2, <1>3, OpenKeeps

----------------------------------------------------------------------------
(* The theorems.                                                          *)

\* Devices that start out with the shared rows and empty logs.
LEMMA InitSound == Init => SyncInv
  <1> SUFFICES ASSUME Init PROVE SyncInv
    OBVIOUS
  <1>1. NewRow("shared", 0) \in Row
    BY MemorySyncAssumption DEF NewRow, Row, Scopes
  <1>2. row \in [Devices -> Table]
    BY <1>1 DEF Init, Table
  <1>3. <<>> \in Seq(Event) /\ Len(<<>>) = 0
    OBVIOUS
  <1>4. TypeOK
    BY <1>2, <1>3 DEF Init, TypeOK, Status
  <1>5. IdsOf(<<>>) = {} /\ History(<<>>, 0)
    BY <1>3 DEF IdsOf, History
  <1>6. HistoriesSound
    BY <1>3, <1>5 DEF Init, HistoriesSound
  <1>7. MergeSound
    BY DEF Init, MergeSound
  <1>8. \A d \in Devices, a \in Atoms : ~ Erased(log[d], a)
    BY <1>3 DEF Init, Erased
  <1>9. ErasureWins
    BY <1>8 DEF ErasureWins
  <1>10. NoGap /\ SyncedMeansStored /\ EnvelopesAreShared
    BY <1>3 DEF Init, NoGap, SyncedMeansStored, EnvelopesAreShared
  <1>11. ASSUME NEW d \in Devices, NEW a \in Atoms, row[d][a] # NoRow PROVE OwnRow(d, a)
    <2>1. row[d][a] = NewRow("shared", 0)
      BY <1>11 DEF Init
    <2>2. /\ row[d][a].to = 0 /\ row[d][a].by = NoAtom /\ row[d][a].archived = "no"
          /\ row[d][a].batch = 0
      BY <2>1 DEF NewRow
    <2>3. ids = 0 /\ Skew[d] \in Nat
      BY MemorySyncAssumption DEF Init
    <2> QED
      BY <2>2, <2>3 DEF OwnRow
  <1>12. RowsSound
    BY <1>11 DEF RowsSound
  <1> QED
    BY <1>4, <1>6, <1>7, <1>9, <1>10, <1>12 DEF SyncInv

\* Every step keeps the invariant, and shows a hidden row only by undoing what hid it.
LEMMA StepKeeps ==
  ASSUME SyncInv, [Next]_vars
  PROVE  SyncInv' /\ UndoStep
  <1>1. CASE UNCHANGED vars
    <2>1. Open /\ spent' = spent /\ merge' = merge
      BY <1>1 DEF vars, Open
    <2>2. spent' \in Nat /\ (merge = NoMerge \/ (merge \in Merge /\ CopySound(merge)))
      BY <2>1 DEF SyncInv, TypeOK, MergeSound
    <2> QED
      BY <2>1, <2>2, OpenKeeps
  <1>2. ASSUME NEW d \in Devices, merge = NoMerge, Lifecycle(d) \/ Ship(d) \/ PullStart(d)
        PROVE  SyncInv' /\ UndoStep
    BY <1>2, LifecycleKeeps, ShipKeeps, PullStartKeeps
  <1>3. CASE Pull
    BY <1>3, MergeRecomputeKeeps, ChainKeeps, MergeCommitKeeps, MergeEndsKeeps DEF Pull
  <1> QED
    BY <1>1, <1>2, <1>3 DEF Next

\* On every device, in every order of operations, shipments, pulls, losses, refusals and
\* stopped merges: logs are histories, rows of own atoms follow from their log, and the copy
\* an open merge works on may be committed once nothing is left to recompute.
THEOREM SyncInvariant == Spec => []SyncInv
  <1>1. SyncInv /\ [Next]_vars => SyncInv'
    BY StepKeeps
  <1> QED
    BY <1>1, InitSound, PTL DEF Spec

\* Tables, logs, cursors, purge batches and the open merge keep their types.
THEOREM SyncTypeCorrect == Spec => []TypeOK
  <1>1. SyncInv => TypeOK
    BY DEF SyncInv
  <1> QED
    BY <1>1, SyncInvariant, PTL

\* recomputeProjection looks for the tombstone before all else, and stage 8 skips what was
\* erased: once a tombstone is in a device's log, the device has no row of the atom.
THEOREM ErasureAlwaysWins == Spec => []ErasureWins
  <1>1. SyncInv => ErasureWins
    BY DEF SyncInv
  <1> QED
    BY <1>1, SyncInvariant, PTL

\* The watermark and the events it covers are committed in one transaction, and an empty
\* cursor starts over: a stopped pull leaves no gap behind it.
THEOREM WatermarkLeavesNoGap == Spec => []NoGap
  <1>1. SyncInv => NoGap
    BY DEF SyncInv
  <1> QED
    BY <1>1, SyncInvariant, PTL

\* An event has a synced_at only when the cloud kept it, whatever was lost, refused or
\* acknowledged by halves.
THEOREM SyncedIsStored == Spec => []SyncedMeansStored
  <1>1. SyncInv => SyncedMeansStored
    BY DEF SyncInv
  <1> QED
    BY <1>1, SyncInvariant, PTL

\* listUnsynced and withCurrentScope: no create or tombstone leaves a device as private.
THEOREM OnlySharedLeaves == Spec => []EnvelopesAreShared
  <1>1. SyncInv => EnvelopesAreShared
    BY DEF SyncInv
  <1> QED
    BY <1>1, SyncInvariant, PTL

\* supersede moves the successor's valid_from to the time the predecessor was hidden, and
\* nothing later moves it back: their windows of validity never overlap.
THEOREM GenerationsNeverOverlap == Spec => []NoOverlap
  <1>1. ASSUME SyncInv PROVE NoOverlap
    <2>1. RowsSound
      BY <1>1 DEF SyncInv
    <2>2. ASSUME NEW d \in Devices, NEW a \in Atoms, row[d][a] # NoRow, row[d][a].by # NoAtom,
                 row[d][row[d][a].by] # NoRow, Own(d, a)
          PROVE  row[d][a].to <= row[d][row[d][a].by].from
      BY <2>1, <2>2 DEF RowsSound, OwnRow
    <2> QED
      BY <2>2 DEF NoOverlap
  <1> QED
    BY <1>1, SyncInvariant, PTL

\* restore, unsupersede and restorePurgeBatch ask for the column that tells what hid the row:
\* each brings back what its counterpart hid, and nothing brings back what was invalidated.
THEOREM OnlyUndoneComesBack == Spec => UndoMatches
  <1>1. SyncInv /\ [Next]_vars =>
          [\A d \in Devices, a \in Atoms :
             /\ row[d][a] # NoRow /\ row[d][a].to # 0 /\ Own(d, a)
             /\ Valid(row'[d], a)
             => <<LastChange(log[d], a), LastChange(log'[d], a)>>
                  \in {<<"archive", "restore">>, <<"supersede", "unsupersede">>,
                       <<"purge", "unpurge">>}]_vars
    BY StepKeeps DEF UndoStep, Undone
  <1> QED
    BY <1>1, SyncInvariant, PTL DEF Spec, UndoMatches

----------------------------------------------------------------------------
(* Convergence.  The inductive invariant is StoryInv: SyncInv, and that an  *)
(* event is the same wherever it is, that a row follows from its own log,   *)
(* and that the creation of a private atom was told to nobody.              *)

\* The events of a sequence, and those of an atom among them.
LEMMA EntriesFacts ==
  /\ \A s, a : EventsOf(s, a) = {e \in Entries(s) : e.atom = a}
  /\ \A s, a : Erased(s, a) <=> \E e \in EventsOf(s, a) : e.type = "erase_request"
  /\ \A s, e : e \in Entries(s) <=> \E i \in 1 .. Len(s) : s[i] = e
  /\ \A s : IdsOf(s) = {e.id : e \in Entries(s)}
  <1>1. \A s, a : EventsOf(s, a) = {e \in Entries(s) : e.atom = a}
    BY DEF EventsOf, Entries
  <1>2. \A s, a : Erased(s, a) <=> \E e \in EventsOf(s, a) : e.type = "erase_request"
    BY DEF EventsOf, Erased
  <1>3. \A s, e : e \in Entries(s) <=> \E i \in 1 .. Len(s) : s[i] = e
    BY DEF Entries
  <1>4. \A s : IdsOf(s) = {e.id : e \in Entries(s)}
    BY DEF Entries, IdsOf
  <1> QED
    BY <1>1, <1>2, <1>3, <1>4

\* What was appended is there besides what was there.
LEMMA CatEntries ==
  ASSUME NEW s \in Seq(Event), NEW t \in Seq(Event)
  PROVE  /\ Entries(s \o t) = Entries(s) \cup Entries(t)
         /\ \A a : EventsOf(s \o t, a) = EventsOf(s, a) \cup EventsOf(t, a)
  <1>1. \A e : e \in Entries(s \o t) <=> e \in Entries(s) \/ e \in Entries(t)
    <2>1. /\ Len(s \o t) = Len(s) + Len(t)
          /\ \A i \in 1 .. Len(s) : i \in 1 .. Len(s \o t) /\ (s \o t)[i] = s[i]
          /\ \A i \in 1 .. Len(t) : Len(s) + i \in 1 .. Len(s \o t) /\ (s \o t)[Len(s) + i] = t[i]
          /\ \A k \in 1 .. Len(s \o t) :
               k \in 1 .. Len(s) \/ \E i \in 1 .. Len(t) : k = Len(s) + i
      BY CatElements
    <2> DEFINE u == s \o t
    <2> HIDE DEF u
    <2>2. \A e : e \in Entries(u) <=> \E i \in 1 .. Len(u) : u[i] = e
      BY EntriesFacts
    <2>3. \A e : /\ e \in Entries(s) <=> \E i \in 1 .. Len(s) : s[i] = e
                 /\ e \in Entries(t) <=> \E i \in 1 .. Len(t) : t[i] = e
      BY EntriesFacts
    <2>4. /\ \A i \in 1 .. Len(s) : i \in 1 .. Len(u) /\ u[i] = s[i]
          /\ \A i \in 1 .. Len(t) : Len(s) + i \in 1 .. Len(u) /\ u[Len(s) + i] = t[i]
          /\ \A k \in 1 .. Len(u) :
               k \in 1 .. Len(s) \/ \E i \in 1 .. Len(t) : k = Len(s) + i
      BY <2>1 DEF u
    <2>5. ASSUME NEW e
          PROVE  e \in Entries(u) <=> e \in Entries(s) \/ e \in Entries(t)
      <3>1. ASSUME NEW k \in 1 .. Len(u), u[k] = e
            PROVE  e \in Entries(s) \/ e \in Entries(t)
        <4>1. CASE k \in 1 .. Len(s)
          BY <2>3, <2>4, <3>1, <4>1
        <4>2. ASSUME NEW i \in 1 .. Len(t), k = Len(s) + i PROVE e \in Entries(t)
          BY <2>3, <2>4, <3>1, <4>2
        <4> QED
          BY <2>4, <4>1, <4>2
      <3>2. ASSUME NEW i \in 1 .. Len(s), s[i] = e PROVE e \in Entries(u)
        BY <2>2, <2>4, <3>2
      <3>3. ASSUME NEW i \in 1 .. Len(t), t[i] = e PROVE e \in Entries(u)
        <4>1. Len(s) + i \in 1 .. Len(u) /\ u[Len(s) + i] = e
          BY <2>4, <3>3
        <4> QED
          BY <2>2, <4>1
      <3> QED
        BY <2>2, <2>3, <3>1, <3>2, <3>3
    <2> QED
      BY <2>5 DEF u
  <1>2. \A a : EventsOf(s \o t, a) = EventsOf(s, a) \cup EventsOf(t, a)
    BY CatSets
  <1> QED
    BY <1>1, <1>2

\* What an operation of a device that writes es says of an atom: nothing of its state; that it
\* is hidden or shown here alone; that it is new, erased, invalidated or superseded.
Means(d, es, a) ==
  LET o == row[d][a]
      n == row'[d][a]
      E == EventsOf(es, a)
  IN
  \/ /\ o = NoRow <=> n = NoRow
     /\ n # NoRow => n.to = o.to /\ n.by = o.by /\ (Private(n) => Private(o))
     /\ \A e \in E : e.type \in {"usefulness", "promote_scope"}
  \/ /\ o # NoRow /\ n # NoRow /\ n.scope = o.scope
     /\ E # {} /\ \A e \in E : e.type \in LocalOnly
  \/ /\ o = NoRow /\ n # NoRow /\ n.to = 0 /\ n.by = NoAtom
     /\ a \notin Shared /\ \A c \in Devices : EventsOf(log[c], a) = {}
     /\ E # {} /\ \A e \in E : e.type = "create"
  \/ /\ o # NoRow /\ n = NoRow
     /\ E # {} /\ \A e \in E : e.type = "erase_request" /\ e.scope = o.scope
  \/ /\ Valid(row[d], a) /\ n # NoRow /\ n.to = Now(d) /\ n.by = o.by /\ n.scope = o.scope
     /\ \E e : E = {e} /\ e.type = "invalidate" /\ e.at = Now(d)
  \/ /\ Valid(row[d], a) /\ n # NoRow /\ n.to = Now(d) /\ n.scope = o.scope
     /\ \E e : E = {e} /\ e.type = "supersede" /\ e.at = Now(d) /\ n.by = e.to

MeantStep(d, es) ==
  /\ merge = NoMerge /\ Written(d, es)
  /\ log' = [log EXCEPT ![d] = @ \o es] /\ ids' = ids + Len(es)
  /\ UNCHANGED <<flight, cloud, merge>>
  /\ \A c \in Devices \ {d} : row'[c] = row[c]
  /\ \A a \in Atoms : Means(d, es, a)

\* One event of the atom is among es.
Says(d, es, a, type, to, scope) ==
  \E e : EventsOf(es, a) = {e} /\ e.type = type /\ e.to = to /\ e.scope = scope /\ e.at = Now(d)

\* All that t changes of the other rows is where they begin.
OthersStay(t, d, a) ==
  \A b \in Atoms \ {a} :
    /\ t[b] = NoRow <=> row[d][b] = NoRow
    /\ t[b] # NoRow => /\ t[b].to = row[d][b].to /\ t[b].by = row[d][b].by
                       /\ t[b].scope = row[d][b].scope

\* The parts of an operation with one event, of a: t is what it makes of the table.
LEMMA OneMeans ==
  ASSUME TypeOK, merge = NoMerge, NEW d \in Devices, NEW name, Op(d, name),
         NEW a \in Atoms, NEW type \in EventTypes, NEW to \in Atoms \cup {NoAtom},
         NEW scope \in Scopes, type = "supersede" => to \in Atoms,
         append(d, <<MkEvent(d, 1, type, a, to, scope)>>),
         NEW t, row' = [row EXCEPT ![d] = t],
         OthersStay(t, d, a)
  PROVE  \E es : /\ Means(d, es, a) => MeantStep(d, es)
                 /\ row'[d] = t /\ Says(d, es, a, type, to, scope)
  <1> DEFINE e  == MkEvent(d, 1, type, a, to, scope)
             es == <<e>>
  <1>1. /\ Written(d, es) /\ Len(es) = 1 /\ es[1] = e /\ e.atom = a /\ e.type = type
    BY WrittenOne
  <1>2. e.scope = scope /\ e.to = to /\ e.at = Now(d)
    BY DEF MkEvent
  <1>3. /\ log' = [log EXCEPT ![d] = @ \o es] /\ ids' = ids + Len(es)
        /\ UNCHANGED <<flight, cloud, merge>>
    BY DEF append, Op
  <1> HIDE DEF e, es
  <1>4. \A b : EventsOf(es, b) = IF b = a THEN {e} ELSE {}
    BY <1>1 DEF EventsOf
  <1>5. row'[d] = t /\ \A c \in Devices \ {d} : row'[c] = row[c]
    BY DEF TypeOK
  <1>7. ASSUME NEW b \in Atoms \ {a} PROVE Means(d, es, b)
    BY <1>4, <1>5 DEF Means, Private, OthersStay
  <1>8. Means(d, es, a) => MeantStep(d, es)
    BY <1>1, <1>3, <1>5, <1>7 DEF MeantStep
  <1>9. Says(d, es, a, type, to, scope)
    BY <1>1, <1>2, <1>4 DEF Says
  <1> QED
    BY <1>5, <1>8, <1>9

\* The lifecycle operations on one row.
LEMMA RowMeans ==
  ASSUME SyncInv, merge = NoMerge, NEW d \in Devices, NEW a \in Atoms,
         \/ usefulness(d, a) \/ invalidate(d, a) \/ archive(d, a) \/ restore(d, a)
         \/ unsupersede(d, a) \/ promoteScope(d, a) \/ erase(d, a)
         \/ \E scope \in Scopes : insertWithCreateEvent(d, a, scope)
  PROVE  \E es : MeantStep(d, es)
  <1> DEFINE o    == row[d][a]
             s(r) == [row[d] EXCEPT ![a] = r]
  <1>1. /\ TypeOK /\ row[d] \in Table /\ row \in [Devices -> Table] /\ Now(d) \in Nat
        /\ NoAtom \in Atoms \cup {NoAtom}
    BY Types DEF SyncInv, TypeOK
  <1>2. o # NoRow => o \in Row /\ o.scope \in Scopes
    BY <1>1, Types DEF Table
  <1>3. \A r : s(r)[a] = r /\ \A b \in Atoms \ {a} : s(r)[b] = row[d][b]
    BY <1>1 DEF Table
  <1>4. CASE usefulness(d, a)
    <2> DEFINE t == row[d]
    <2>1. /\ row' = [row EXCEPT ![d] = t] /\ Op(d, "usefulness") /\ o # NoRow
          /\ append(d, <<MkEvent(d, 1, "usefulness", a, NoAtom, o.scope)>>)
      BY <1>1, <1>4 DEF usefulness, append1
    <2>2. "usefulness" \in EventTypes /\ o.scope \in Scopes
      BY <1>2, <2>1 DEF EventTypes
    <2>4. OthersStay(t, d, a)
      BY DEF OthersStay
    <2> HIDE DEF o
    <2>3. PICK es : /\ Means(d, es, a) => MeantStep(d, es)
                    /\ row'[d] = t /\ Says(d, es, a, "usefulness", NoAtom, o.scope)
      BY <1>1, <2>1, <2>2, <2>4, OneMeans
    <2> QED
      BY <2>3 DEF Means, Private, Says
  <1>5. CASE invalidate(d, a)
    <2> DEFINE r == [o EXCEPT !.to = Now(d)]
               t == s(r)
               sc == o.scope
    <2>1. /\ row' = [row EXCEPT ![d] = t] /\ Op(d, "invalidate") /\ Valid(row[d], a)
          /\ append(d, <<MkEvent(d, 1, "invalidate", a, NoAtom, sc)>>)
      BY <1>1, <1>5 DEF invalidate, append1
    <2>2. "invalidate" \in EventTypes /\ sc \in Scopes
      BY <1>2, <2>1 DEF EventTypes, Scopes, Valid
    <2>3. r # NoRow /\ r.to = Now(d) /\ r.by = o.by /\ r.scope = o.scope
      <3>1. r \in Row
        BY <1>1, <1>2, <2>1, MemorySyncAssumption DEF Row, Valid
      <3>2. o \in Row
        BY <1>2, <2>1 DEF Valid
      <3> HIDE DEF o
      <3> QED
        BY <3>1, <3>2, RowIsThere DEF Row
    <2>4. /\ t[a] = r
          /\ OthersStay(t, d, a)
      BY <1>3 DEF OthersStay
    <2> HIDE DEF o, t, r, s, sc
    <2>5. PICK es : /\ Means(d, es, a) => MeantStep(d, es)
                    /\ row'[d] = t /\ Says(d, es, a, "invalidate", NoAtom, sc)
      BY <1>1, <2>1, <2>2, <2>4, OneMeans
    <2>6. Means(d, es, a)
      BY <2>1, <2>3, <2>4, <2>5 DEF Means, Private, Says, LocalOnly, o, sc
    <2> QED
      BY <2>5, <2>6
  <1>6. CASE archive(d, a)
    <2> DEFINE r == [o EXCEPT !.to = Now(d), !.archived = "yes"]
               t == s(r)
               sc == o.scope
    <2>1. /\ row' = [row EXCEPT ![d] = t] /\ Op(d, "archive") /\ Valid(row[d], a)
          /\ append(d, <<MkEvent(d, 1, "archive", a, NoAtom, sc)>>)
      BY <1>1, <1>6 DEF archive, append1
    <2>2. "archive" \in EventTypes /\ sc \in Scopes
      BY <1>2, <2>1 DEF EventTypes, Scopes, Valid
    <2>3. r # NoRow /\ r.scope = o.scope /\ o # NoRow
      <3>1. r \in Row
        BY <1>1, <1>2, <2>1, MemorySyncAssumption DEF Row, Valid
      <3>2. o \in Row
        BY <1>2, <2>1 DEF Valid
      <3> HIDE DEF o
      <3> QED
        BY <3>1, <3>2, RowIsThere DEF Row
    <2>4. /\ t[a] = r
          /\ OthersStay(t, d, a)
      BY <1>3 DEF OthersStay
    <2> HIDE DEF o, t, r, s, sc
    <2>5. PICK es : /\ Means(d, es, a) => MeantStep(d, es)
                    /\ row'[d] = t /\ Says(d, es, a, "archive", NoAtom, sc)
      BY <1>1, <2>1, <2>2, <2>4, OneMeans
    <2>6. Means(d, es, a)
      BY <2>1, <2>3, <2>4, <2>5 DEF Means, Private, Says, LocalOnly, o, sc
    <2> QED
      BY <2>5, <2>6
  <1>7. CASE restore(d, a)
    <2> DEFINE r == [o EXCEPT !.to = 0, !.archived = "no"]
               t == s(r)
               sc == o.scope
    <2>1. /\ row' = [row EXCEPT ![d] = t] /\ Op(d, "restore") /\ o # NoRow
          /\ append(d, <<MkEvent(d, 1, "restore", a, NoAtom, sc)>>)
      BY <1>1, <1>7 DEF restore, append1
    <2>2. "restore" \in EventTypes /\ sc \in Scopes
      BY <1>2, <2>1 DEF EventTypes, Scopes, Valid
    <2>3. r # NoRow /\ r.scope = o.scope
      <3>1. r \in Row
        BY <1>1, <1>2, <2>1, MemorySyncAssumption DEF Row, Valid
      <3>2. o \in Row
        BY <1>2, <2>1 DEF Valid
      <3> HIDE DEF o
      <3> QED
        BY <3>1, <3>2, RowIsThere DEF Row
    <2>4. /\ t[a] = r
          /\ OthersStay(t, d, a)
      BY <1>3 DEF OthersStay
    <2> HIDE DEF o, t, r, s, sc
    <2>5. PICK es : /\ Means(d, es, a) => MeantStep(d, es)
                    /\ row'[d] = t /\ Says(d, es, a, "restore", NoAtom, sc)
      BY <1>1, <2>1, <2>2, <2>4, OneMeans
    <2>6. Means(d, es, a)
      BY <2>1, <2>3, <2>4, <2>5 DEF Means, Private, Says, LocalOnly, o, sc
    <2> QED
      BY <2>5, <2>6
  <1>8. CASE unsupersede(d, a)
    <2> DEFINE r == [o EXCEPT !.to = 0, !.by = NoAtom]
               t == s(r)
               sc == o.scope
    <2>1. /\ row' = [row EXCEPT ![d] = t] /\ Op(d, "unsupersede") /\ o # NoRow
          /\ append(d, <<MkEvent(d, 1, "unsupersede", a, NoAtom, sc)>>)
      BY <1>1, <1>8 DEF unsupersede, append1
    <2>2. "unsupersede" \in EventTypes /\ sc \in Scopes
      BY <1>2, <2>1 DEF EventTypes, Scopes, Valid
    <2>3. r # NoRow /\ r.scope = o.scope
      <3>1. r \in Row
        BY <1>1, <1>2, <2>1, MemorySyncAssumption DEF Row, Valid
      <3>2. o \in Row
        BY <1>2, <2>1 DEF Valid
      <3> HIDE DEF o
      <3> QED
        BY <3>1, <3>2, RowIsThere DEF Row
    <2>4. /\ t[a] = r
          /\ OthersStay(t, d, a)
      BY <1>3 DEF OthersStay
    <2> HIDE DEF o, t, r, s, sc
    <2>5. PICK es : /\ Means(d, es, a) => MeantStep(d, es)
                    /\ row'[d] = t /\ Says(d, es, a, "unsupersede", NoAtom, sc)
      BY <1>1, <2>1, <2>2, <2>4, OneMeans
    <2>6. Means(d, es, a)
      BY <2>1, <2>3, <2>4, <2>5 DEF Means, Private, Says, LocalOnly, o, sc
    <2> QED
      BY <2>5, <2>6
  <1>9. CASE promoteScope(d, a)
    <2> DEFINE r == [o EXCEPT !.scope = "shared"]
               t == s(r)
    <2>1. /\ row' = [row EXCEPT ![d] = t] /\ Op(d, "promote") /\ o # NoRow
          /\ append(d, <<MkEvent(d, 1, "promote_scope", a, NoAtom, "shared")>>)
      BY <1>1, <1>9 DEF promoteScope
    <2>2. "promote_scope" \in EventTypes /\ "shared" \in Scopes
      BY <1>2, <2>1 DEF EventTypes, Scopes, Valid
    <2>3. r # NoRow /\ r.scope = "shared" /\ r.to = o.to /\ r.by = o.by
      <3>1. r \in Row
        BY <1>1, <1>2, <2>1, <2>2, MemorySyncAssumption DEF Row, Valid
      <3>2. o \in Row
        BY <1>2, <2>1 DEF Valid
      <3> HIDE DEF o
      <3> QED
        BY <3>1, <3>2, RowIsThere DEF Row
    <2>4. /\ t[a] = r
          /\ OthersStay(t, d, a)
      BY <1>3 DEF OthersStay
    <2> HIDE DEF o, t, r, s
    <2>5. PICK es : /\ Means(d, es, a) => MeantStep(d, es)
                    /\ row'[d] = t /\ Says(d, es, a, "promote_scope", NoAtom, "shared")
      BY <1>1, <2>1, <2>2, <2>4, OneMeans
    <2>6. Means(d, es, a)
      BY <2>1, <2>3, <2>4, <2>5 DEF Means, Private, Says, LocalOnly, o
    <2> QED
      BY <2>5, <2>6
  <1>10. CASE erase(d, a)
    <2> DEFINE r == NoRow
               t == s(r)
               sc == o.scope
    <2>1. /\ row' = [row EXCEPT ![d] = t] /\ Op(d, "erase") /\ o # NoRow
          /\ append(d, <<MkEvent(d, 1, "erase_request", a, NoAtom, sc)>>)
      BY <1>1, <1>10 DEF erase, append1
    <2>2. "erase_request" \in EventTypes /\ sc \in Scopes
      BY <1>2, <2>1 DEF EventTypes, Scopes, Valid
    <2>3. r = NoRow
      OBVIOUS
    <2>4. /\ t[a] = r
          /\ OthersStay(t, d, a)
      BY <1>3 DEF OthersStay
    <2> HIDE DEF o, t, r, s, sc
    <2>5. PICK es : /\ Means(d, es, a) => MeantStep(d, es)
                    /\ row'[d] = t /\ Says(d, es, a, "erase_request", NoAtom, sc)
      BY <1>1, <2>1, <2>2, <2>4, OneMeans
    <2>6. Means(d, es, a)
      BY <2>1, <2>3, <2>4, <2>5 DEF Means, Private, Says, LocalOnly, o, sc
    <2> QED
      BY <2>5, <2>6
  <1>11. ASSUME NEW scope \in Scopes, insertWithCreateEvent(d, a, scope)
         PROVE  \E es : MeantStep(d, es)
    <2> DEFINE r == NewRow(scope, Now(d))
               t == s(r)
    <2>1. /\ row' = [row EXCEPT ![d] = t] /\ Op(d, "create") /\ o = NoRow /\ a \notin Shared
          /\ \A c \in Devices : EventsOf(log[c], a) = {}
          /\ append(d, <<MkEvent(d, 1, "create", a, NoAtom, scope)>>)
      BY <1>1, <1>11 DEF insertWithCreateEvent
    <2>2. "create" \in EventTypes /\ scope \in Scopes
      BY <1>2, <2>1 DEF EventTypes, Scopes, Valid
    <2>3. r # NoRow /\ r.to = 0 /\ r.by = NoAtom
      BY <1>1, <1>11, RowIsThere, MemorySyncAssumption DEF Row, NewRow
    <2>4. /\ t[a] = r
          /\ OthersStay(t, d, a)
      BY <1>3 DEF OthersStay
    <2> HIDE DEF o, t, r, s
    <2>5. PICK es : /\ Means(d, es, a) => MeantStep(d, es)
                    /\ row'[d] = t /\ Says(d, es, a, "create", NoAtom, scope)
      BY <1>1, <2>1, <2>2, <2>4, OneMeans
    <2>6. Means(d, es, a)
      BY <2>1, <2>3, <2>4, <2>5 DEF Means, Private, Says, LocalOnly, o
    <2> QED
      BY <2>5, <2>6
  <1> QED
    BY <1>4, <1>5, <1>6, <1>7, <1>8, <1>9, <1>10, <1>11

\* A supersession: the successor's row changes in where it begins alone.
LEMMA SupersedeMeans ==
  ASSUME SyncInv, merge = NoMerge, NEW d \in Devices, NEW a \in Atoms, NEW b \in Atoms,
         supersede(d, a, b)
  PROVE  \E es : MeantStep(d, es)
  <1> DEFINE o  == row[d][a]
             p  == row[d][b]
             ra == [o EXCEPT !.to = Now(d), !.by = b]
             rb == [p EXCEPT !.from = Now(d)]
             rr == [ra EXCEPT !.from = Now(d)]
             t  == IF a = b THEN [row[d] EXCEPT ![a] = rr]
                            ELSE [row[d] EXCEPT ![a] = ra, ![b] = rb]
             sc == o.scope
  <1>1. /\ TypeOK /\ row[d] \in Table /\ row \in [Devices -> Table] /\ Now(d) \in Nat
        /\ "supersede" \in EventTypes
    BY Types DEF SyncInv, TypeOK, EventTypes
  <1>2. /\ o # NoRow /\ p # NoRow /\ o \in Row /\ p \in Row /\ sc \in Scopes /\ Valid(row[d], a)
        /\ o.scope \in Scopes /\ b # NoAtom
    BY <1>1, Types DEF supersede, Valid, Table
  <1>3. /\ ra \in Row /\ ra.to = Now(d) /\ ra.by = b /\ ra.scope = o.scope
    BY <1>1, <1>2 DEF Row
  <1>4. /\ rr \in Row /\ rr.to = Now(d) /\ rr.by = b /\ rr.scope = o.scope
    BY <1>1, <1>2 DEF Row
  <1>5. /\ rb \in Row /\ rb.to = p.to /\ rb.by = p.by /\ rb.scope = p.scope
    BY <1>1, <1>2 DEF Row
  <1>6. row' = [row EXCEPT ![d] = t]
    <2>1. CASE a = b
      BY <1>1, <1>2, <2>1 DEF supersede, Table
    <2>2. CASE a # b
      BY <1>1, <1>2, <2>2 DEF supersede, Table
    <2> QED
      BY <2>1, <2>2
  <1>7. Op(d, "supersede") /\ append(d, <<MkEvent(d, 1, "supersede", a, b, sc)>>)
    BY DEF supersede
  <1> HIDE DEF ra, rb, rr, sc
  <1>8. /\ a = b => t[a] = rr
        /\ a # b => t[a] = ra /\ t[b] = rb
        /\ \A x \in Atoms \ {a, b} : t[x] = row[d][x]
    BY <1>1 DEF Table
  <1> HIDE DEF t
  <1>9. t[a] # NoRow /\ t[a].to = Now(d) /\ t[a].by = b /\ t[a].scope = o.scope
    BY <1>3, <1>4, <1>8, RowIsThere
  <1>10. OthersStay(t, d, a)
    <2>1. ASSUME NEW x \in Atoms \ {a}
          PROVE  /\ t[x] = NoRow <=> row[d][x] = NoRow
                 /\ t[x] # NoRow => /\ t[x].to = row[d][x].to /\ t[x].by = row[d][x].by
                                    /\ t[x].scope = row[d][x].scope
      <3>1. CASE x = b
        BY <1>2, <1>5, <1>8, <3>1, RowIsThere
      <3>2. CASE x # b
        BY <1>8, <3>2
      <3> QED
        BY <3>1, <3>2
    <2> QED
      BY <2>1 DEF OthersStay
  <1> HIDE DEF o
  <1>11. PICK es : /\ Means(d, es, a) => MeantStep(d, es)
                   /\ row'[d] = t /\ Says(d, es, a, "supersede", b, sc)
    BY <1>1, <1>2, <1>6, <1>7, <1>10, OneMeans
  <1>12. Means(d, es, a)
    BY <1>2, <1>9, <1>11 DEF Means, Says, sc, o
  <1> QED
    BY <1>11, <1>12

\* t removes the rows of P, or hides or shows them.
Rewrites(d, type, P, t) ==
  /\ \A a \in Atoms \ P : t[a] = row[d][a]
  /\ \A a \in P : /\ row[d][a] # NoRow
                  /\ IF type = "erase_request" THEN t[a] = NoRow
                     ELSE type \in LocalOnly /\ t[a] # NoRow /\ t[a].scope = row[d][a].scope

\* The parts of an operation on several rows, with an event for each.
LEMMA ManyMeans ==
  ASSUME TypeOK, merge = NoMerge, NEW d \in Devices, NEW P \in SUBSET Atoms,
         NEW type \in EventTypes \ {"supersede"}, NEW t, row' = [row EXCEPT ![d] = t],
         append(d, OnePerAtom(d, type, P)), UNCHANGED <<flight, cloud, merge>>,
         Rewrites(d, type, P, t)
  PROVE  \E es : MeantStep(d, es)
  <1> DEFINE es == OnePerAtom(d, type, P)
  <1>1. /\ Written(d, es)
        /\ \A a \in P : EventsOf(es, a) # {}
        /\ \A a : \A e \in EventsOf(es, a) :
             a \in P /\ e.type = type /\ e.scope = row[d][a].scope
    BY BatchEvents DEF Rewrites
  <1>2. /\ log' = [log EXCEPT ![d] = @ \o es] /\ ids' = ids + Len(es)
    BY DEF append
  <1> HIDE DEF es
  <1>3. row'[d] = t /\ \A c \in Devices \ {d} : row'[c] = row[c]
    BY DEF TypeOK
  <1>4. ASSUME NEW a \in Atoms PROVE Means(d, es, a)
    <2>1. CASE a \notin P
      <3>1. row'[d][a] = row[d][a] /\ EventsOf(es, a) = {}
        BY <1>1, <1>3, <2>1 DEF Rewrites
      <3> QED
        BY <3>1 DEF Means
    <2>2. CASE a \in P /\ type = "erase_request"
      BY <1>1, <1>3, <2>2 DEF Means, Rewrites
    <2>3. CASE a \in P /\ type # "erase_request"
      BY <1>1, <1>3, <2>3 DEF Means, Rewrites
    <2> QED
      BY <2>1, <2>2, <2>3
  <1>5. MeantStep(d, es)
    BY <1>1, <1>2, <1>3, <1>4 DEF MeantStep
  <1> QED
    BY <1>5

\* The operations on a batch of rows.
LEMMA BatchMeans ==
  ASSUME SyncInv, merge = NoMerge, NEW d \in Devices, NEW b \in 1 .. MaxBatches,
         \/ \E S \in SUBSET Atoms : purgeBatch(d, b, S)
         \/ restorePurgeBatch(d, b) \/ finalizePurgeBatch(d, b)
  PROVE  \E es : MeantStep(d, es)
  <1>1. /\ TypeOK /\ row[d] \in Table /\ row \in [Devices -> Table]
    BY Types DEF SyncInv, TypeOK
  <1>3. ASSUME NEW S \in SUBSET Atoms, purgeBatch(d, b, S) PROVE \E es : MeantStep(d, es)
    <2> DEFINE P == {a \in S : Valid(row[d], a)}
               t == [a \in Atoms |->
                      IF a \in P THEN [row[d][a] EXCEPT !.to = Now(d), !.batch = b] ELSE row[d][a]]
    <2>1. /\ row' = [row EXCEPT ![d] = t] /\ append(d, OnePerAtom(d, "purge", P))
          /\ UNCHANGED <<flight, cloud, merge>>
      BY <1>3 DEF purgeBatch, Op
    <2>2. \A a \in P : a \in Atoms /\ row[d][a] # NoRow /\ row[d][a] \in Row
      BY <1>1 DEF Valid, Table
    <2>3. Now(d) \in Nat /\ b \in 0 .. MaxBatches
      BY <1>1, Types
    <2> HIDE DEF P
    <2>4. ASSUME NEW a \in P PROVE t[a] # NoRow /\ t[a].scope = row[d][a].scope
      <3> DEFINE r == [row[d][a] EXCEPT !.to = Now(d), !.batch = b]
      <3>1. t[a] = r /\ row[d][a] \in Row
        BY <2>2
      <3>2. r.scope = row[d][a].scope
        BY <3>1 DEF Row
      <3>3. r \in Row
        BY <2>3, <3>1 DEF Row
      <3> HIDE DEF r, t
      <3> QED
        BY <3>1, <3>2, <3>3, RowIsThere
    <2>5. \A a \in Atoms \ P : t[a] = row[d][a]
      OBVIOUS
    <2>6. "purge" \in EventTypes \ {"supersede"} /\ "purge" \in LocalOnly /\ P \in SUBSET Atoms
      BY <2>2 DEF EventTypes, LocalOnly
    <2> HIDE DEF t
    <2>7. Rewrites(d, "purge", P, t)
      BY <2>2, <2>4, <2>5, <2>6 DEF Rewrites
    <2> QED
      BY <1>1, <2>1, <2>6, <2>7, ManyMeans
  <1>4. ASSUME restorePurgeBatch(d, b) PROVE \E es : MeantStep(d, es)
    <2> DEFINE P == InBatch(d, b)
               t == [a \in Atoms |->
                      IF a \in P THEN [row[d][a] EXCEPT !.to = 0, !.batch = 0] ELSE row[d][a]]
    <2>1. /\ row' = [row EXCEPT ![d] = t] /\ append(d, OnePerAtom(d, "unpurge", P))
          /\ UNCHANGED <<flight, cloud, merge>>
      BY <1>4 DEF restorePurgeBatch, Op
    <2>2. \A a \in P : a \in Atoms /\ row[d][a] # NoRow /\ row[d][a] \in Row
      BY <1>1 DEF InBatch, Table
    <2>3. 0 \in 0 .. MaxBatches
      BY MemorySyncAssumption
    <2> HIDE DEF P
    <2>4. ASSUME NEW a \in P PROVE t[a] # NoRow /\ t[a].scope = row[d][a].scope
      <3> DEFINE r == [row[d][a] EXCEPT !.to = 0, !.batch = 0]
      <3>1. t[a] = r /\ row[d][a] \in Row
        BY <2>2
      <3>2. r.scope = row[d][a].scope
        BY <3>1 DEF Row
      <3>3. r \in Row
        BY <2>3, <3>1 DEF Row
      <3> HIDE DEF r, t
      <3> QED
        BY <3>1, <3>2, <3>3, RowIsThere
    <2>5. \A a \in Atoms \ P : t[a] = row[d][a]
      OBVIOUS
    <2>6. "unpurge" \in EventTypes \ {"supersede"} /\ "unpurge" \in LocalOnly /\ P \in SUBSET Atoms
      BY <2>2 DEF EventTypes, LocalOnly
    <2> HIDE DEF t
    <2>7. Rewrites(d, "unpurge", P, t)
      BY <2>2, <2>4, <2>5, <2>6 DEF Rewrites
    <2> QED
      BY <1>1, <2>1, <2>6, <2>7, ManyMeans
  <1>5. ASSUME finalizePurgeBatch(d, b) PROVE \E es : MeantStep(d, es)
    <2> DEFINE P == InBatch(d, b)
               t == [a \in Atoms |-> IF a \in P THEN NoRow ELSE row[d][a]]
    <2>1. /\ row' = [row EXCEPT ![d] = t] /\ append(d, OnePerAtom(d, "erase_request", P))
          /\ UNCHANGED <<flight, cloud, merge>>
      BY <1>5 DEF finalizePurgeBatch, Op
    <2>2. P \in SUBSET Atoms /\ \A a \in P : row[d][a] # NoRow
      BY DEF InBatch
    <2> HIDE DEF P
    <2>3. (\A a \in P : t[a] = NoRow) /\ \A a \in Atoms \ P : t[a] = row[d][a]
      BY <2>2
    <2>4. "erase_request" \in EventTypes \ {"supersede"}
      BY DEF EventTypes
    <2> HIDE DEF t
    <2>5. Rewrites(d, "erase_request", P, t)
      BY <2>2, <2>3 DEF Rewrites
    <2> QED
      BY <1>1, <2>1, <2>2, <2>4, <2>5, ManyMeans
  <1> QED
    BY <1>3, <1>4, <1>5

\* Every lifecycle operation does to rows what its events say, or passes a deadline.
LEMMA LifecycleMeans ==
  ASSUME SyncInv, merge = NoMerge, NEW d \in Devices, Lifecycle(d)
  PROVE  (\E es : MeantStep(d, es)) \/ UNCHANGED <<row, log, flight, cloud, merge, ids>>
  <1>1. ASSUME NEW a \in Atoms, NEW scope \in Scopes, insertWithCreateEvent(d, a, scope)
        PROVE  \E es : MeantStep(d, es)
    BY <1>1, RowMeans
  <1>2. ASSUME NEW a \in Atoms,
               \/ usefulness(d, a) \/ invalidate(d, a) \/ archive(d, a) \/ restore(d, a)
               \/ unsupersede(d, a) \/ promoteScope(d, a) \/ erase(d, a)
        PROVE  \E es : MeantStep(d, es)
    BY <1>2, RowMeans
  <1>3. ASSUME NEW a \in Atoms, NEW b \in Atoms, supersede(d, a, b)
        PROVE  \E es : MeantStep(d, es)
    BY <1>3, SupersedeMeans
  <1>4. ASSUME NEW b \in 1 .. MaxBatches,
               \/ \E S \in SUBSET Atoms : purgeBatch(d, b, S)
               \/ restorePurgeBatch(d, b) \/ finalizePurgeBatch(d, b)
        PROVE  \E es : MeantStep(d, es)
    BY <1>4, BatchMeans
  <1>5. ASSUME NEW b \in 1 .. MaxBatches, RestoreDeadline(d, b)
        PROVE  UNCHANGED <<row, log, flight, cloud, merge, ids>>
    BY <1>5 DEF RestoreDeadline
  <1> QED
    BY <1>1, <1>2, <1>3, <1>4, <1>5 DEF Lifecycle

----------------------------------------------------------------------------
(* The story of a lifecycle operation.                                     *)

\* What the world is made of.
LEMMA WorldHas ==
  /\ \A e : e \in World <=> \/ e \in Entries(cloud)
                            \/ \E c \in Devices : e \in Entries(log[c]) \/ e \in Entries(flight[c])
  /\ \A e : e \in World' <=> \/ e \in Entries(cloud')
                             \/ \E c \in Devices : e \in Entries(log'[c]) \/ e \in Entries(flight'[c])
  <1> DEFINE W == UNION {Entries(log[d]) \cup Entries(flight[d]) : d \in Devices}
             V == UNION {Entries(log'[d]) \cup Entries(flight'[d]) : d \in Devices}
  <1>1. \A e : e \in W <=> \E c \in Devices : e \in Entries(log[c]) \/ e \in Entries(flight[c])
    OBVIOUS
  <1>2. \A e : e \in V <=> \E c \in Devices : e \in Entries(log'[c]) \/ e \in Entries(flight'[c])
    OBVIOUS
  <1>3. World = Entries(cloud) \cup W /\ World' = Entries(cloud') \cup V
    BY DEF World, Entries
  <1> HIDE DEF V, W
  <1> QED
    BY <1>1, <1>2, <1>3

\* The ids of all events were given out, and a device's log has those of its envelope; what
\* the cloud has is in some log.
LEMMA WorldIds ==
  ASSUME SyncInv
  PROVE  /\ \A e \in World : e \in Event /\ e.id \in 1 .. ids
         /\ \A e \in World : \E c \in Devices : \E f \in Entries(log[c]) : f.id = e.id
         /\ \A c \in Devices : Entries(log[c]) \subseteq World /\ Entries(flight[c]) \subseteq World
         /\ Entries(cloud) \subseteq World
  <1>1. TypeOK /\ HistoriesSound
    BY DEF SyncInv
  <1>2. /\ \A c \in Devices : Entries(log[c]) \subseteq World /\ Entries(flight[c]) \subseteq World
        /\ Entries(cloud) \subseteq World
        /\ \A e \in World : e \in Entries(cloud) \/ \E c \in Devices :
                              e \in Entries(log[c]) \cup Entries(flight[c])
    BY WorldHas
  <1>3. ASSUME NEW s, History(s, ids), NEW e \in Entries(s)
        PROVE  e \in Event /\ e.id \in 1 .. ids
    BY <1>3 DEF History, Entries
  <1>4. ASSUME NEW e \in World PROVE e \in Event /\ e.id \in 1 .. ids
    BY <1>1, <1>2, <1>3 DEF HistoriesSound
  <1>5. ASSUME NEW e \in World PROVE \E c \in Devices : \E f \in Entries(log[c]) : f.id = e.id
    <2>1. CASE e \in Entries(cloud)
      <3>1. \E c \in Devices : e.id \in IdsOf(log[c])
        BY <1>1, <2>1 DEF HistoriesSound, Entries
      <3> QED
        BY <3>1, EntriesFacts
    <2>2. ASSUME NEW c \in Devices, e \in Entries(log[c]) \cup Entries(flight[c])
          PROVE  \E f \in Entries(log[c]) : f.id = e.id
      <3>1. e.id \in IdsOf(log[c])
        BY <1>1, <2>2, EntriesFacts DEF HistoriesSound
      <3> QED
        BY <3>1, EntriesFacts
    <2> QED
      BY <1>2, <2>1, <2>2
  <1> QED
    BY <1>2, <1>4, <1>5

\* An atom no log speaks of is nowhere.
LEMMA Unheard ==
  ASSUME SyncInv, OneStory, NEW a, \A c \in Devices : EventsOf(log[c], a) = {}
  PROVE  \A e \in World : e.atom # a
  <1>1. ASSUME NEW e \in World, e.atom = a PROVE FALSE
    <2>1. PICK c \in Devices : \E f \in Entries(log[c]) : f.id = e.id
      BY WorldIds
    <2>2. PICK f \in Entries(log[c]) : f.id = e.id
      BY <2>1
    <2>3. f \in World
      BY WorldIds
    <2>4. f.atom = a
      BY <1>1, <2>2, <2>3 DEF OneStory, Same
    <2>5. f \in EventsOf(log[c], a)
      BY <2>4, EntriesFacts
    <2> QED
      BY <2>5
  <1> QED
    BY <1>1

\* Events with new ids, each its own, leave one story.
LEMMA StoryGoesOn ==
  ASSUME SyncInv, OneStory, NEW N, \A e \in N : e.id > ids, \A e, f \in N : e.id = f.id => e = f,
         World' \subseteq World \cup N
  PROVE  OneStory'
  <1>1. ids \in Nat /\ \A e \in World : e.id \in 1 .. ids
    BY WorldIds DEF SyncInv, TypeOK
  <1>2. \A e \in World, f \in N : e.id # f.id
    BY <1>1
  <1>3. ASSUME NEW e \in World', NEW f \in World', e.id = f.id PROVE Same(e, f)
    <2>0. (e \in World \/ e \in N) /\ (f \in World \/ f \in N)
      OBVIOUS
    <2>1. (e \in World /\ f \in World) \/ (e \in N /\ f \in N)
      BY <1>2, <1>3, <2>0
    <2> QED
      BY <1>3, <2>1 DEF OneStory, Same
  <1> QED
    BY <1>3 DEF OneStory, Same

\* Times and winners depend on the events alone.
LEMMA OneEvent ==
  /\ \A E, s, u : maxByTieBreak(E, s) = maxByTieBreak(E, u)
  /\ \A e, s : e.at \in Nat => MinAt({e}) = e.at
  /\ \A e, s : maxByTieBreak({e}, s) = e
  <1>1. \A E, s, u : maxByTieBreak(E, s) = maxByTieBreak(E, u)
    BY DEF maxByTieBreak
  <1>2. ASSUME NEW e, e.at \in Nat PROVE MinAt({e}) = e.at
    <2>1. (CHOOSE x \in {e} : \A y \in {e} : x.at <= y.at) = e
      BY <1>2
    <2> QED
      BY <2>1 DEF MinAt
  <1>3. ASSUME NEW e, NEW s PROVE maxByTieBreak({e}, s) = e
    <2>1. (CHOOSE x \in {e} : \A f \in {e} \ {x} : Earlier(f, x)) = e
      OBVIOUS
    <2> QED
      BY <2>1 DEF maxByTieBreak
  <1> QED
    BY <1>1, <1>2, <1>3

\* What a log says of an atom, from the events of the atom.
LEMMA Readings ==
  /\ \A s, a : Created(s, a) <=> a \in Shared \/ \E e \in EventsOf(s, a) : e.type = "create"
  /\ \A s, a : Withdrawn(s, a) <=> \E e \in EventsOf(s, a) : e.type \in LocalOnly
  /\ \A s, a : Erased(s, a) <=> \E e \in EventsOf(s, a) : e.type = "erase_request"
  /\ \A s, a, e : e \in Supersedes(s, a) <=> e \in EventsOf(s, a) /\ e.type = "supersede"
  /\ \A s, a, e : e \in Invalidates(s, a) <=> e \in EventsOf(s, a) /\ e.type = "invalidate"
  BY EntriesFacts DEF Created, Withdrawn, Supersedes, Invalidates

\* A row follows from a log when it has the earliest time and the last successor of its
\* supersede events, or the earliest time of its invalidations; not the order of the log.
LEMMA FollowsAlike ==
  ASSUME NEW r, NEW q, NEW s, NEW u, NEW a, Follows(r, s, a), q.to = r.to, q.by = r.by,
         Supersedes(u, a) = Supersedes(s, a), Invalidates(u, a) = Invalidates(s, a)
  PROVE  Follows(q, u, a)
  <1>1. maxByTieBreak(Supersedes(u, a), u) = maxByTieBreak(Supersedes(s, a), s)
    BY OneEvent
  <1> QED
    BY <1>1 DEF Follows

\* What an operation of the device makes of a row follows from the log it leaves.
LEMMA MeantFollows ==
  ASSUME SyncInv, RowsFollow, NEW d \in Devices, NEW es, MeantStep(d, es), NEW a \in Atoms
  PROVE  IF row'[d][a] = NoRow THEN Created(log'[d], a) => Erased(log'[d], a)
         ELSE /\ Created(log'[d], a)
              /\ Withdrawn(log'[d], a) \/ Follows(row'[d][a], log'[d], a)
  <1> DEFINE o == row[d][a]
             n == row'[d][a]
             s == log[d]
             u == log'[d]
             E == EventsOf(es, a)
             S == Supersedes(s, a)
             I == Invalidates(s, a)
  <1>1. /\ Means(d, es, a) /\ es \in Seq(Event) /\ s \in Seq(Event) /\ u = s \o es
        /\ History(s, ids) /\ Now(d) \in Nat
    BY Types DEF SyncInv, TypeOK, HistoriesSound, MeantStep, Written
  <1>2. EventsOf(u, a) = EventsOf(s, a) \cup E
    BY <1>1, CatEntries
  <1>3. IF o = NoRow THEN Created(s, a) => Erased(s, a)
        ELSE Created(s, a) /\ (Withdrawn(s, a) \/ Follows(o, s, a))
    BY DEF RowsFollow
  <1>4. /\ Created(s, a) => Created(u, a)
        /\ Withdrawn(s, a) => Withdrawn(u, a)
        /\ Erased(s, a) => Erased(u, a)
    BY <1>2, Readings
  <1>5. ASSUME o # NoRow, o.to = 0, Follows(o, s, a)
        PROVE  S = {} /\ I = {} /\ o.by = NoAtom
    <2>1. /\ \A e \in S : \E k \in 1 .. Len(s) : s[k] = e
          /\ \A e \in I : \E k \in 1 .. Len(s) : s[k] = e
      <3>1. History(log[d], ids)
        BY <1>1
      <3> QED
        BY <3>1, Kinds
    <2>2. S # {} => MinAt(S) \in Nat \ {0}
      BY <1>1, <2>1, TieBreak
    <2>3. I # {} => MinAt(I) \in Nat \ {0}
      BY <1>1, <2>1, TieBreak
    <2> HIDE DEF S, I, o
    <2> QED
      BY <1>5, <2>2, <2>3 DEF Follows, S, I
  <1> HIDE DEF E, o, n, s, u
  <1>6. CASE /\ o = NoRow <=> n = NoRow
             /\ n # NoRow => n.to = o.to /\ n.by = o.by /\ (Private(n) => Private(o))
             /\ \A e \in E : e.type \in {"usefulness", "promote_scope"}
    <2>1. /\ Supersedes(u, a) = Supersedes(s, a) /\ Invalidates(u, a) = Invalidates(s, a)
          /\ Created(u, a) => Created(s, a)
      <3>1. \A e \in E : e.type \notin {"supersede", "invalidate", "create"}
        BY <1>6
      <3>2. Supersedes(u, a) = Supersedes(s, a)
        BY <1>2, <3>1 DEF Supersedes
      <3>3. Invalidates(u, a) = Invalidates(s, a)
        BY <1>2, <3>1 DEF Invalidates
      <3>4. Created(u, a) => Created(s, a)
        BY <1>2, <3>1 DEF Created
      <3> QED
        BY <3>2, <3>3, <3>4
    <2>2. n # NoRow /\ Follows(o, s, a) => Follows(n, u, a)
      BY <1>6, <2>1, FollowsAlike
    <2> QED
      BY <1>3, <1>4, <1>6, <2>1, <2>2 DEF o, n, s, u
  <1>7. CASE /\ o # NoRow /\ n # NoRow /\ n.scope = o.scope
             /\ E # {} /\ \A e \in E : e.type \in LocalOnly
    <2>1. Withdrawn(u, a)
      BY <1>2, <1>7, Readings
    <2> QED
      BY <1>3, <1>4, <1>7, <2>1 DEF o, n, s, u
  <1>8. CASE /\ o = NoRow /\ n # NoRow /\ n.to = 0 /\ n.by = NoAtom
             /\ a \notin Shared /\ \A c \in Devices : EventsOf(log[c], a) = {}
             /\ E # {} /\ \A e \in E : e.type = "create"
    <2>1. EventsOf(u, a) = E
      BY <1>2, <1>8 DEF s
    <2>2. Created(u, a) /\ Supersedes(u, a) = {} /\ Invalidates(u, a) = {}
      BY <1>8, <2>1, Readings
    <2>3. Follows(n, u, a)
      BY <1>8, <2>2 DEF Follows
    <2> QED
      BY <1>8, <2>2, <2>3 DEF n, u
  <1>9. CASE /\ o # NoRow /\ n = NoRow
             /\ E # {} /\ \A e \in E : e.type = "erase_request" /\ e.scope = o.scope
    <2>1. Erased(u, a)
      BY <1>2, <1>9, Readings
    <2> QED
      BY <1>9, <2>1 DEF n, u
  <1>10. CASE /\ Valid(row[d], a) /\ n # NoRow /\ n.to = Now(d) /\ n.by = o.by /\ n.scope = o.scope
              /\ \E e : E = {e} /\ e.type = "invalidate" /\ e.at = Now(d)
    <2>1. o # NoRow /\ o.to = 0
      BY <1>10 DEF Valid, o
    <2>2. ASSUME Follows(o, s, a) PROVE Follows(n, u, a)
      <3>1. PICK e : E = {e} /\ e.type = "invalidate" /\ e.at = Now(d)
        BY <1>10
      <3>2. S = {} /\ I = {} /\ o.by = NoAtom
        BY <1>5, <2>1, <2>2
      <3>3. Supersedes(u, a) = {} /\ Invalidates(u, a) = {e}
        BY <1>2, <3>1, <3>2, Readings
      <3>4. MinAt(Invalidates(u, a)) = Now(d)
        BY <1>1, <3>1, <3>3, OneEvent
      <3> QED
        BY <1>10, <3>2, <3>3, <3>4 DEF Follows
    <2> QED
      BY <1>3, <1>4, <1>10, <2>1, <2>2 DEF n, u
  <1>11. CASE /\ Valid(row[d], a) /\ n # NoRow /\ n.to = Now(d) /\ n.scope = o.scope
              /\ \E e : E = {e} /\ e.type = "supersede" /\ e.at = Now(d) /\ n.by = e.to
    <2>1. o # NoRow /\ o.to = 0
      BY <1>11 DEF Valid, o
    <2>2. ASSUME Follows(o, s, a) PROVE Follows(n, u, a)
      <3>1. PICK e : E = {e} /\ e.type = "supersede" /\ e.at = Now(d) /\ n.by = e.to
        BY <1>11
      <3>2. S = {} /\ I = {} /\ o.by = NoAtom
        BY <1>5, <2>1, <2>2
      <3>3. Supersedes(u, a) = {e}
        BY <1>2, <3>1, <3>2, Readings
      <3>4. MinAt(Supersedes(u, a)) = Now(d) /\ maxByTieBreak(Supersedes(u, a), u) = e
        BY <1>1, <3>1, <3>3, OneEvent
      <3> QED
        BY <1>11, <3>1, <3>3, <3>4 DEF Follows
    <2> QED
      BY <1>3, <1>4, <1>11, <2>1, <2>2 DEF n, u
  <1> QED
    BY <1>1, <1>6, <1>7, <1>8, <1>9, <1>10, <1>11 DEF Means, o, n, E

\* What is private on a device stays its secret under an operation of any device.
LEMMA MeantSecrets ==
  ASSUME SyncInv, OneStory, RowsFollow, SecretsKept, NEW d \in Devices, NEW es, MeantStep(d, es)
  PROVE  SecretsKept'
  <1>1. /\ es \in Seq(Event) /\ log[d] \in Seq(Event) /\ log \in [Devices -> Seq(Event)]
        /\ log' = [log EXCEPT ![d] = @ \o es] /\ flight' = flight /\ cloud' = cloud
        /\ \A c \in Devices \ {d} : row'[c] = row[c]
        /\ \A a \in Atoms : Means(d, es, a)
    BY Types DEF SyncInv, TypeOK, MeantStep, Written
  <1>2. log'[d] = log[d] \o es /\ \A c \in Devices \ {d} : log'[c] = log[c]
    BY <1>1
  <1>3. \A a : EventsOf(log'[d], a) = EventsOf(log[d], a) \cup EventsOf(es, a)
    BY <1>1, <1>2, CatEntries
  <1>4. ASSUME NEW c \in Devices, NEW a, Secret(c, a),
               c = d \/ \A e \in EventsOf(es, a) : e.type # "create"
        PROVE  Secret(c, a)'
    <2>1. \A x \in Devices : x # c => ~ Created(log'[x], a)
      <3> SUFFICES ASSUME NEW x \in Devices, x # c PROVE ~ Created(log'[x], a)
        OBVIOUS
      <3>1. ~ Created(log[x], a)
        BY <1>4 DEF Secret
      <3>2. CASE x = d
        BY <1>3, <1>4, <3>1, <3>2, Readings
      <3>3. CASE x # d
        BY <1>2, <3>1, <3>3
      <3> QED
        BY <3>2, <3>3
    <2> QED
      BY <1>1, <1>4, <2>1 DEF Secret, Created
  <1>5. ASSUME NEW a \in Atoms, Private(row'[d][a]) \/ GoneQuietly(log'[d], a)
        PROVE  Secret(d, a)'
    <2> DEFINE o == row[d][a]
               n == row'[d][a]
               E == EventsOf(es, a)
    <2>1. Private(o) \/ GoneQuietly(log[d], a) => Secret(d, a)'
      BY <1>4 DEF SecretsKept
    <2>2. /\ Private(n) \/ GoneQuietly(log'[d], a)
          /\ GoneQuietly(log'[d], a) => \/ GoneQuietly(log[d], a)
                                        \/ \E e \in E : e.type = "erase_request" /\ e.scope = "private"
      BY <1>3, <1>5 DEF GoneQuietly
    <2>3. Means(d, es, a)
      BY <1>1
    <2> HIDE DEF E, o, n
    <2>4. CASE /\ o = NoRow <=> n = NoRow
               /\ n # NoRow => n.to = o.to /\ n.by = o.by /\ (Private(n) => Private(o))
               /\ \A e \in E : e.type \in {"usefulness", "promote_scope"}
      BY <2>1, <2>2, <2>4 DEF Private
    <2>5. CASE /\ o # NoRow /\ n # NoRow /\ n.scope = o.scope
               /\ E # {} /\ \A e \in E : e.type \in LocalOnly
      BY <2>1, <2>2, <2>5 DEF Private, LocalOnly
    <2>6. CASE /\ o = NoRow /\ n # NoRow /\ n.to = 0 /\ n.by = NoAtom
               /\ a \notin Shared /\ \A c \in Devices : EventsOf(log[c], a) = {}
               /\ E # {} /\ \A e \in E : e.type = "create"
      <3>1. \A e \in World : e.atom # a
        BY <2>6, Unheard
      <3>2. \A c \in Devices : EventsOf(flight[c], a) = {} /\ EventsOf(log[c], a) = {}
        BY <3>1, WorldIds, EntriesFacts
      <3>3. EventsOf(cloud, a) = {}
        BY <3>1, WorldIds, EntriesFacts
      <3>4. Secret(d, a)
        BY <2>6, <3>2, <3>3 DEF Secret, Created
      <3> QED
        BY <1>4, <3>4
    <2>7. CASE /\ o # NoRow /\ n = NoRow
               /\ E # {} /\ \A e \in E : e.type = "erase_request" /\ e.scope = o.scope
      BY <2>1, <2>2, <2>7 DEF Private
    <2>8. CASE /\ Valid(row[d], a) /\ n # NoRow /\ n.to = Now(d) /\ n.by = o.by /\ n.scope = o.scope
               /\ \E e : E = {e} /\ e.type = "invalidate" /\ e.at = Now(d)
      BY <2>1, <2>2, <2>8 DEF Private, Valid, o
    <2>9. CASE /\ Valid(row[d], a) /\ n # NoRow /\ n.to = Now(d) /\ n.scope = o.scope
               /\ \E e : E = {e} /\ e.type = "supersede" /\ e.at = Now(d) /\ n.by = e.to
      BY <2>1, <2>2, <2>9 DEF Private, Valid, o
    <2> QED
      BY <2>3, <2>4, <2>5, <2>6, <2>7, <2>8, <2>9 DEF Means, o, n, E
  <1>6. ASSUME NEW c \in Devices \ {d}, NEW a \in Atoms,
               Private(row'[c][a]) \/ GoneQuietly(log'[c], a)
        PROVE  Secret(c, a)'
    <2>1. Private(row[c][a]) \/ GoneQuietly(log[c], a)
      BY <1>1, <1>2, <1>6
    <2>2. Secret(c, a)
      BY <2>1 DEF SecretsKept
    <2>3. EventsOf(log[c], a) # {} \/ a \in Shared
      BY <2>1 DEF RowsFollow, Private, GoneQuietly, Created
    <2>4. a \notin Shared
      BY <2>2 DEF Secret, Created
    <2>5. Means(d, es, a)
      BY <1>1
    <2>6. \A e \in EventsOf(es, a) : e.type # "create"
      BY <2>3, <2>4, <2>5 DEF Means, LocalOnly
    <2> QED
      BY <1>4, <2>2, <2>6
  <1>7. \A e \in Entries(cloud') : e.type \in {"create", "erase_request"} => e.scope = "shared"
    BY <1>1 DEF SecretsKept
  <1> QED
    BY <1>5, <1>6, <1>7 DEF SecretsKept

\* An operation of a device keeps the invariant.
LEMMA MeantKeeps ==
  ASSUME StoryInv, NEW d \in Devices, NEW es, MeantStep(d, es), SyncInv'
  PROVE  StoryInv'
  <1>1. /\ SyncInv /\ OneStory /\ RowsFollow /\ SecretsKept
        /\ log' = [log EXCEPT ![d] = @ \o es] /\ flight' = flight /\ cloud' = cloud
        /\ merge' = NoMerge /\ Written(d, es) /\ es \in Seq(Event) /\ log[d] \in Seq(Event)
        /\ log \in [Devices -> Seq(Event)] /\ ids \in Nat /\ Len(es) \in Nat
        /\ \A c \in Devices \ {d} : row'[c] = row[c]
    <2>1. SyncInv /\ OneStory /\ RowsFollow /\ SecretsKept
      BY DEF StoryInv
    <2>2. /\ log' = [log EXCEPT ![d] = @ \o es] /\ flight' = flight /\ cloud' = cloud
          /\ merge' = NoMerge /\ Written(d, es)
          /\ \A c \in Devices \ {d} : row'[c] = row[c]
      BY DEF MeantStep
    <2>3. es \in Seq(Event)
      BY <2>2 DEF Written
    <2>4. log \in [Devices -> Seq(Event)] /\ ids \in Nat
      BY <2>1 DEF SyncInv, TypeOK
    <2> QED
      BY <2>1, <2>2, <2>3, <2>4
  <1>2. log'[d] = log[d] \o es /\ \A c \in Devices \ {d} : log'[c] = log[c]
    BY <1>1
  <1>3. OneStory'
    <2>1. World' \subseteq World \cup Entries(es)
      <3>1. Entries(log'[d]) = Entries(log[d]) \cup Entries(es)
        BY <1>1, <1>2, CatEntries
      <3> QED
        BY <1>1, <1>2, <3>1, WorldHas
    <2>2. ASSUME NEW e \in Entries(es), NEW f \in Entries(es)
          PROVE  e.id > ids /\ (e.id = f.id => e = f)
      <3>1. PICK i \in 1 .. Len(es) : es[i] = e
        BY DEF Entries
      <3>2. PICK k \in 1 .. Len(es) : es[k] = f
        BY DEF Entries
      <3>3. e.id = ids + i /\ f.id = ids + k
        BY <1>1, <3>1, <3>2 DEF Written
      <3>4. ids \in Nat /\ i \in Nat \ {0} /\ k \in Nat
        BY <1>1
      <3> QED
        BY <3>1, <3>2, <3>3, <3>4
    <2> DEFINE N == Entries(es)
    <2>3. /\ \A e \in N : e.id > ids
          /\ \A e, f \in N : e.id = f.id => e = f
          /\ World' \subseteq World \cup N
      BY <2>1, <2>2
    <2> HIDE DEF N
    <2> QED
      BY <1>1, <2>3, StoryGoesOn
  <1>4. RowsFollow'
    <2>1. ASSUME NEW a \in Atoms
          PROVE  IF row'[d][a] = NoRow THEN Created(log'[d], a) => Erased(log'[d], a)
                 ELSE /\ Created(log'[d], a)
                      /\ Withdrawn(log'[d], a) \/ Follows(row'[d][a], log'[d], a)
      BY <1>1, MeantFollows
    <2>2. ASSUME NEW c \in Devices \ {d}, NEW a \in Atoms
          PROVE  IF row'[c][a] = NoRow THEN Created(log'[c], a) => Erased(log'[c], a)
                 ELSE /\ Created(log'[c], a)
                      /\ Withdrawn(log'[c], a) \/ Follows(row'[c][a], log'[c], a)
      BY <1>1, <1>2 DEF RowsFollow
    <2> QED
      BY <2>1, <2>2 DEF RowsFollow
  <1>5. SecretsKept'
    BY <1>1, MeantSecrets
  <1> QED
    BY <1>1, <1>3, <1>4, <1>5 DEF StoryInv

\* Steps that leave the rows, the logs, the envelopes and the cloud as they are.
LEMMA StoryRests ==
  ASSUME StoryInv, SyncInv', UNCHANGED <<row, log, flight, cloud, ids>>,
         merge' = NoMerge \/ merge' = merge \/ \E m : merge' = m /\ CopyFollows(m)
  PROVE  StoryInv'
  <1>1. OneStory'
    BY WorldHas DEF StoryInv, OneStory, World, Same
  <1>2. RowsFollow' /\ SecretsKept'
    BY DEF StoryInv, RowsFollow, SecretsKept, Secret
  <1>3. merge' # NoMerge => CopyFollows(merge)'
    BY DEF StoryInv, CopyFollows
  <1> QED
    BY <1>1, <1>2, <1>3 DEF StoryInv

\* The lifecycle operations keep the invariant.
LEMMA LifecycleKeepsStory ==
  ASSUME StoryInv, merge = NoMerge, NEW d \in Devices, Lifecycle(d)
  PROVE  StoryInv'
  <1>1. SyncInv /\ SyncInv'
    BY LifecycleKeeps DEF StoryInv
  <1>2. (\E es : MeantStep(d, es)) \/ UNCHANGED <<row, log, flight, cloud, merge, ids>>
    BY <1>1, LifecycleMeans
  <1> QED
    BY <1>1, <1>2, MeantKeeps, StoryRests

----------------------------------------------------------------------------
(* The story while shipping.                                               *)

\* Where every event is one of the story as it was told, but for the scope of a create event,
\* there is still one story.
LEMMA StoryRetold ==
  ASSUME OneStory, \A x \in World' : \E e \in World : e.id = x.id /\ Same(x, e)
  PROVE  OneStory'
  <1>1. ASSUME NEW x \in World', NEW y \in World', x.id = y.id PROVE Same(x, y)
    <2>1. PICK e \in World : e.id = x.id /\ Same(x, e)
      OBVIOUS
    <2>2. PICK f \in World : f.id = y.id /\ Same(y, f)
      OBVIOUS
    <2>3. Same(e, f)
      BY <1>1, <2>1, <2>2 DEF OneStory
    <2> QED
      BY <2>1, <2>2, <2>3 DEF Same
  <1> QED
    BY <1>1 DEF OneStory, Same

\* A round reads events of the log that may leave the device, with the scope of today.
LEMMA EnvelopeEvents ==
  ASSUME SyncInv, NEW d \in Devices, ShipStart(d)
  PROVE  /\ \A c \in Devices \ {d} : flight'[c] = flight[c]
         /\ \A x \in Entries(flight'[d]) : \E e \in Entries(log[d]) :
              Shippable(d, e) /\ x = withCurrentScope(d, e)
  <1> DEFINE P    == {i \in 1 .. Len(log[d]) : Shippable(d, log[d][i])}
             rows == Picked(log[d], P)
             n    == IF Len(rows) < BatchSize THEN Len(rows) ELSE BatchSize
             F    == [i \in 1 .. n |-> withCurrentScope(d, rows[i])]
  <1>1. TypeOK /\ History(log[d], ids) /\ ids \in Nat
    BY DEF SyncInv, HistoriesSound, TypeOK
  <1>2. flight' = [flight EXCEPT ![d] = F]
    BY DEF ShipStart, Unsynced
  <1>3. P \in SUBSET (1 .. Len(log[d])) /\ \A i \in P : Shippable(d, log[d][i])
    OBVIOUS
  <1> HIDE DEF P
  <1>4. /\ History(rows, ids)
        /\ \A k \in 1 .. Len(rows) : \E i \in P : rows[k] = log[d][i]
    BY <1>1, <1>3, PickedHistory
  <1> HIDE DEF rows
  <1>5. Len(rows) \in Nat /\ n \in Nat /\ n <= Len(rows)
    BY <1>4, MemorySyncAssumption DEF History
  <1> HIDE DEF n
  <1>6. ASSUME NEW x \in Entries(F)
        PROVE  \E e \in Entries(log[d]) : Shippable(d, e) /\ x = withCurrentScope(d, e)
    <2>1. Len(F) = n
      BY <1>5
    <2>2. PICK k \in 1 .. n : x = F[k]
      BY <2>1 DEF Entries
    <2>3. x = withCurrentScope(d, rows[k]) /\ k \in 1 .. Len(rows)
      BY <1>5, <2>2
    <2>4. PICK i \in P : rows[k] = log[d][i]
      BY <1>4, <2>3
    <2>5. rows[k] \in Entries(log[d]) /\ Shippable(d, rows[k])
      BY <1>3, <2>4 DEF Entries
    <2> QED
      BY <2>3, <2>5
  <1> HIDE DEF F
  <1>7. flight'[d] = F /\ \A c \in Devices \ {d} : flight'[c] = flight[c]
    BY <1>1, <1>2 DEF TypeOK
  <1> QED
    BY <1>6, <1>7

\* A round keeps secrets: what it reads of an atom's creation is shared by now.
LEMMA ShipStartKeepsStory ==
  ASSUME StoryInv, merge = NoMerge, NEW d \in Devices, ShipStart(d)
  PROVE  StoryInv'
  <1>1. /\ SyncInv /\ SyncInv' /\ OneStory /\ RowsFollow /\ SecretsKept /\ ErasureWins
        /\ \A e \in Entries(log[d]) : e \in Event /\ e \in World
    <2>1. SyncInv /\ SyncInv' /\ OneStory /\ RowsFollow /\ SecretsKept
      BY ShipStartKeeps DEF StoryInv
    <2> QED
      BY <2>1, WorldIds DEF SyncInv
  <1>2. /\ row' = row /\ log' = log /\ cloud' = cloud /\ merge' = NoMerge
        /\ \A c \in Devices \ {d} : flight'[c] = flight[c]
        /\ \A x \in Entries(flight'[d]) : \E e \in Entries(log[d]) :
             Shippable(d, e) /\ x = withCurrentScope(d, e)
    BY <1>1, EnvelopeEvents DEF ShipStart
  <1>3. ASSUME NEW x \in Entries(flight'[d])
        PROVE  \E e \in Entries(log[d]) : /\ Shippable(d, e) /\ e.id = x.id /\ Same(x, e)
                                          /\ e.atom = x.atom /\ e.type = x.type
    <2>1. PICK e \in Entries(log[d]) : Shippable(d, e) /\ x = withCurrentScope(d, e)
      BY <1>2
    <2>2. e.id = x.id /\ e.atom = x.atom /\ e.type = x.type
      BY <1>1, <2>1 DEF withCurrentScope, Event
    <2>3. Same(x, e)
      BY <2>1, <2>2 DEF withCurrentScope, Same
    <2> QED
      BY <2>1, <2>2, <2>3
  <1>4. OneStory'
    <2>1. ASSUME NEW x \in World' PROVE \E e \in World : e.id = x.id /\ Same(x, e)
      <3>1. x \in World \/ x \in Entries(flight'[d])
        BY <1>2, WorldHas
      <3>2. x \in World => Same(x, x)
        BY DEF Same
      <3> QED
        BY <1>1, <1>3, <3>1, <3>2
    <2> QED
      BY <1>1, <2>1, StoryRetold
  <1>5. RowsFollow'
    BY <1>1, <1>2 DEF RowsFollow
  <1>6. ASSUME NEW c \in Devices, NEW a \in Atoms, Private(row[c][a]) \/ GoneQuietly(log[c], a)
        PROVE  Secret(c, a)'
    <2>1. Secret(c, a)
      BY <1>1, <1>6 DEF SecretsKept
    <2>2. ASSUME NEW x \in EventsOf(flight'[d], a), x.type = "create" PROVE FALSE
      <3>1. x \in Entries(flight'[d]) /\ x.atom = a
        BY EntriesFacts
      <3>2. PICK e \in Entries(log[d]) : Shippable(d, e) /\ e.atom = a /\ e.type = "create"
        BY <1>3, <2>2, <3>1
      <3>3. Created(log[d], a)
        BY <3>2, EntriesFacts, Readings
      <3>4. c = d
        BY <2>1, <3>3 DEF Secret
      <3>5. row[d][a] # NoRow /\ row[d][a].scope = "shared"
        BY <3>2 DEF Shippable
      <3>6. GoneQuietly(log[d], a) => Erased(log[d], a)
        BY Readings DEF GoneQuietly
      <3> QED
        BY <1>1, <1>6, <3>4, <3>5, <3>6 DEF Private, ErasureWins
    <2>3. ~ Created(flight'[d], a)
      BY <2>1, <2>2 DEF Secret, Created
    <2> QED
      BY <1>2, <2>1, <2>3 DEF Secret
  <1>7. SecretsKept'
    BY <1>1, <1>2, <1>6 DEF SecretsKept
  <1> QED
    BY <1>1, <1>2, <1>4, <1>5, <1>7 DEF StoryInv

\* What the cloud has after it took events of an envelope.
LEMMA TakesEvents ==
  ASSUME SyncInv, NEW d \in Devices, NEW n \in 1 .. Len(flight[d])
  PROVE  Entries(Takes(d, n)) \subseteq Entries(cloud) \cup Entries(flight[d])
  <1> DEFINE F == flight[d]
             P == {i \in 1 .. n : ~ Refuses(F[i]) /\ F[i].id \notin IdsOf(cloud)}
             p == Picked(F, P)
  <1>1. ids \in Nat /\ cloud \in Seq(Event) /\ History(F, ids)
    BY DEF SyncInv, TypeOK, HistoriesSound
  <1>2. P \in SUBSET (1 .. Len(F)) /\ Takes(d, n) = cloud \o p
    BY <1>1 DEF History, Takes
  <1> HIDE DEF P, F
  <1>3. History(p, ids) /\ \A k \in 1 .. Len(p) : \E i \in P : p[k] = F[i]
    BY <1>1, <1>2, PickedHistory
  <1> HIDE DEF p
  <1>4. Entries(p) \subseteq Entries(F)
    BY <1>2, <1>3 DEF Entries
  <1>5. Entries(cloud \o p) = Entries(cloud) \cup Entries(p)
    BY <1>1, <1>3, CatEntries DEF History
  <1> QED
    BY <1>2, <1>4, <1>5 DEF F

\* The cloud grows by events of an envelope, all of them shared, or not at all.
LEMMA ShipEndKeepsStory ==
  ASSUME StoryInv, SyncInv', merge = NoMerge, NEW d \in Devices,
         UNCHANGED <<row, log, merge>>,
         cloud' = cloud \/ \E n \in 1 .. Len(flight[d]) : cloud' = Takes(d, n),
         flight' = [flight EXCEPT ![d] = <<>>]
  PROVE  StoryInv'
  <1>1. /\ SyncInv /\ OneStory /\ RowsFollow /\ SecretsKept /\ EnvelopesAreShared
        /\ flight \in [Devices -> Seq(Event)]
    BY DEF StoryInv, SyncInv, TypeOK
  <1>2. flight'[d] = <<>> /\ \A c \in Devices \ {d} : flight'[c] = flight[c]
    BY <1>1
  <1>3. Entries(cloud') \subseteq Entries(cloud) \cup Entries(flight[d])
    BY <1>1, TakesEvents
  <1>4. \A c \in Devices : Entries(flight'[c]) \subseteq Entries(flight[c])
    <2>1. Entries(<<>>) = {}
      BY DEF Entries
    <2> QED
      BY <1>2, <2>1
  <1>5. OneStory'
    <2>1. World' \subseteq World
      BY <1>3, <1>4, WorldHas
    <2>2. \A x \in World' : \E e \in World : e.id = x.id /\ Same(x, e)
      BY <2>1 DEF Same
    <2> QED
      BY <1>1, <2>2, StoryRetold
  <1>6. RowsFollow'
    BY <1>1 DEF RowsFollow
  <1>7. ASSUME NEW c \in Devices, NEW a \in Atoms, Secret(c, a) PROVE Secret(c, a)'
    <2>1. a \notin Shared /\ ~ Created(flight[d], a)
      BY <1>7 DEF Secret, Created
    <2>2. ~ Created(cloud', a)
      BY <1>3, <1>7, <2>1, EntriesFacts DEF Secret, Created
    <2>3. \A x \in Devices : ~ Created(flight'[x], a)
      BY <1>4, <1>7, <2>1, EntriesFacts DEF Secret, Created
    <2> QED
      BY <1>7, <2>2, <2>3 DEF Secret
  <1>8. \A e \in Entries(cloud') : e.type \in {"create", "erase_request"} => e.scope = "shared"
    <2>1. \A e \in Entries(flight[d]) : e.type \in {"create", "erase_request"} => e.scope = "shared"
      BY <1>1 DEF EnvelopesAreShared, Entries
    <2> QED
      BY <1>1, <1>3, <2>1 DEF SecretsKept
  <1>9. SecretsKept'
    BY <1>1, <1>7, <1>8 DEF SecretsKept
  <1> QED
    BY <1>5, <1>6, <1>9 DEF StoryInv

\* The shipper and the cloud keep the invariant.
LEMMA ShipKeepsStory ==
  ASSUME StoryInv, merge = NoMerge, NEW d \in Devices, Ship(d)
  PROVE  StoryInv'
  <1>1. SyncInv'
    BY ShipKeeps DEF StoryInv
  <1>2. CASE ShipStart(d)
    BY <1>2, ShipStartKeepsStory
  <1>3. CASE ShipAnswered(d)
    BY <1>1, <1>3, ShipEndKeepsStory DEF ShipAnswered
  <1>4. CASE ShipFailed(d)
    BY <1>1, <1>4, ShipEndKeepsStory DEF ShipFailed
  <1>5. CASE CloudRefuses(d) \/ clearRejected(d)
    BY <1>1, <1>5, StoryRests DEF CloudRefuses, clearRejected
  <1> QED
    BY <1>2, <1>3, <1>4, <1>5 DEF Ship

----------------------------------------------------------------------------
(* The story while pulling.                                                *)

\* A pull begins with a copy whose rows follow from its log, but for the atoms it touched;
\* and what it materializes the cloud has as shared.
LEMMA PullStartKeepsStory ==
  ASSUME StoryInv, NEW d \in Devices, PullStart(d)
  PROVE  StoryInv'
  <1>0. /\ SyncInv /\ SyncInv' /\ RowsFollow /\ SecretsKept /\ TypeOK /\ HistoriesSound
    BY PullStartKeeps DEF StoryInv, SyncInv
  <1>1. PICK seen \in watermark[d] + 1 .. Len(cloud) :
          LET last  == IF watermark[d] + BatchSize < seen THEN watermark[d] + BatchSize ELSE seen
              fresh == Picked(cloud, {i \in watermark[d] + 1 .. last : cloud[i].id \notin IdsOf(log[d])})
          IN
          merge' = [dev |-> d, fresh |-> fresh, log |-> log[d] \o fresh,
                    row |-> [a \in Atoms |-> IF a \in Materialized(d, fresh)
                                             THEN NewRow(CreateOf(fresh, a).scope, CreateOf(fresh, a).at)
                                             ELSE row[d][a]],
                    touched |-> {fresh[i].atom : i \in 1 .. Len(fresh)},
                    stack |-> <<>>, cursor |-> IF last = seen THEN 0 ELSE last, ids |-> ids]
    BY DEF PullStart
  <1> DEFINE last  == IF watermark[d] + BatchSize < seen THEN watermark[d] + BatchSize ELSE seen
             P     == {i \in watermark[d] + 1 .. last : cloud[i].id \notin IdsOf(log[d])}
             fresh == Picked(cloud, P)
             L     == log[d] \o fresh
             M     == Materialized(d, fresh)
             new(a) == NewRow(CreateOf(fresh, a).scope, CreateOf(fresh, a).at)
             t     == [a \in Atoms |-> IF a \in M THEN new(a) ELSE row[d][a]]
             T     == {fresh[i].atom : i \in 1 .. Len(fresh)}
             m     == [dev |-> d, fresh |-> fresh, log |-> L, row |-> t, touched |-> T,
                       stack |-> <<>>, cursor |-> IF last = seen THEN 0 ELSE last, ids |-> ids]
  <1>2. merge' = m
    BY <1>1
  <1>3. /\ cloud \in Seq(Event) /\ Len(cloud) \in Nat /\ watermark[d] \in Nat /\ seen \in Nat
        /\ log[d] \in Seq(Event) /\ row[d] \in Table /\ ids \in Nat /\ History(cloud, ids)
    BY <1>0 DEF TypeOK, HistoriesSound
  <1>4. last \in Nat /\ last <= Len(cloud) /\ watermark[d] < last
    BY <1>3, MemorySyncAssumption
  <1> HIDE DEF last
  <1>5. P \in SUBSET (1 .. Len(cloud))
    BY <1>3, <1>4
  <1> HIDE DEF P
  <1>6. /\ History(fresh, ids)
        /\ \A k \in 1 .. Len(fresh) : \E i \in P : fresh[k] = cloud[i]
    BY <1>3, <1>5, PickedHistory
  <1>7. Entries(fresh) \subseteq Entries(cloud) /\ fresh \in Seq(Event)
    BY <1>5, <1>6 DEF Entries, History
  <1> HIDE DEF fresh
  <1>8. /\ Entries(L) = Entries(log[d]) \cup Entries(fresh)
        /\ \A a : EventsOf(L, a) = EventsOf(log[d], a) \cup EventsOf(fresh, a)
    BY <1>3, <1>7, CatEntries
  <1>9. m.dev = d /\ m.log = L /\ m.row = t /\ m.touched = T
    OBVIOUS
  <1> HIDE DEF m, L
  <1>10. \A a \in Atoms : t[a] = IF a \in M THEN new(a) ELSE row[d][a]
    OBVIOUS
  <1> HIDE DEF t
  <1>11. \A a : EventsOf(fresh, a) # {} => a \in T
    BY DEF EventsOf
  <1> HIDE DEF T
  <1>12. \A a \in Atoms : a \in M <=>
           row[d][a] = NoRow /\ \E e \in EventsOf(fresh, a) : e.type = "create"
    BY DEF Materialized, EventsOf
  <1> HIDE DEF M
  <1>13. \A a : /\ Created(L, a) <=> Created(log[d], a) \/ \E e \in EventsOf(fresh, a) : e.type = "create"
                /\ Withdrawn(log[d], a) => Withdrawn(L, a)
                /\ Erased(log[d], a) => Erased(L, a)
                /\ Supersedes(log[d], a) \subseteq Supersedes(L, a)
                /\ Invalidates(log[d], a) \subseteq Invalidates(L, a)
    <2> TAKE a
    <2>1. /\ Created(L, a) <=> Created(log[d], a) \/ \E e \in EventsOf(fresh, a) : e.type = "create"
          /\ Withdrawn(log[d], a) => Withdrawn(L, a)
          /\ Erased(log[d], a) => Erased(L, a)
      BY <1>8, Readings
    <2>2. /\ Supersedes(log[d], a) \subseteq Supersedes(L, a)
          /\ Invalidates(log[d], a) \subseteq Invalidates(L, a)
      BY <1>8, Readings
    <2> QED
      BY <2>1, <2>2
  <1>14. ASSUME NEW a \in M, a \in Atoms
         PROVE  /\ new(a) # NoRow /\ Created(L, a) /\ a \in T
                /\ Behind(new(a), L, a) /\ ~ Private(new(a))
    <2> DEFINE c == CreateOf(fresh, a)
    <2>1. PICK e \in EventsOf(fresh, a) : e.type = "create"
      BY <1>12, <1>14
    <2>2. \E i \in 1 .. Len(fresh) : fresh[i].atom = a /\ fresh[i].type = "create"
      BY <2>1 DEF EventsOf
    <2>3. c \in Entries(fresh) /\ c.type = "create"
      BY <2>2 DEF CreateOf, Entries
    <2>4. c.scope = "shared"
      BY <1>0, <1>7, <2>3 DEF SecretsKept
    <2> HIDE DEF c
    <2>5. new(a) = NewRow(c.scope, c.at)
      BY DEF c
    <2>6. new(a).scope = "shared" /\ new(a).to = 0 /\ new(a).by = NoAtom
      BY <2>4, <2>5 DEF NewRow
    <2>7. NoRow.scope # "shared" /\ "shared" # "private"
      BY DEF NoRow
    <2> HIDE DEF new
    <2>8. Behind(new(a), L, a) /\ ~ Private(new(a)) /\ new(a) # NoRow
      BY <2>6, <2>7 DEF Behind, Private
    <2> QED
      BY <1>11, <1>13, <2>1, <2>8
  <1> HIDE DEF new
  <1>15. ASSUME NEW a \in Atoms
         PROVE  IF t[a] = NoRow THEN Created(L, a) => Erased(L, a)
                ELSE /\ Created(L, a)
                     /\ \/ Withdrawn(L, a)
                        \/ Behind(t[a], L, a) /\ (a \in T \/ Follows(t[a], L, a))
                     /\ Private(t[a]) => Private(row[d][a])
    <2>1. CASE a \in M
      BY <1>10, <1>14, <2>1
    <2>2. CASE a \notin M /\ row[d][a] = NoRow
      <3>1. Created(log[d], a) => Erased(log[d], a)
        BY <1>0, <2>2 DEF RowsFollow
      <3> QED
        BY <1>10, <1>12, <1>13, <2>2, <3>1
    <2>3. CASE a \notin M /\ row[d][a] # NoRow
      <3>1. Created(log[d], a) /\ (Withdrawn(log[d], a) \/ Follows(row[d][a], log[d], a))
        BY <1>0, <2>3 DEF RowsFollow
      <3>2. ASSUME Follows(row[d][a], log[d], a)
            PROVE  Behind(row[d][a], L, a) /\ (a \in T \/ Follows(row[d][a], L, a))
        <4>1. Behind(row[d][a], L, a)
          BY <1>13, <3>2 DEF Behind, Follows
        <4>2. ASSUME a \notin T PROVE Follows(row[d][a], L, a)
          <5>1. EventsOf(L, a) = EventsOf(log[d], a)
            BY <1>8, <1>11, <4>2
          <5>2. Supersedes(L, a) = Supersedes(log[d], a) /\ Invalidates(L, a) = Invalidates(log[d], a)
            BY <5>1 DEF Supersedes, Invalidates
          <5> QED
            BY <3>2, <5>2, FollowsAlike
        <4> QED
          BY <4>1, <4>2
      <3> QED
        BY <1>10, <1>13, <2>3, <3>1, <3>2
    <2> QED
      BY <2>1, <2>2, <2>3
  <1>16. CopyFollows(m)
    BY <1>7, <1>8, <1>9, <1>15 DEF CopyFollows
  <1> QED
    BY <1>0, <1>2, <1>16, StoryRests DEF PullStart

\* What recomputeProjection makes of a row that is behind its log follows from the log; and it
\* never changes the scope.
LEMMA ProjectedFollows ==
  ASSUME NEW m, NEW n, History(m.log, n), m.row \in Table, NEW a \in Atoms,
         ~ Erased(m.log, a), m.row[a] # NoRow
  PROVE  /\ Projected(m, a).scope = m.row[a].scope
         /\ Behind(m.row[a], m.log, a) => /\ Follows(Projected(m, a), m.log, a)
                                          /\ Behind(Projected(m, a), m.log, a)
  <1> DEFINE r == m.row[a]
             p == Projected(m, a)
             S == Supersedes(m.log, a)
             I == Invalidates(m.log, a)
             w == maxByTieBreak(S, m.log)
  <1>1. r \in Row /\ r # NoRow
    BY DEF Table
  <1>2. CASE S # {}
    <2>1. p = [r EXCEPT !.to = MinAt(S), !.by = w.to]
      BY <1>2 DEF Projected
    <2> HIDE DEF p, r, w, S, I
    <2>2. p.to = MinAt(S) /\ p.by = w.to /\ p.scope = r.scope
      BY <1>1, <2>1 DEF Row
    <2> QED
      BY <1>2, <2>2 DEF Follows, Behind, S, w, p, r
  <1>3. CASE S = {} /\ I # {}
    <2>1. p = [r EXCEPT !.to = MinAt(I)]
      BY <1>3 DEF Projected
    <2> HIDE DEF p, r, w, S, I
    <2>2. p.to = MinAt(I) /\ p.by = r.by /\ p.scope = r.scope
      BY <1>1, <2>1 DEF Row
    <2> QED
      BY <1>3, <2>2 DEF Follows, Behind, S, I, p, r
  <1>4. CASE S = {} /\ I = {}
    <2>1. p = r
      BY <1>4 DEF Projected
    <2> HIDE DEF p, r, w, S, I
    <2> QED
      BY <1>4, <2>1 DEF Follows, Behind, S, I, p, r
  <1> QED
    BY <1>2, <1>3, <1>4

\* A copy in which one more atom is to be recomputed.
PendingFollows(m, b) ==
  /\ \A e \in Entries(m.log) : \/ e \in Entries(log[m.dev]) \cup Entries(cloud)
                               \/ e.id > ids /\ e.type = "supersede"
  /\ \A a \in Atoms :
       IF m.row[a] = NoRow THEN Created(m.log, a) => Erased(m.log, a)
       ELSE /\ Created(m.log, a)
            /\ \/ Withdrawn(m.log, a)
               \/ /\ Behind(m.row[a], m.log, a)
                  /\ a = b \/ a \in m.touched \/ Follows(m.row[a], m.log, a)
            /\ Private(m.row[a]) => Private(row[m.dev][a])

\* Its recomputation leaves only the touched ones.
LEMMA RecomputeFollows ==
  ASSUME NEW m \in Merge, NEW n, History(m.log, n), NEW a \in Atoms, PendingFollows(m, a)
  PROVE  CopyFollows(recomputeProjection(m, a))
  <1> DEFINE p == Projected(m, a)
             st == IF Losers(m, a) = {} THEN Returned(m.stack)
                   ELSE <<[winner |-> maxByTieBreak(Supersedes(m.log, a), m.log).to,
                           losers |-> Losers(m, a)]>> \o m.stack
             q == recomputeProjection(m, a)
  <1>1. m.row \in Table
    BY DEF Merge
  <1>2. q = [m EXCEPT !.row = [m.row EXCEPT ![a] = p], !.stack = st]
    BY DEF recomputeProjection
  <1> HIDE DEF p, st, q
  <1>3. /\ q.dev = m.dev /\ q.log = m.log /\ q.touched = m.touched
        /\ q.row = [m.row EXCEPT ![a] = p]
    BY <1>2 DEF Merge
  <1>4. q.row[a] = p /\ \A b \in Atoms \ {a} : q.row[b] = m.row[b]
    BY <1>1, <1>3 DEF Table
  <1>5. ASSUME NEW b \in Atoms
        PROVE  IF q.row[b] = NoRow THEN Created(q.log, b) => Erased(q.log, b)
               ELSE /\ Created(q.log, b)
                    /\ \/ Withdrawn(q.log, b)
                       \/ Behind(q.row[b], q.log, b) /\ (b \in q.touched \/ Follows(q.row[b], q.log, b))
                    /\ Private(q.row[b]) => Private(row[q.dev][b])
    <2>1. CASE b # a
      BY <1>3, <1>4, <2>1 DEF PendingFollows
    <2>2. CASE b = a /\ (Erased(m.log, a) \/ m.row[a] = NoRow)
      <3>1. p = NoRow
        BY <2>2 DEF p, Projected
      <3> QED
        BY <1>3, <1>4, <2>2, <3>1 DEF PendingFollows
    <2>3. CASE b = a /\ ~ Erased(m.log, a) /\ m.row[a] # NoRow
      <3>1. p # NoRow
        BY <1>1, <2>3, ProjectedRow DEF p
      <3>2. /\ p.scope = m.row[a].scope
            /\ Behind(m.row[a], m.log, a) => Follows(p, m.log, a) /\ Behind(p, m.log, a)
        BY <1>1, <2>3, ProjectedFollows DEF p
      <3> QED
        BY <1>3, <1>4, <2>3, <3>1, <3>2 DEF PendingFollows, Private
    <2> QED
      BY <2>1, <2>2, <2>3
  <1>6. \A e \in Entries(q.log) : \/ e \in Entries(log[q.dev]) \cup Entries(cloud)
                                  \/ e.id > ids /\ e.type = "supersede"
    BY <1>3 DEF PendingFollows
  <1>7. CopyFollows(q)
    BY <1>5, <1>6 DEF CopyFollows
  <1> QED
    BY <1>7 DEF q

\* The next touched atom is recomputed.
LEMMA MergeRecomputeKeepsStory ==
  ASSUME StoryInv, MergeRecompute
  PROVE  StoryInv'
  <1> DEFINE a == FirstTouched(merge)
             q == [merge EXCEPT !.touched = @ \ {a}]
  <1>1. /\ merge # NoMerge /\ merge.touched # {} /\ merge' = recomputeProjection(q, a)
        /\ UNCHANGED <<row, log, flight, cloud, ids>>
    BY DEF MergeRecompute
  <1>2. /\ SyncInv /\ SyncInv' /\ CopyFollows(merge) /\ CopySound(merge) /\ merge \in Merge
    BY <1>1, MergeRecomputeKeeps DEF StoryInv, SyncInv, MergeSound, TypeOK
  <1>3. a \in merge.touched
    BY <1>1, <1>2, TouchedFirst
  <1>4. a \in Atoms
    BY <1>2, <1>3 DEF Merge
  <1> HIDE DEF a
  <1>5. /\ q \in Merge /\ q.dev = merge.dev /\ q.log = merge.log /\ q.row = merge.row
        /\ q.ids = merge.ids /\ q.touched = merge.touched \ {a}
    BY <1>2 DEF Merge
  <1> HIDE DEF q
  <1>6. PendingFollows(q, a)
    BY <1>2, <1>5 DEF CopyFollows, PendingFollows
  <1>7. History(q.log, q.ids)
    BY <1>2, <1>5 DEF CopySound
  <1>8. CopyFollows(recomputeProjection(q, a))
    BY <1>4, <1>5, <1>6, <1>7, RecomputeFollows
  <1> QED
    BY <1>1, <1>2, <1>8, StoryRests

\* A loser is chained: one more supersede event of its atom, which is recomputed.
LEMMA ChainKeepsStory ==
  ASSUME StoryInv, chainLoserToWinner
  PROVE  StoryInv'
  <1>1. /\ SyncInv /\ SyncInv' /\ merge # NoMerge /\ CopyFollows(merge) /\ CopySound(merge)
        /\ merge \in Merge /\ UNCHANGED <<row, log, flight, cloud, ids>>
    BY ChainKeeps DEF chainLoserToWinner, StoryInv, SyncInv, MergeSound, TypeOK
  <1>2. PICK q \in Merge, b \in Atoms :
           /\ CopyPending(q, b) /\ merge' = recomputeProjection(q, b)
           /\ q.dev = merge.dev /\ q.row = merge.row /\ q.touched = merge.touched
           /\ \/ q.log = merge.log
              \/ \E x \in Event : /\ q.log = Append(merge.log, x) /\ x.id = merge.ids + 1
                                 /\ x.type = "supersede" /\ x.atom = b
    BY <1>1, ChainStep
  <1>3. PendingFollows(q, b)
    <2>1. CASE q.log = merge.log
      BY <1>1, <1>2, <2>1 DEF CopyFollows, PendingFollows
    <2>2. ASSUME NEW x \in Event, q.log = Append(merge.log, x), x.id = merge.ids + 1,
                 x.type = "supersede", x.atom = b
          PROVE  PendingFollows(q, b)
      <3>1. merge.log \in Seq(Event) /\ <<x>> \in Seq(Event) /\ q.log = merge.log \o <<x>>
        BY <1>1, <2>2 DEF Merge
      <3> DEFINE s == merge.log
                 u == <<x>>
                 t == q.log
      <3>2. s \in Seq(Event) /\ u \in Seq(Event) /\ t = s \o u
        BY <3>1
      <3>3. Entries(u) = {x} /\ \A a : EventsOf(u, a) = IF a = b THEN {x} ELSE {}
        BY <2>2 DEF Entries, EventsOf
      <3> HIDE DEF s, t, u
      <3>4. /\ Entries(t) = Entries(s) \cup {x}
            /\ \A a : EventsOf(t, a) = IF a = b THEN EventsOf(s, a) \cup {x} ELSE EventsOf(s, a)
        <4>1. /\ Entries(t) = Entries(s) \cup Entries(u)
              /\ \A a : EventsOf(t, a) = EventsOf(s, a) \cup EventsOf(u, a)
          BY <3>2, CatEntries
        <4> QED
          BY <3>3, <4>1
      <3>5. x.id > ids
        BY <1>1, <2>2 DEF CopySound, SyncInv, TypeOK, Merge
      <3>6. \A e \in Entries(t) : \/ e \in Entries(log[q.dev]) \cup Entries(cloud)
                                  \/ e.id > ids /\ e.type = "supersede"
        BY <1>1, <1>2, <2>2, <3>4, <3>5 DEF CopyFollows, s
      <3>7. /\ \A a : (Created(t, a) <=> Created(s, a)) /\ (Erased(t, a) <=> Erased(s, a))
            /\ \A a : Withdrawn(s, a) => Withdrawn(t, a)
        <4>1. x.type \notin {"create", "erase_request"}
          BY <2>2
        <4> QED
          BY <3>4, <4>1, Readings
      <3>8. \A r : Behind(r, t, b)
        BY <2>2, <3>4, Readings DEF Behind
      <3>9. ASSUME NEW a \in Atoms, a # b, NEW r
            PROVE  /\ Behind(r, s, a) => Behind(r, t, a)
                   /\ Follows(r, s, a) => Follows(r, t, a)
        <4>1. EventsOf(t, a) = EventsOf(s, a)
          BY <3>4, <3>9
        <4>2. Supersedes(t, a) = Supersedes(s, a) /\ Invalidates(t, a) = Invalidates(s, a)
          BY <4>1 DEF Supersedes, Invalidates
        <4> QED
          BY <4>2, FollowsAlike DEF Behind
      <3>10. ASSUME NEW a \in Atoms
             PROVE  IF q.row[a] = NoRow THEN Created(t, a) => Erased(t, a)
                    ELSE /\ Created(t, a)
                         /\ \/ Withdrawn(t, a)
                            \/ /\ Behind(q.row[a], t, a)
                               /\ a = b \/ a \in q.touched \/ Follows(q.row[a], t, a)
                         /\ Private(q.row[a]) => Private(row[q.dev][a])
        <4>1. IF q.row[a] = NoRow THEN Created(s, a) => Erased(s, a)
              ELSE /\ Created(s, a)
                   /\ \/ Withdrawn(s, a)
                      \/ Behind(q.row[a], s, a) /\ (a \in q.touched \/ Follows(q.row[a], s, a))
                   /\ Private(q.row[a]) => Private(row[q.dev][a])
          BY <1>1, <1>2 DEF CopyFollows, s
        <4>2. CASE a = b
          BY <3>7, <3>8, <4>1, <4>2
        <4>3. CASE a # b
          <5>1. /\ Behind(q.row[a], s, a) => Behind(q.row[a], t, a)
                /\ Follows(q.row[a], s, a) => Follows(q.row[a], t, a)
            BY <3>9, <4>3
          <5> QED
            BY <3>7, <4>1, <5>1
        <4> QED
          BY <4>2, <4>3
      <3> QED
        BY <3>6, <3>10 DEF PendingFollows, t
    <2> QED
      BY <1>2, <2>1, <2>2
  <1>4. CopyFollows(recomputeProjection(q, b))
    BY <1>2, <1>3, RecomputeFollows DEF CopyPending
  <1> QED
    BY <1>1, <1>2, <1>4, StoryRests

\* The commit: what the copy says is what the device has from now on.  Synthetic events are
\* new, the others are the cloud's, and nothing private is among them.
LEMMA MergeCommitKeepsStory ==
  ASSUME StoryInv, MergeCommit
  PROVE  StoryInv'
  <1>0. merge # NoMerge /\ TypeOK
    BY DEF MergeCommit, StoryInv, SyncInv
  <1>a. PICK d \in Devices : d = merge.dev
    BY <1>0 DEF TypeOK, Merge
  <1> DEFINE m == merge
  <1>1. /\ m.touched = {} /\ row' = [row EXCEPT ![d] = m.row] /\ log' = [log EXCEPT ![d] = m.log]
        /\ ids' = m.ids /\ merge' = NoMerge /\ flight' = flight /\ cloud' = cloud
    BY <1>a DEF MergeCommit
  <1>2. /\ SyncInv /\ SyncInv' /\ OneStory /\ RowsFollow /\ SecretsKept /\ CopyFollows(m)
        /\ CopySound(m) /\ m \in Merge
    BY <1>0, MergeCommitKeeps DEF StoryInv, SyncInv, MergeSound, TypeOK
  <1>3. m.dev = d /\ History(m.log, m.ids) /\ m.log \in Seq(Event)
    BY <1>2, <1>a DEF CopySound, Merge
  <1>4. \A a \in Atoms : Erased(m.log, a) => m.row[a] = NoRow
    BY <1>1, <1>2 DEF CopySound
  <1>5. /\ \A e \in Entries(m.log) : \/ e \in Entries(log[d]) \cup Entries(cloud)
                                     \/ e.id > ids /\ e.type = "supersede"
        /\ \A a \in Atoms :
             IF m.row[a] = NoRow THEN Created(m.log, a) => Erased(m.log, a)
             ELSE /\ Created(m.log, a)
                  /\ Withdrawn(m.log, a) \/ Follows(m.row[a], m.log, a)
                  /\ Private(m.row[a]) => Private(row[d][a])
    BY <1>1, <1>2, <1>3 DEF CopyFollows
  <1> HIDE DEF m
  <1>6. /\ row'[d] = m.row /\ log'[d] = m.log
        /\ \A c \in Devices \ {d} : row'[c] = row[c] /\ log'[c] = log[c]
    BY <1>0, <1>1 DEF TypeOK
  <1>7. OneStory'
    <2> DEFINE N == {e \in Entries(m.log) : e.id > ids}
    <2>1. World' \subseteq World \cup N
      BY <1>1, <1>5, <1>6, WorldHas
    <2>2. \A e, f \in N : e.id = f.id => e = f
      BY <1>3 DEF History, Entries
    <2>3. \A e \in N : e.id > ids
      OBVIOUS
    <2> HIDE DEF N
    <2> QED
      BY <1>2, <2>1, <2>2, <2>3, StoryGoesOn
  <1>8. RowsFollow'
    <2>1. ASSUME NEW c \in Devices \ {d}, NEW a \in Atoms
          PROVE  IF row'[c][a] = NoRow THEN Created(log'[c], a) => Erased(log'[c], a)
                 ELSE /\ Created(log'[c], a)
                      /\ Withdrawn(log'[c], a) \/ Follows(row'[c][a], log'[c], a)
      BY <1>2, <1>6 DEF RowsFollow
    <2>2. ASSUME NEW a \in Atoms
          PROVE  IF row'[d][a] = NoRow THEN Created(log'[d], a) => Erased(log'[d], a)
                 ELSE /\ Created(log'[d], a)
                      /\ Withdrawn(log'[d], a) \/ Follows(row'[d][a], log'[d], a)
      BY <1>5, <1>6
    <2> QED
      BY <2>1, <2>2 DEF RowsFollow
  <1>9. ASSUME NEW c \in Devices, NEW a \in Atoms, Secret(c, a) PROVE Secret(c, a)'
    <2>1. a \notin Shared /\ ~ Created(cloud, a)
      BY <1>9 DEF Secret, Created
    <2>2. ASSUME c # d PROVE ~ Created(m.log, a)
      <3>1. ~ Created(log[d], a)
        BY <1>9, <2>2 DEF Secret
      <3>2. ASSUME NEW e \in Entries(m.log), e.atom = a, e.type = "create" PROVE FALSE
        BY <1>5, <2>1, <3>1, <3>2, EntriesFacts DEF Created
      <3> QED
        BY <2>1, <3>2, EntriesFacts DEF Created
    <2> QED
      BY <1>1, <1>6, <1>9, <2>2 DEF Secret
  <1>10. ASSUME NEW c \in Devices, NEW a \in Atoms, Private(row'[c][a]) \/ GoneQuietly(log'[c], a)
         PROVE  Private(row[c][a]) \/ GoneQuietly(log[c], a)
    <2>1. CASE c # d
      BY <1>6, <1>10, <2>1
    <2>2. CASE c = d
      <3>1. ASSUME Private(m.row[a]) PROVE Private(row[d][a])
        BY <1>5, <3>1 DEF Private
      <3>2. ASSUME GoneQuietly(m.log, a) PROVE GoneQuietly(log[d], a)
        <4>1. PICK e \in Entries(m.log) : e.atom = a /\ e.type = "erase_request" /\ e.scope = "private"
          BY <3>2, EntriesFacts DEF GoneQuietly
        <4>2. e \notin Entries(cloud)
          BY <1>2, <4>1 DEF SecretsKept
        <4>3. e \in Entries(log[d])
          BY <1>5, <4>1, <4>2
        <4> QED
          BY <4>1, <4>3, EntriesFacts DEF GoneQuietly
      <3> QED
        BY <1>6, <1>10, <2>2, <3>1, <3>2
    <2> QED
      BY <2>1, <2>2
  <1>11. SecretsKept'
    BY <1>1, <1>2, <1>9, <1>10 DEF SecretsKept
  <1> QED
    BY <1>1, <1>2, <1>7, <1>8, <1>11 DEF StoryInv

----------------------------------------------------------------------------
(* Devices that have exchanged everything.                                 *)

\* Devices that start out with the shared rows and empty logs.
LEMMA StoryBegins == Init => StoryInv
  <1> SUFFICES ASSUME Init PROVE StoryInv
    OBVIOUS
  <1>1. SyncInv
    BY InitSound
  <1>2. /\ \A d \in Devices : log[d] = <<>> /\ flight[d] = <<>>
        /\ cloud = <<>> /\ merge = NoMerge
        /\ \A d \in Devices, a \in Atoms :
             row[d][a] = IF a \in Shared THEN NewRow("shared", 0) ELSE NoRow
    BY DEF Init
  <1>3. Entries(<<>>) = {} /\ \A a : EventsOf(<<>>, a) = {}
    BY DEF Entries, EventsOf
  <1>4. OneStory
    BY <1>2, <1>3, WorldHas DEF OneStory
  <1>5. \A a : /\ Created(<<>>, a) <=> a \in Shared
               /\ Supersedes(<<>>, a) = {} /\ Invalidates(<<>>, a) = {}
    BY <1>3 DEF Created, Supersedes, Invalidates
  <1> DEFINE r == NewRow("shared", 0)
  <1>6. r # NoRow /\ r.scope = "shared" /\ r.to = 0 /\ r.by = NoAtom
    <2>1. r \in Row
      BY MemorySyncAssumption DEF NewRow, Row, Scopes
    <2> QED
      BY <2>1, RowIsThere DEF NewRow
  <1> HIDE DEF r
  <1>7. \A a : Follows(r, <<>>, a)
    BY <1>5, <1>6 DEF Follows
  <1>8. RowsFollow
    BY <1>2, <1>5, <1>6, <1>7 DEF RowsFollow, r
  <1>9. SecretsKept
    <2>1. \A d \in Devices, a \in Atoms : ~ Private(row[d][a])
      BY <1>2, <1>6 DEF Private, r
    <2>2. \A d \in Devices, a \in Atoms : ~ GoneQuietly(log[d], a)
      BY <1>2, <1>3 DEF GoneQuietly
    <2> QED
      BY <1>2, <1>3, <2>1, <2>2 DEF SecretsKept
  <1> QED
    BY <1>1, <1>2, <1>4, <1>8, <1>9 DEF StoryInv

\* Every step keeps the invariant.
LEMMA StepKeepsStory ==
  ASSUME StoryInv, [Next]_vars
  PROVE  StoryInv'
  <1>0. SyncInv'
    BY StepKeeps DEF StoryInv
  <1>1. CASE UNCHANGED vars
    BY <1>0, <1>1, StoryRests DEF vars
  <1>2. ASSUME NEW d \in Devices, merge = NoMerge, Lifecycle(d) \/ Ship(d) \/ PullStart(d)
        PROVE  StoryInv'
    BY <1>2, LifecycleKeepsStory, ShipKeepsStory, PullStartKeepsStory
  <1>3. CASE MergeThrows \/ MergeAbort
    BY <1>0, <1>3, StoryRests DEF MergeThrows, MergeAbort
  <1>4. CASE Pull
    BY <1>3, <1>4, MergeRecomputeKeepsStory, ChainKeepsStory, MergeCommitKeepsStory DEF Pull
  <1> QED
    BY <1>1, <1>2, <1>4 DEF Next

\* On every device, in every order of operations, shipments and pulls: an event is the same
\* wherever it is, a row follows from the events of its own log, and what is private was told
\* to nobody.
THEOREM StoryInvariant == Spec => []StoryInv
  <1>1. StoryInv /\ [Next]_vars => StoryInv'
    BY StepKeepsStory
  <1> QED
    BY <1>1, StoryBegins, PTL DEF Spec

\* Once all is exchanged, what a device tells of an atom it holds, or of its shared erasure,
\* is in every log: the same event, but for the scope of a creation.
LEMMA ToldEverywhere ==
  ASSUME StoryInv, Quiet, NEW a \in Atoms, Everywhere(a), NEW c \in Devices, NEW d \in Devices,
         NEW e \in EventsOf(log[c], a),
         row[c][a] # NoRow \/ (e.type = "erase_request" /\ e.scope = "shared")
  PROVE  \E f \in EventsOf(log[d], a) : Same(e, f)
  <1>1. SyncInv /\ OneStory /\ SyncedMeansStored
    BY DEF StoryInv, SyncInv
  <1>2. PICK i \in 1 .. Len(log[c]) : log[c][i] = e /\ e.atom = a
    BY InEventsOf
  <1>3. e.type \notin LocalOnly /\ (row[c][a] # NoRow => row[c][a].scope = "shared")
    BY DEF Everywhere
  <1>4. e.id \in IdsOf(cloud)
    <2>1. CASE e.id \in synced[c]
      BY <1>1, <2>1 DEF SyncedMeansStored
    <2>2. CASE e.id \notin synced[c]
      <3>1. Shippable(c, log[c][i])
        BY <1>2, <1>3, <2>2 DEF Shippable, Quiet
      <3> QED
        BY <1>2, <3>1 DEF Quiet
    <2> QED
      BY <2>1, <2>2
  <1>5. e.id \in IdsOf(log[d])
    BY <1>4 DEF Quiet
  <1>6. PICK f \in Entries(log[d]) : f.id = e.id
    BY <1>5, EntriesFacts
  <1>7. e \in World /\ f \in World
    BY <1>1, EntriesFacts, WorldIds
  <1>8. Same(e, f)
    BY <1>1, <1>6, <1>7 DEF OneStory
  <1>9. f.atom = a
    BY <1>2, <1>8 DEF Same
  <1> QED
    BY <1>8, <1>9, EntriesFacts

\* So a device that holds an atom is agreed with.
LEMMA HeldAlike ==
  ASSUME StoryInv, Quiet, NEW a \in Atoms, Everywhere(a), NEW c \in Devices, NEW d \in Devices,
         row[c][a] # NoRow
  PROVE  /\ row[d][a] # NoRow
         /\ Supersedes(log[c], a) \subseteq Supersedes(log[d], a)
         /\ Invalidates(log[c], a) \subseteq Invalidates(log[d], a)
  <1>1. /\ RowsFollow /\ SecretsKept /\ ErasureWins
        /\ \A x \in Devices : log[x] \in Seq(Event)
    BY DEF StoryInv, SyncInv, TypeOK
  <1>2. \A e \in EventsOf(log[c], a) : \E f \in EventsOf(log[d], a) : Same(e, f)
    BY ToldEverywhere
  <1>3. /\ Supersedes(log[c], a) \subseteq Supersedes(log[d], a)
        /\ Invalidates(log[c], a) \subseteq Invalidates(log[d], a)
    BY <1>2, Readings DEF Same
  <1>4. Created(log[c], a)
    BY <1>1 DEF RowsFollow
  <1>5. Created(log[d], a)
    BY <1>2, <1>4 DEF Created, Same
  <1>6. ASSUME row[d][a] = NoRow PROVE FALSE
    <2>1. Erased(log[d], a)
      BY <1>1, <1>5, <1>6 DEF RowsFollow
    <2>2. PICK e \in EventsOf(log[d], a) : e.type = "erase_request"
      BY <2>1, Readings
    <2>3. CASE e.scope = "shared"
      <3>1. PICK f \in EventsOf(log[c], a) : Same(e, f)
        BY <2>2, <2>3, ToldEverywhere
      <3>2. Erased(log[c], a)
        BY <2>2, <3>1, Readings DEF Same
      <3> QED
        BY <1>1, <3>2 DEF ErasureWins
    <2>4. CASE e.scope = "private"
      <3>1. Secret(d, a)
        BY <1>1, <2>2, <2>4 DEF SecretsKept, GoneQuietly
      <3>2. c # d
        BY <1>6
      <3> QED
        BY <1>4, <3>1, <3>2 DEF Secret
    <2>5. e.scope \in Scopes
      <3>1. e \in Event
        BY <1>1, InEventsOf
      <3> QED
        BY <3>1 DEF Event
    <2> QED
      BY <2>3, <2>4, <2>5 DEF Scopes
  <1> QED
    BY <1>3, <1>6

\* ADR-011: erasure beats supersession beats invalidation, forks go to the greatest of
\* (created_at, event_id), and what recomputeProjection writes comes from the set of events:
\* devices that have exchanged everything agree on every atom that only shared events speak of,
\* in whatever order the events came.
THEOREM DevicesConverge == Spec => []Converged
  <1>1. ASSUME StoryInv, Quiet, NEW a \in Atoms, Everywhere(a), NEW c \in Devices, NEW d \in Devices
        PROVE  \/ row[c][a] = NoRow /\ row[d][a] = NoRow
               \/ /\ row[c][a] # NoRow /\ row[d][a] # NoRow
                  /\ row[c][a].to = row[d][a].to /\ row[c][a].by = row[d][a].by
    <2>1. /\ row[c][a] # NoRow => row[d][a] # NoRow
          /\ row[d][a] # NoRow => row[c][a] # NoRow
      BY <1>1, HeldAlike
    <2>2. ASSUME row[c][a] # NoRow, row[d][a] # NoRow
          PROVE  row[c][a].to = row[d][a].to /\ row[c][a].by = row[d][a].by
      <3>1. /\ Supersedes(log[c], a) = Supersedes(log[d], a)
            /\ Invalidates(log[c], a) = Invalidates(log[d], a)
        <4>1. /\ Supersedes(log[c], a) \subseteq Supersedes(log[d], a)
              /\ Invalidates(log[c], a) \subseteq Invalidates(log[d], a)
          BY <1>1, <2>2, HeldAlike
        <4>2. /\ Supersedes(log[d], a) \subseteq Supersedes(log[c], a)
              /\ Invalidates(log[d], a) \subseteq Invalidates(log[c], a)
          BY <1>1, <2>2, HeldAlike
        <4> QED
          BY <4>1, <4>2
      <3>2. \A x \in Devices : ~ Withdrawn(log[x], a)
        BY <1>1 DEF Everywhere, Withdrawn
      <3>3. Follows(row[c][a], log[c], a) /\ Follows(row[d][a], log[d], a)
        BY <1>1, <2>2, <3>2 DEF StoryInv, RowsFollow
      <3>4. maxByTieBreak(Supersedes(log[c], a), log[c]) = maxByTieBreak(Supersedes(log[d], a), log[d])
        BY <3>1, OneEvent
      <3> QED
        BY <3>1, <3>3, <3>4 DEF Follows
    <2> QED
      BY <2>1, <2>2
  <1>2. StoryInv => Converged
    BY <1>1 DEF Converged
  <1> QED
    BY <1>2, StoryInvariant, PTL
===============================================================================
