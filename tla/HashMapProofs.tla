--------------------------- MODULE HashMapProofs ---------------------------
(***************************************************************************)
(* Proofs about HashMap, for every set of keys and values, every hash      *)
(* function and every even initial capacity: the inductive invariant, the  *)
(* safety properties the runs check, and the refinement of Dictionary.     *)
(***************************************************************************)
EXTENDS HashMap, FiniteSetTheorems, TLAPS

-----------------------------------------------------------------------------
(* The inductive invariant *)

WellFormed(m) ==
    /\ m.capacity \in Nat /\ m.capacity >= 2 /\ m.capacity % 2 = 0
    /\ m.buckets \in [Slots(m) -> Bucket]
    /\ \A j \in Slots(m) : m.buckets[j].key = NULL <=> m.buckets[j].value = NULL
    /\ m.count = Cardinality(Used(m))
    /\ Reachable(m)

\* The buckets between the home of key k and bucket j were passed: they
\* are in use by other keys.
Passed(m, k, j) ==
    /\ j \in Slots(m)
    /\ \A p \in Slots(m) :
         Dist(Home(k, m.capacity), p, m.capacity) < Dist(Home(k, m.capacity), j, m.capacity)
           => InUse(m, p) /\ m.buckets[p].key # k

\* The new table holds what was in the first n buckets of the old one.
CopiedSlots(n) == {p \in Used(map) : p < n}
Copied(n) ==
    /\ \A j \in Used(nm) : \E p \in CopiedSlots(n) : map.buckets[p] = nm.buckets[j]
    /\ \A p \in CopiedSlots(n) : \E j \in Used(nm) : nm.buckets[j] = map.buckets[p]
    /\ nm.count = Cardinality(CopiedSlots(n))

\* Each call's request and each loop's place
CallInv ==
    /\ pc = "idle" => req = NoRequest
    /\ pc \in {"rehash", "place", "probe"} =>
         req \in {Request("set", k, v) : k \in Keys, v \in Vals}
    /\ pc = "peek" => req \in {Request("peek", k, NULL) : k \in Keys}
    /\ pc = "iterate" => req = Request("iterate", NULL, NULL)

LoopInv ==
    /\ pc \in {"rehash", "place"} =>
         /\ nm.capacity = 2 * map.capacity
         /\ MustGrow(map)
         /\ i <= map.capacity
         /\ Copied(i)
    /\ pc = "place" =>
         /\ i < map.capacity
         /\ InUse(map, i)
         /\ Passed(nm, map.buckets[i].key, index)
    /\ pc = "probe" => 2 * map.count < map.capacity
    /\ pc \in {"probe", "peek"} => Passed(map, req.key, index)

IInv == /\ TypeOK
        /\ WellFormed(map) /\ WellFormed(nm)
        /\ AtMostHalfUsed
        /\ CapacityBounded
        /\ CallInv
        /\ LoopInv

-----------------------------------------------------------------------------
(* Circular distances *)

\* A key's home bucket is a bucket of the table.
LEMMA HomeInSlots ==
    ASSUME NEW k \in Keys, NEW c \in Nat, c >= 2
    PROVE  Home(k, c) \in 0..(c - 1)
  BY HashAssumption DEF Home

\* The distance from a bucket tells every bucket from every other.
LEMMA DistFacts ==
    ASSUME NEW c \in Nat, NEW h \in 0..(c - 1), NEW j \in 0..(c - 1), NEW p \in 0..(c - 1)
    PROVE  /\ Dist(h, j, c) \in 0..(c - 1)
           /\ Dist(h, h, c) = 0
           /\ Dist(h, j, c) < Dist(h, p, c) \/ Dist(h, p, c) < Dist(h, j, c) \/ j = p
  BY DEF Dist

\* One step of linear probing passes one bucket, unless it wraps to the start.
LEMMA NextFacts ==
    ASSUME NEW c \in Nat, NEW h \in 0..(c - 1), NEW j \in 0..(c - 1), NEW p \in 0..(c - 1)
    PROVE  /\ NextIndex(j, c) \in 0..(c - 1)
           /\ Dist(h, p, c) < Dist(h, NextIndex(j, c), c)
                => p = j \/ Dist(h, p, c) < Dist(h, j, c)
  BY DEF Dist, NextIndex

-----------------------------------------------------------------------------
(* Tables *)

\* A fresh table is well formed and empty.
LEMMA NewMapWellFormed ==
    ASSUME NEW c \in Nat, c >= 2, c % 2 = 0
    PROVE  /\ WellFormed(NewMap(c))
           /\ Used(NewMap(c)) = {}
           /\ NewMap(c).capacity = c
           /\ NewMap(c).count = 0
  <1>1. Used(NewMap(c)) = {}
    BY DEF NewMap, Used, InUse, Slots, EmptyBucket
  <1>2. NewMap(c).buckets \in [Slots(NewMap(c)) -> Bucket]
    BY DEF NewMap, Slots, Bucket, EmptyBucket
  <1>3. \A j \in Slots(NewMap(c)) :
          NewMap(c).buckets[j].key = NULL <=> NewMap(c).buckets[j].value = NULL
    BY DEF NewMap, Slots, EmptyBucket
  <1>4. Reachable(NewMap(c))
    BY <1>1 DEF Reachable
  <1>5. NewMap(c).count = Cardinality(Used(NewMap(c)))
    BY <1>1, FS_EmptySet DEF NewMap
  <1> QED
    BY <1>1, <1>2, <1>3, <1>4, <1>5 DEF WellFormed, NewMap

\* The buckets in use are finitely many.
LEMMA UsedFinite ==
    ASSUME NEW m, WellFormed(m), NEW S \in SUBSET Used(m)
    PROVE  IsFiniteSet(S) /\ Cardinality(S) \in Nat
  <1>1. IsFiniteSet(0..(m.capacity - 1))
    BY FS_Interval DEF WellFormed
  <1>2. S \in SUBSET (0..(m.capacity - 1))
    BY DEF Used, Slots
  <1> QED
    BY <1>1, <1>2, FS_Subset, FS_CardinalityType

\* What a well-formed table is a record of
LEMMA WellFormedType ==
    ASSUME NEW m, WellFormed(m)
    PROVE  /\ m.capacity \in Nat /\ m.count \in Nat
           /\ m.buckets \in [0..(m.capacity - 1) -> Bucket]
  BY UsedFinite DEF WellFormed, Slots

\* A bucket in use holds a key and a value.
LEMMA UsedBucket ==
    ASSUME NEW m, WellFormed(m), NEW j \in Used(m)
    PROVE  /\ j \in Slots(m) /\ j \in 0..(m.capacity - 1)
           /\ m.buckets[j].key \in Keys
           /\ m.buckets[j].value \in Vals
           /\ m.buckets[j] = Pair(m.buckets[j].key, m.buckets[j].value)
  BY DEF WellFormed, Used, InUse, Slots, Bucket, Pair

\* Probing starts at the home bucket, having passed none.
LEMMA PassedHome ==
    ASSUME NEW m, WellFormed(m), NEW k \in Keys
    PROVE  Passed(m, k, Home(k, m.capacity))
  <1> DEFINE h == Home(k, m.capacity)
  <1>1. h \in 0..(m.capacity - 1) /\ m.capacity \in Nat
    BY HomeInSlots DEF WellFormed
  <1>2. \A p \in 0..(m.capacity - 1) : ~(Dist(h, p, m.capacity) < Dist(h, h, m.capacity))
    <2> TAKE p \in 0..(m.capacity - 1)
    <2> HIDE DEF h
    <2> QED BY <1>1, DistFacts
  <1> QED
    BY <1>1, <1>2 DEF Passed, Slots

\* Probing past a bucket another key uses keeps the path behind it in use.
LEMMA PassedNext ==
    ASSUME NEW m, WellFormed(m), NEW k \in Keys, NEW j, Passed(m, k, j),
           InUse(m, j), m.buckets[j].key # k
    PROVE  Passed(m, k, NextIndex(j, m.capacity))
  <1> DEFINE h == Home(k, m.capacity)
  <1>1. h \in 0..(m.capacity - 1) /\ m.capacity \in Nat /\ j \in 0..(m.capacity - 1)
    BY HomeInSlots DEF WellFormed, Passed, Slots
  <1>2. NextIndex(j, m.capacity) \in Slots(m)
    BY <1>1, NextFacts DEF Slots
  <1>3. ASSUME NEW p \in Slots(m),
               Dist(h, p, m.capacity) < Dist(h, NextIndex(j, m.capacity), m.capacity)
        PROVE  InUse(m, p) /\ m.buckets[p].key # k
    <2>1. p = j \/ Dist(h, p, m.capacity) < Dist(h, j, m.capacity)
      <3> p \in 0..(m.capacity - 1)
        BY DEF Slots
      <3> HIDE DEF h
      <3> QED BY <1>1, <1>3, NextFacts
    <2> QED
      BY <2>1 DEF Passed
  <1> QED
    BY <1>2, <1>3 DEF Passed

\* A table holds a key in one bucket.
LEMMA KeyHeldOnce ==
    ASSUME NEW m, WellFormed(m), NEW p \in Used(m), NEW q \in Used(m),
           m.buckets[p].key = m.buckets[q].key
    PROVE  p = q
  <1> DEFINE h == Home(m.buckets[p].key, m.capacity)
             d(j) == Dist(h, j, m.capacity)
  <1>1. m.capacity \in Nat /\ h \in 0..(m.capacity - 1)
    BY HomeInSlots, UsedBucket DEF WellFormed
  <1>2. p \in 0..(m.capacity - 1) /\ q \in 0..(m.capacity - 1) /\ p \in Slots(m) /\ q \in Slots(m)
    BY UsedBucket
  <1>3. ~(d(p) < d(q)) /\ ~(d(q) < d(p))
    BY <1>2 DEF WellFormed, Reachable
  <1>4. d(p) < d(q) \/ d(q) < d(p) \/ p = q
    <2> HIDE DEF h
    <2> QED BY <1>1, <1>2, DistFacts
  <1> QED
    BY <1>3, <1>4

\* A probe that stops at a free bucket proves that the table has no such key.
LEMMA FreeMeansAbsent ==
    ASSUME NEW m, WellFormed(m), NEW k \in Keys, NEW j, Passed(m, k, j), ~InUse(m, j)
    PROVE  \A p \in Used(m) : m.buckets[p].key # k
  <1> SUFFICES ASSUME NEW p \in Used(m), m.buckets[p].key = k
               PROVE  FALSE
    OBVIOUS
  <1> DEFINE h == Home(k, m.capacity)
             d(x) == Dist(h, x, m.capacity)
  <1>1. m.capacity \in Nat /\ h \in 0..(m.capacity - 1)
    BY HomeInSlots DEF WellFormed
  <1>2. p \in 0..(m.capacity - 1) /\ j \in 0..(m.capacity - 1) /\ p \in Slots(m) /\ j \in Slots(m)
    BY UsedBucket DEF Passed, Slots
  <1>3. ~(d(j) < d(p))
    BY <1>2 DEF WellFormed, Reachable
  <1>4. ~(d(p) < d(j))
    BY <1>2 DEF Passed
  <1>5. p # j
    BY DEF Used
  <1>6. d(j) < d(p) \/ d(p) < d(j) \/ p = j
    <2> HIDE DEF h
    <2> QED BY <1>1, <1>2, DistFacts
  <1> QED
    BY <1>3, <1>4, <1>5, <1>6

\* Filling the free bucket that ended a probe keeps the table well formed.
LEMMA FillWellFormed ==
    ASSUME NEW m, WellFormed(m), NEW k \in Keys, NEW v \in Vals, NEW j,
           Passed(m, k, j), ~InUse(m, j)
    PROVE  LET n == FillBucket(m, j, k, v)
           IN  /\ WellFormed(n)
               /\ Used(n) = Used(m) \union {j}
               /\ n.capacity = m.capacity
               /\ n.count = m.count + 1
               /\ n.buckets[j] = Pair(k, v)
               /\ \A p \in Used(m) : n.buckets[p] = m.buckets[p]
  <1> DEFINE n == FillBucket(m, j, k, v)
  <1> n.capacity = m.capacity /\ n.count = m.count + 1
    BY DEF FillBucket
  <1> n.buckets = [m.buckets EXCEPT ![j] = Pair(k, v)]
    BY DEF FillBucket
  <1> HIDE DEF n
  <1>0. j \in Slots(m) /\ j \notin Used(m) /\ Slots(n) = Slots(m)
    BY DEF Passed, Used, Slots
  <1>1. /\ n.buckets \in [Slots(n) -> Bucket]
        /\ n.buckets[j] = Pair(k, v)
        /\ \A p \in Slots(m) : p # j => n.buckets[p] = m.buckets[p]
    BY <1>0 DEF WellFormed, Bucket, Pair
  <1>2. Used(n) = Used(m) \union {j}
    BY <1>0, <1>1, ValuesAssumption DEF Used, InUse, Pair
  <1>3. \A p \in Slots(n) : n.buckets[p].key = NULL <=> n.buckets[p].value = NULL
    BY <1>0, <1>1, ValuesAssumption DEF WellFormed, Pair
  <1>4. n.count = Cardinality(Used(n))
    BY <1>0, <1>2, UsedFinite, FS_AddElement DEF WellFormed
  <1>5. Reachable(n)
    <2> SUFFICES ASSUME NEW q \in Used(n), NEW p \in Slots(n),
                        Dist(Home(n.buckets[q].key, n.capacity), p, n.capacity)
                          < Dist(Home(n.buckets[q].key, n.capacity), q, n.capacity)
                 PROVE  InUse(n, p) /\ n.buckets[p].key # n.buckets[q].key
      BY DEF Reachable
    <2>1. CASE q = j
      <3>1. n.buckets[q].key = k
        BY <2>1, <1>1 DEF Pair
      <3>2. InUse(m, p) /\ m.buckets[p].key # k
        BY <3>1, <2>1, <1>0 DEF Passed
      <3>3. p # j
        BY <3>2
      <3> QED
        BY <3>1, <3>2, <3>3, <1>0, <1>1 DEF InUse
    <2>2. CASE q # j
      <3>1. q \in Used(m) /\ n.buckets[q] = m.buckets[q] /\ q \in Slots(m)
        BY <2>2, <1>0, <1>1, <1>2 DEF Used
      <3>2. InUse(m, p) /\ m.buckets[p].key # m.buckets[q].key
        BY <3>1, <1>0 DEF WellFormed, Reachable
      <3>3. p # j
        BY <3>2
      <3> QED
        BY <3>1, <3>2, <3>3, <1>0, <1>1 DEF InUse
    <2> QED BY <2>1, <2>2
  <1>6. \A p \in Used(m) : n.buckets[p] = m.buckets[p]
    BY <1>0, <1>1 DEF Used
  <1> QED
    BY <1>0, <1>1, <1>2, <1>3, <1>4, <1>5, <1>6 DEF WellFormed, n

\* Replacing the value of the bucket that holds a key changes nothing else.
LEMMA UpdateWellFormed ==
    ASSUME NEW m, WellFormed(m), NEW k \in Keys, NEW v \in Vals, NEW j \in Slots(m),
           InUse(m, j), m.buckets[j].key = k
    PROVE  LET n == UpdateBucket(m, j, k, v)
           IN  /\ WellFormed(n)
               /\ Used(n) = Used(m)
               /\ n.capacity = m.capacity
               /\ n.count = m.count
               /\ n.buckets[j] = Pair(k, v)
               /\ \A p \in Slots(m) : p # j => n.buckets[p] = m.buckets[p]
  <1> DEFINE n == UpdateBucket(m, j, k, v)
  <1> n.capacity = m.capacity /\ n.count = m.count
    BY DEF UpdateBucket
  <1> n.buckets = [m.buckets EXCEPT ![j] = Pair(k, v)]
    BY DEF UpdateBucket
  <1> HIDE DEF n
  <1>0. Slots(n) = Slots(m)
    BY DEF Slots
  <1>1. /\ n.buckets \in [Slots(n) -> Bucket]
        /\ n.buckets[j] = Pair(k, v)
        /\ \A p \in Slots(m) : p # j => n.buckets[p] = m.buckets[p]
    BY <1>0 DEF WellFormed, Bucket, Pair
  <1>2. Used(n) = Used(m)
    BY <1>0, <1>1, ValuesAssumption DEF Used, InUse, Pair
  <1>3. \A p \in Slots(m) : n.buckets[p].key = m.buckets[p].key /\ (InUse(n, p) <=> InUse(m, p))
    BY <1>0, <1>1, ValuesAssumption DEF Pair, InUse
  <1>4. Reachable(n)
    BY <1>0, <1>2, <1>3 DEF WellFormed, Reachable, Used
  <1>5. \A p \in Slots(n) : n.buckets[p].key = NULL <=> n.buckets[p].value = NULL
    BY <1>0, <1>3 DEF WellFormed, InUse
  <1> QED
    BY <1>0, <1>1, <1>2, <1>4, <1>5 DEF WellFormed, n

\* What a table maps a key to, told by the bucket that holds it ...
LEMMA ContentsHit ==
    ASSUME NEW m, WellFormed(m), NEW j \in Used(m)
    PROVE  Contents(m)[m.buckets[j].key] = m.buckets[j].value
  <1> DEFINE k == m.buckets[j].key
             c == CHOOSE p \in Slots(m) : Holds(m, k, p)
  <1>1. k \in Keys /\ Holds(m, k, j) /\ j \in Slots(m)
    BY UsedBucket DEF Holds, Used
  <1>2. c \in Slots(m) /\ Holds(m, k, c)
    BY <1>1
  <1>3. c = j
    BY <1>2, KeyHeldOnce DEF Holds, Used
  <1> QED
    BY <1>1, <1>3 DEF Contents

\* ... or by the absence of one.
LEMMA ContentsMiss ==
    ASSUME NEW m, NEW k \in Keys, \A p \in Used(m) : m.buckets[p].key # k
    PROVE  Contents(m)[k] = NULL
  BY DEF Contents, Holds, Used

-----------------------------------------------------------------------------
(* The inductive invariant *)

\* The old table's first n+1 buckets are its first n and, if it is in use,
\* bucket n.
LEMMA CopiedSlotsNext ==
    ASSUME WellFormed(map), NEW n \in Nat
    PROVE  CopiedSlots(n + 1) = IF n \in Used(map) THEN CopiedSlots(n) \union {n}
                                                   ELSE CopiedSlots(n)
  <1>1. \A p \in Used(map) : p \in Nat
    BY UsedBucket DEF WellFormed
  <1> QED
    BY <1>1 DEF CopiedSlots

\* The first table is well formed.
LEMMA InitIInv == Init => IInv
  <1> SUFFICES ASSUME Init PROVE IInv
    OBVIOUS
  <1>1. InitCap \in Nat /\ InitCap >= 2 /\ InitCap % 2 = 0
    BY InitCapAssumption
  <1>2. /\ WellFormed(map) /\ Used(map) = {} /\ map.capacity = InitCap /\ map.count = 0
        /\ WellFormed(nm)
    BY <1>1, NewMapWellFormed DEF Init
  <1>3. TypeOK
    BY <1>1, <1>2 DEF Init, TypeOK, WellFormed, Slots, NewMap
  <1>4. AtMostHalfUsed /\ CapacityBounded
    BY <1>1, <1>2 DEF AtMostHalfUsed, CapacityBounded, WellFormed
  <1>5. CallInv /\ LoopInv
    BY DEF Init, CallInv, LoopInv
  <1> QED BY <1>2, <1>3, <1>4, <1>5 DEF IInv

\* What is left of the invariant when a step changes neither table.
LEMMA SameTables ==
    ASSUME IInv, map' = map, nm' = nm
    PROVE  /\ WellFormed(map)' /\ WellFormed(nm)' /\ AtMostHalfUsed' /\ CapacityBounded'
           /\ \A k, j : Passed(map, k, j) => Passed(map', k, j)
           /\ \A k, j : Passed(nm, k, j) => Passed(nm', k, j)
           /\ \A n : CopiedSlots(n)' = CopiedSlots(n)
  BY DEF IInv, WellFormed, Slots, Used, InUse, Reachable, AtMostHalfUsed, CapacityBounded,
         Passed, CopiedSlots

\* The numbers in a state of the invariant
LEMMA Sizes ==
    ASSUME IInv
    PROVE  /\ WellFormed(map) /\ WellFormed(nm) /\ TypeOK
           /\ map.capacity \in Nat /\ map.capacity >= 2 /\ map.capacity % 2 = 0
           /\ nm.capacity \in Nat /\ nm.capacity >= 2 /\ nm.capacity % 2 = 0
           /\ map.count \in Nat /\ nm.count \in Nat /\ i \in Nat /\ index \in Nat
           /\ 2 * map.count <= map.capacity
  BY DEF IInv, WellFormed, TypeOK, AtMostHalfUsed

\* The calls keep the invariant.
LEMMA CallKeepsIInv ==
    ASSUME IInv, Call
    PROVE  IInv'
  <1>0. CallInv /\ LoopInv
    BY DEF IInv
  <1>1. ASSUME NEW k \in Keys, NEW v \in Vals, CallSet(k, v)
        PROVE  IInv'
    <2> USE <1>1 DEF CallSet
    <2>0. map' = map /\ req' = Request("set", k, v) /\ resp' = NULL
      OBVIOUS
    <2>1. WellFormed(map)' /\ AtMostHalfUsed' /\ CapacityBounded'
      BY DEF IInv, WellFormed, Slots, Used, InUse, Reachable, AtMostHalfUsed, CapacityBounded
    <2>2. CASE MustGrow(map)
      <3>1. 2 * map.capacity \in Nat /\ 2 * map.capacity >= 2 /\ (2 * map.capacity) % 2 = 0
        BY Sizes
      <3>2. /\ WellFormed(nm') /\ Used(nm') = {} /\ nm'.capacity = 2 * map.capacity
            /\ nm'.count = 0 /\ i' = 0 /\ pc' = "rehash" /\ index' = index
        BY <2>2, <3>1, NewMapWellFormed
      <3>3. TypeOK'
        <4>1. nm'.buckets \in [0..(nm'.capacity - 1) -> Bucket] /\ nm'.count \in Nat
          BY <3>2, WellFormedType
        <4> QED BY <4>1, <3>2, Sizes DEF TypeOK
      <3>4. Copied(i)'
        <4>1. CopiedSlots(0)' = {}
          BY Sizes, UsedBucket DEF CopiedSlots, Used, Slots, InUse
        <4>2. CopiedSlots(i)' = {}
          BY <4>1, <3>2
        <4> QED BY <4>2, <3>2, FS_EmptySet DEF Copied, Used, InUse, Slots
      <3>5. LoopInv'
        BY <2>2, <3>2, <3>4, Sizes DEF LoopInv, MustGrow
      <3>6. CallInv'
        BY <3>2 DEF CallInv
      <3> QED BY <2>1, <3>2, <3>3, <3>5, <3>6 DEF IInv, WellFormed, Used, Reachable, Slots, InUse
    <2>3. CASE ~MustGrow(map)
      <3>1. nm' = nm /\ i' = i /\ pc' = "probe" /\ index' = Home(k, map.capacity)
        BY <2>3
      <3>2. index' \in Nat
        BY <3>1, Sizes, HomeInSlots
      <3>3. TypeOK'
        BY <3>1, <3>2, Sizes DEF TypeOK
      <3>4. Passed(map, k, index)'
        BY <3>1, Sizes, PassedHome DEF Passed, InUse, Slots
      <3>5. LoopInv'
        BY <2>3, <3>1, <3>4, Sizes DEF LoopInv, MustGrow, Request
      <3>6. CallInv'
        BY <3>1 DEF CallInv
      <3> QED BY <2>0, <3>1, <3>3, <3>5, <3>6, SameTables DEF IInv
    <2> QED BY <2>2, <2>3
  <1>2. ASSUME NEW k \in Keys, CallPeek(k)
        PROVE  IInv'
    <2> USE <1>2 DEF CallPeek
    <2>1. index' \in Nat /\ TypeOK'
      BY Sizes, HomeInSlots DEF TypeOK
    <2>2. Passed(map, k, index)'
      BY Sizes, PassedHome DEF Passed, InUse, Slots
    <2>3. LoopInv' /\ CallInv'
      BY <2>2 DEF LoopInv, CallInv, Request
    <2> QED BY <2>1, <2>3, SameTables DEF IInv
  <1>3. ASSUME CallIterate
        PROVE  IInv'
    <2> USE <1>3 DEF CallIterate
    <2>1. TypeOK'
      BY Sizes DEF TypeOK
    <2>2. LoopInv' /\ CallInv'
      BY DEF LoopInv, CallInv
    <2> QED BY <2>1, <2>2, SameTables DEF IInv
  <1> QED BY <1>1, <1>2, <1>3 DEF Call

\* The rehash keeps the invariant.
LEMMA RehashKeepsIInv ==
    ASSUME IInv, Rehash
    PROVE  IInv'
  <1>0. CallInv /\ LoopInv
    BY DEF IInv
  <1>1. CASE RehashSkip
    <2> USE <1>1 DEF RehashSkip
    <2>1. i \notin Used(map)
      BY Sizes DEF Used, InUse, Slots, WellFormed
    <2>2. CopiedSlots(i)' = CopiedSlots(i)
      BY <2>1, CopiedSlotsNext, Sizes DEF CopiedSlots, Used, InUse, Slots
    <2>3. Copied(i)'
      BY <1>0, <2>2 DEF Copied, Used, InUse, Slots, LoopInv
    <2>4. LoopInv' /\ CallInv'
      BY <1>0, <2>3, Sizes DEF LoopInv, CallInv, MustGrow
    <2>5. TypeOK'
      BY Sizes DEF TypeOK
    <2> QED BY <2>4, <2>5, SameTables DEF IInv
  <1>2. CASE RehashPlace
    <2> USE <1>2 DEF RehashPlace
    <2>1. i \in Used(map) /\ InUse(map, i) /\ map.buckets[i].key \in Keys
      <3>1. i \in Used(map) /\ InUse(map, i)
        BY Sizes DEF Used, InUse, Slots, WellFormed
      <3> QED BY <3>1, Sizes, UsedBucket
    <2>2. index' \in Nat
      BY <2>1, Sizes, HomeInSlots
    <2>3. Passed(nm, map.buckets[i].key, index)'
      BY <2>1, Sizes, PassedHome DEF Passed, InUse, Slots
    <2>4. Copied(i)'
      BY <1>0 DEF Copied, CopiedSlots, Used, InUse, Slots, LoopInv
    <2>5. LoopInv' /\ CallInv'
      BY <1>0, <2>1, <2>3, <2>4, Sizes DEF LoopInv, CallInv, MustGrow, InUse
    <2>6. TypeOK'
      BY <2>2, Sizes DEF TypeOK
    <2> QED BY <2>5, <2>6, SameTables DEF IInv
  <1>3. CASE PlaceAdvance
    <2> USE <1>3 DEF PlaceAdvance
    <2>1. i \in Used(map) /\ map.buckets[i].key \in Keys
      <3>1. i \in Used(map)
        BY <1>0, Sizes DEF LoopInv, Used, Slots
      <3> QED BY <3>1, Sizes, UsedBucket
    <2>2. Passed(nm, map.buckets[i].key, NextIndex(index, nm.capacity))
      BY <1>0, <2>1, Sizes, PassedNext DEF LoopInv, InUse
    <2>3. Passed(nm, map.buckets[i].key, index)' /\ index' \in Nat
      BY <2>2, Sizes DEF Passed, InUse, Slots
    <2>4. Copied(i)'
      BY <1>0 DEF Copied, CopiedSlots, Used, InUse, Slots, LoopInv
    <2>5. LoopInv' /\ CallInv'
      BY <1>0, <2>3, <2>4, Sizes DEF LoopInv, CallInv, MustGrow, InUse
    <2>6. TypeOK'
      BY <2>3, Sizes DEF TypeOK
    <2> QED BY <2>5, <2>6, SameTables DEF IInv
  <1>4. CASE PlaceFill
    <2> USE <1>4 DEF PlaceFill
    <2> DEFINE k == map.buckets[i].key
               v == map.buckets[i].value
    <2>1. i \in Used(map) /\ k \in Keys /\ v \in Vals /\ map.buckets[i] = Pair(k, v)
      <3>1. i \in Used(map)
        BY <1>0, Sizes DEF LoopInv, Used, Slots
      <3> QED BY <3>1, Sizes, UsedBucket
    <2>2. Passed(nm, k, index) /\ ~InUse(nm, index)
      BY <1>0 DEF LoopInv, InUse
    <2>3. /\ WellFormed(nm') /\ nm'.capacity = nm.capacity /\ nm'.count = nm.count + 1
          /\ Used(nm') = Used(nm) \union {index}
          /\ nm'.buckets[index] = map.buckets[i]
          /\ \A p \in Used(nm) : nm'.buckets[p] = nm.buckets[p]
      BY <2>1, <2>2, Sizes, FillWellFormed
    <2>4. CopiedSlots(i)' = CopiedSlots(i) \union {i}
      BY <2>1, CopiedSlotsNext, Sizes DEF CopiedSlots, Used, InUse, Slots
    <2>5. Copied(i)'
      <3>1. Copied(i) /\ i \notin CopiedSlots(i)
        BY <1>0, Sizes DEF LoopInv, CopiedSlots
      <3>2. nm'.count = Cardinality(CopiedSlots(i) \union {i})
        <4>1. IsFiniteSet(CopiedSlots(i))
          <5>1. CopiedSlots(i) \in SUBSET Used(map)
            BY DEF CopiedSlots
          <5> QED BY <5>1, UsedFinite, Sizes
        <4>2. nm.count = Cardinality(CopiedSlots(i)) /\ nm.count \in Nat
          BY <3>1, Sizes DEF Copied
        <4>3. Cardinality(CopiedSlots(i) \union {i}) = Cardinality(CopiedSlots(i)) + 1
          BY <4>1, <3>1, FS_AddElement
        <4> QED BY <4>2, <4>3, <2>3
      <3>3. \A j \in Used(nm') : \E p \in CopiedSlots(i) \union {i} :
              map.buckets[p] = nm'.buckets[j]
        BY <3>1, <2>3 DEF Copied
      <3>4. \A p \in CopiedSlots(i) \union {i} : \E j \in Used(nm') :
              nm'.buckets[j] = map.buckets[p]
        BY <3>1, <2>3 DEF Copied
      <3>5. map' = map /\ Used(nm)' = Used(nm')
        BY DEF Used, InUse, Slots
      <3> HIDE DEF PlaceFill
      <3> QED BY <3>2, <3>3, <3>4, <3>5, <2>4 DEF Copied
    <2>6. LoopInv' /\ CallInv'
      BY <1>0, <2>3, <2>5, Sizes DEF LoopInv, CallInv, MustGrow
    <2>7. TypeOK'
      <3>1. nm'.buckets \in [0..(nm'.capacity - 1) -> Bucket] /\ nm'.count \in Nat
        BY <2>3, WellFormedType
      <3>2. nm'.capacity \in Nat /\ i' \in Nat /\ TypeOK
        BY <2>3, Sizes
      <3> QED BY <3>1, <3>2 DEF TypeOK
    <2>8. WellFormed(map)' /\ AtMostHalfUsed' /\ CapacityBounded'
      BY DEF IInv, WellFormed, Slots, Used, InUse, Reachable, AtMostHalfUsed, CapacityBounded
    <2>9. WellFormed(nm)'
      BY <2>3 DEF WellFormed, Slots, Used, InUse, Reachable
    <2> QED BY <2>6, <2>7, <2>8, <2>9 DEF IInv
  <1>5. CASE RehashDone
    <2> USE <1>5 DEF RehashDone
    <2>1. CopiedSlots(i) = Used(map) /\ map.count = nm.count
      <3>1. i = map.capacity /\ Copied(i)
        BY <1>0, Sizes DEF LoopInv
      <3>2. CopiedSlots(i) = Used(map)
        BY <3>1, Sizes, UsedBucket DEF CopiedSlots
      <3> QED BY <3>1, <3>2, Sizes DEF Copied, WellFormed
    <2>2. map'.buckets = nm.buckets /\ map'.capacity = nm.capacity /\ map'.count = nm.count
      BY <2>1
    <2>3. WellFormed(map)'
      BY <2>2, Sizes DEF WellFormed, Slots, Used, InUse, Reachable
    <2>4. nm.capacity = 2 * map.capacity /\ 2 * map.count >= map.capacity
      BY <1>0, Sizes DEF LoopInv, MustGrow
    <2>5. AtMostHalfUsed' /\ CapacityBounded' /\ 2 * map'.count < map'.capacity
      <3>1. map'.count = Cardinality(Used(map'))
        BY <2>3 DEF WellFormed, Used, InUse, Slots
      <3>2. 2 * map'.count < map'.capacity /\ map'.capacity <= 4 * map'.count
        BY <2>1, <2>2, <2>4, Sizes
      <3> QED BY <3>1, <3>2, <2>2, Sizes DEF AtMostHalfUsed, CapacityBounded, Used, InUse, Slots
    <2>6. WellFormed(nm') /\ nm'.capacity \in Nat
      BY NewMapWellFormed, InitCapAssumption DEF WellFormed
    <2>7. WellFormed(nm)'
      BY <2>6 DEF WellFormed, Slots, Used, InUse, Reachable
    <2>8. req.key \in Keys
      BY <1>0 DEF CallInv, Request
    <2>9. Passed(nm, req.key, index')  /\ index' \in Nat
      BY <2>8, Sizes, PassedHome, HomeInSlots
    <2>10. Passed(map, req.key, index)'
      BY <2>2, <2>9 DEF Passed, InUse, Slots
    <2>11. LoopInv' /\ CallInv'
      BY <1>0, <2>5, <2>10 DEF LoopInv, CallInv
    <2>12. TypeOK'
      <3>1. /\ nm'.count \in Nat /\ nm'.buckets \in [0..(nm'.capacity - 1) -> Bucket]
            /\ map'.buckets \in [0..(map'.capacity - 1) -> Bucket]
        BY <2>2, <2>6, Sizes, WellFormedType
      <3> QED BY <3>1, <2>2, <2>6, <2>9, Sizes DEF TypeOK
    <2> QED BY <2>3, <2>5, <2>7, <2>11, <2>12 DEF IInv
  <1> QED BY <1>1, <1>2, <1>3, <1>4, <1>5 DEF Rehash

\* What is left of the invariant when map_set has stored its key and returns
LEMMA TablesAfterProbe ==
    ASSUME IInv, Return, nm' = nm, resp' = resp,
           WellFormed(map'), map'.capacity = map.capacity,
           map'.count \in {map.count, map.count + 1},
           2 * map'.count <= map'.capacity
    PROVE  IInv'
  <1> USE DEF Return
  <1>1. WellFormed(map)'
    BY DEF WellFormed, Slots, Used, InUse, Reachable
  <1>2. WellFormed(nm)'
    BY DEF IInv, WellFormed, Slots, Used, InUse, Reachable
  <1>3. AtMostHalfUsed'
    BY DEF AtMostHalfUsed, WellFormed, Used, InUse, Slots
  <1>4. CapacityBounded'
    BY Sizes DEF IInv, CapacityBounded
  <1>5. TypeOK'
    <2>1. map'.buckets \in [0..(map'.capacity - 1) -> Bucket] /\ map'.count \in Nat
      BY WellFormedType
    <2> QED BY <2>1, Sizes DEF TypeOK
  <1>6. LoopInv' /\ CallInv'
    BY DEF LoopInv, CallInv
  <1> QED BY <1>1, <1>2, <1>3, <1>4, <1>5, <1>6 DEF IInv

\* The probing of map_set keeps the invariant: this is where a key enters
\* the table.
LEMMA ProbeKeepsIInv ==
    ASSUME IInv, Probe
    PROVE  IInv'
  <1>0. CallInv /\ LoopInv
    BY DEF IInv
  <1>1. CASE ProbeAdvance
    <2> USE <1>1 DEF ProbeAdvance
    <2>1. req.key \in Keys
      BY <1>0 DEF CallInv, Request
    <2>2. Passed(map, req.key, NextIndex(index, map.capacity))
      BY <1>0, <2>1, Sizes, PassedNext DEF LoopInv, InUse
    <2>3. Passed(map, req.key, index)' /\ index' \in Nat
      BY <2>2, Sizes DEF Passed, InUse, Slots
    <2>4. LoopInv' /\ CallInv'
      BY <1>0, <2>3 DEF LoopInv, CallInv
    <2>5. TypeOK'
      BY <2>3, Sizes DEF TypeOK
    <2> QED BY <2>4, <2>5, SameTables DEF IInv
  <1>2. CASE ProbeUpdate
    <2> USE <1>2 DEF ProbeUpdate, Return
    <2>1. req.key \in Keys /\ req.value \in Vals
      BY <1>0 DEF CallInv, Request
    <2>2. index \in Slots(map) /\ InUse(map, index)
      BY <1>0 DEF LoopInv, Passed, InUse
    <2>3. /\ WellFormed(map') /\ Used(map') = Used(map)
          /\ map'.capacity = map.capacity /\ map'.count = map.count
      BY <2>1, <2>2, Sizes, UpdateWellFormed
    <2> QED BY <2>3, Sizes, TablesAfterProbe
  <1>3. CASE ProbeFill
    <2> USE <1>3 DEF ProbeFill, Return
    <2>1. req.key \in Keys /\ req.value \in Vals
      BY <1>0 DEF CallInv, Request
    <2>2. Passed(map, req.key, index) /\ ~InUse(map, index)
      BY <1>0 DEF LoopInv, InUse
    <2>3. /\ WellFormed(map') /\ map'.capacity = map.capacity
          /\ map'.count = map.count + 1
      BY <2>1, <2>2, Sizes, FillWellFormed
    <2>4. 2 * map.count < map.capacity
      BY <1>0 DEF LoopInv
    <2> QED BY <2>3, <2>4, Sizes, TablesAfterProbe
  <1> QED BY <1>1, <1>2, <1>3 DEF Probe

\* map_peek keeps the invariant.
LEMMA PeekKeepsIInv ==
    ASSUME IInv, Peek
    PROVE  IInv'
  <1>0. CallInv /\ LoopInv
    BY DEF IInv
  <1>1. CASE PeekAdvance
    <2> USE <1>1 DEF PeekAdvance
    <2>1. req.key \in Keys
      BY <1>0 DEF CallInv, Request
    <2>2. InUse(map, index)
      BY <1>0, Sizes DEF LoopInv, Passed, WellFormed, InUse
    <2>3. Passed(map, req.key, NextIndex(index, map.capacity))
      BY <1>0, <2>1, <2>2, Sizes, PassedNext DEF LoopInv
    <2>4. Passed(map, req.key, index)' /\ index' \in Nat
      BY <2>3, Sizes DEF Passed, InUse, Slots
    <2>5. LoopInv' /\ CallInv'
      BY <1>0, <2>4 DEF LoopInv, CallInv
    <2>6. TypeOK'
      <3>1. map' = map /\ nm' = nm /\ req' = req /\ resp' = resp /\ pc' = pc /\ i' = i
        OBVIOUS
      <3>2. TypeOK /\ index' \in Nat
        BY <2>4, Sizes
      <3> HIDE DEF PeekAdvance
      <3> QED BY ONLY <3>1, <3>2 DEF TypeOK
    <2> QED BY <2>5, <2>6, SameTables DEF IInv
  <1>2. CASE PeekHit \/ PeekMiss
    <2> USE <1>2 DEF PeekHit, PeekMiss, Return
    <2>1. index \in Slots(map) /\ req.key \in Keys
      BY <1>0 DEF LoopInv, CallInv, Request, Passed
    <2>2. map.buckets[index].value \in Vals \union {NULL}
      BY <2>1, Sizes DEF WellFormed, Bucket
    <2>3. TypeOK'
      <3>1. resp' \in Bucket
        BY <2>1, <2>2 DEF Bucket, Pair
      <3>2. map' = map /\ nm' = nm /\ index' = 0 /\ i' = 0
        OBVIOUS
      <3>3. pc' = "idle" /\ req' = NoRequest
        OBVIOUS
      <3>4. TypeOK
        BY Sizes
      <3> HIDE DEF PeekHit, PeekMiss, Return
      <3> QED BY ONLY <3>1, <3>2, <3>3, <3>4 DEF TypeOK
    <2>4. LoopInv' /\ CallInv'
      BY DEF LoopInv, CallInv
    <2> QED BY <2>3, <2>4, SameTables DEF IInv
  <1> QED BY <1>1, <1>2 DEF Peek

\* map_next keeps the invariant.
LEMMA IterateKeepsIInv ==
    ASSUME IInv, Iterate
    PROVE  IInv'
  <1>0. CallInv /\ LoopInv
    BY DEF IInv
  <1>1. CASE IterateSkip \/ IterateYield
    <2> USE <1>1 DEF IterateSkip, IterateYield
    <2>1. i \in Slots(map) /\ map.buckets[i] \in Bucket
      BY Sizes DEF Slots, WellFormed
    <2>2. TypeOK'
      <3>1. resp' \in Bucket \union {NULL} /\ i' \in Nat /\ TypeOK
        BY <2>1, Sizes DEF TypeOK
      <3>2. map' = map /\ nm' = nm /\ req' = req /\ pc' = pc /\ index' = index
        OBVIOUS
      <3> HIDE DEF IterateSkip, IterateYield
      <3> QED BY ONLY <3>1, <3>2 DEF TypeOK
    <2>3. LoopInv' /\ CallInv'
      BY <1>0 DEF LoopInv, CallInv
    <2> QED BY <2>2, <2>3, SameTables DEF IInv
  <1>2. CASE IterateEnd \/ IterateStop
    <2> USE <1>2 DEF IterateEnd, IterateStop, Return
    <2>1. TypeOK'
      BY Sizes DEF TypeOK
    <2>2. LoopInv' /\ CallInv'
      BY DEF LoopInv, CallInv
    <2> QED BY <2>1, <2>2, SameTables DEF IInv
  <1> QED BY <1>1, <1>2 DEF Iterate

\* Every step keeps the invariant.
LEMMA NextKeepsIInv ==
    ASSUME IInv, [Next]_vars
    PROVE  IInv'
  <1>1. CASE Next
    BY <1>1, CallKeepsIInv, RehashKeepsIInv, ProbeKeepsIInv, PeekKeepsIInv, IterateKeepsIInv
       DEF Next, Step
  <1>2. CASE UNCHANGED vars
    <2> USE <1>2 DEF vars
    <2>1. CallInv' /\ TypeOK'
      BY DEF IInv, CallInv, TypeOK
    <2>2. LoopInv'
      BY DEF IInv, LoopInv, MustGrow, Copied, CopiedSlots, Used, InUse, Slots, Passed
    <2> QED BY <2>1, <2>2, SameTables DEF IInv
  <1> QED BY <1>1, <1>2

-----------------------------------------------------------------------------
(* The theorems *)

\* The inductive invariant holds in every state of every run.
THEOREM Invariance == Spec => []IInv
  <1>1. Init => IInv
    BY InitIInv
  <1>2. IInv /\ [Next]_vars => IInv'
    BY NextKeepsIInv
  <1> QED BY <1>1, <1>2, PTL DEF Spec

\* The variables keep their types.
THEOREM TypeCorrectness == Spec => []TypeOK
  <1>1. IInv => TypeOK
    BY DEF IInv
  <1> QED BY <1>1, Invariance, PTL

\* No stored key is ever cut off from its home bucket: not by a collision,
\* not by the wrap, not by a rehash, not in the table being rehashed into.
THEOREM KeysStayReachable == Spec => []EveryKeyReachable
  <1>1. IInv => EveryKeyReachable
    BY DEF IInv, WellFormed, EveryKeyReachable
  <1> QED BY <1>1, Invariance, PTL

\* The table is never more than half full, and its count is exact.
THEOREM NeverMoreThanHalfUsed == Spec => []AtMostHalfUsed
  <1>1. IInv => AtMostHalfUsed
    BY DEF IInv
  <1> QED BY <1>1, Invariance, PTL

\* The table never has more than four buckets per key, once it has grown.
THEOREM CapacityStaysBounded == Spec => []CapacityBounded
  <1>1. IInv => CapacityBounded
    BY DEF IInv
  <1> QED BY <1>1, Invariance, PTL

-----------------------------------------------------------------------------
(* The table implements the dictionary *)

\* Equal tables have equal contents.
LEMMA ContentsOfEqual ==
    ASSUME map' = map
    PROVE  Contents(map)' = Contents(map)
  BY DEF Contents, Holds, Slots, InUse

\* The dictionary starts empty.
LEMMA InitRefines == Init => Dict!Init
  <1> SUFFICES ASSUME Init PROVE Dict!Init
    OBVIOUS
  <1>1. Used(map) = {}
    BY InitCapAssumption, NewMapWellFormed DEF Init
  <1>2. Contents(map) = [k \in Keys |-> NULL]
    BY <1>1 DEF Contents, Holds, Used
  <1>3. Yielded = {}
    BY DEF Yielded, Init
  <1> QED
    BY <1>2, <1>3 DEF Dict!Init, Init, Dict!NoRequest, NoRequest, Dict!Request, Request

\* A call is the dictionary's Invoke.
LEMMA CallRefines ==
    ASSUME IInv, Call
    PROVE  Dict!Next
  <1>0. CallInv
    BY DEF IInv
  <1>1. /\ map' = map /\ resp' = NULL /\ req = NoRequest /\ pc = "idle" /\ pc' # "idle"
        /\ pc' = "iterate" => i' = 0
    BY <1>0 DEF Call, CallSet, CallPeek, CallIterate, CallInv
  <1>2. Yielded = {}
    BY <1>1 DEF Yielded
  <1>3. Yielded' = {}
    <2>1. \A p \in Used(map) : p \in Nat
      BY Sizes, UsedBucket
    <2>2. \A p \in Used(map)' : p \in Nat
      BY <1>1, <2>1 DEF Used, InUse, Slots
    <2> QED BY <1>1, <2>2 DEF Yielded
  <1>4. \A r : req' = r => Dict!Invoke(r)
    BY <1>1, <1>2, <1>3, ContentsOfEqual
       DEF Dict!Invoke, Dict!NoRequest, NoRequest, Dict!Request, Request
  <1>5. \/ \E k \in Keys, v \in Vals : req' = Request("set", k, v)
        \/ \E k \in Keys : req' = Request("peek", k, NULL)
        \/ req' = Request("iterate", NULL, NULL)
    BY DEF Call, CallSet, CallPeek, CallIterate
  <1> QED
    BY <1>4, <1>5 DEF Dict!Next, Dict!Request, Request

\* No step of the rehash changes the dictionary.
LEMMA RehashRefines ==
    ASSUME IInv, Rehash
    PROVE  UNCHANGED Dict!vars
  <1>0. LoopInv
    BY DEF IInv
  <1>1. req' = req /\ resp' = resp
    BY DEF Rehash, RehashSkip, RehashPlace, PlaceAdvance, PlaceFill, RehashDone
  <1>2. Yielded = {} /\ Yielded' = {}
    BY DEF Rehash, RehashSkip, RehashPlace, PlaceAdvance, PlaceFill, RehashDone, Yielded
  <1>3. Contents(map)' = Contents(map)
    <2>1. CASE map' = map
      BY <2>1, ContentsOfEqual
    <2>2. CASE RehashDone
      <3> USE <2>2 DEF RehashDone
      <3>1. i = map.capacity /\ Copied(i)
        BY <1>0, Sizes DEF LoopInv
      <3>2. CopiedSlots(i) = Used(map)
        BY <3>1, Sizes, UsedBucket DEF CopiedSlots
      <3>3. \A k \in Keys : Contents(nm)[k] = Contents(map)[k]
        <4> TAKE k \in Keys
        <4>1. CASE \E p \in Used(map) : map.buckets[p].key = k
          <5>1. PICK p \in Used(map) : map.buckets[p].key = k
            BY <4>1
          <5>2. PICK j \in Used(nm) : nm.buckets[j] = map.buckets[p]
            BY <3>1, <3>2 DEF Copied
          <5> QED BY <5>1, <5>2, Sizes, ContentsHit
        <4>2. CASE \A p \in Used(map) : map.buckets[p].key # k
          <5>1. \A j \in Used(nm) : nm.buckets[j].key # k
            BY <4>2, <3>1, <3>2 DEF Copied
          <5> QED BY <4>2, <5>1, ContentsMiss
        <4> QED BY <4>1, <4>2
      <3>4. Contents(nm) = Contents(map)
        BY <3>3 DEF Contents
      <3>5. Contents(map)' = Contents(nm)
        BY DEF Contents, Holds, Slots, InUse
      <3> QED BY <3>4, <3>5
    <2> QED
      BY <2>1, <2>2 DEF Rehash, RehashSkip, RehashPlace, PlaceAdvance, PlaceFill
  <1> QED BY <1>1, <1>2, <1>3 DEF Dict!vars

\* The step of map_set that stores the value is the dictionary's ApplySet.
LEMMA ProbeRefines ==
    ASSUME IInv, Probe
    PROVE  Dict!Next \/ UNCHANGED Dict!vars
  <1>0. CallInv /\ LoopInv
    BY DEF IInv
  <1>1. CASE ProbeAdvance
    BY <1>1, ContentsOfEqual DEF ProbeAdvance, Dict!vars, Yielded
  <1>2. CASE ProbeUpdate \/ ProbeFill
    <2> USE <1>2 DEF ProbeUpdate, ProbeFill, Return
    <2>1. req.op = "set" /\ req.key \in Keys /\ req.value \in Vals
      BY <1>0 DEF CallInv, Request
    <2>2. Yielded = {} /\ Yielded' = {}
      BY DEF Yielded
    <2>3. /\ WellFormed(map') /\ index \in Used(map')
          /\ map'.buckets[index] = Pair(req.key, req.value)
          /\ \A p \in Used(map) : p # index => map'.buckets[p] = map.buckets[p]
          /\ Used(map') = Used(map) \union {index}
          /\ index \in Used(map) => map.buckets[index].key = req.key
      <3>1. CASE ProbeUpdate
        <4>1. index \in Slots(map) /\ InUse(map, index) /\ index \in Used(map)
          BY <1>0, <3>1 DEF LoopInv, Passed, InUse, Used
        <4> QED BY <3>1, <4>1, <2>1, Sizes, UpdateWellFormed DEF Used
      <3>2. CASE ProbeFill
        <4>1. Passed(map, req.key, index) /\ ~InUse(map, index) /\ index \notin Used(map)
          BY <1>0, <3>2 DEF LoopInv, InUse, Used
        <4> QED BY <3>2, <4>1, <2>1, Sizes, FillWellFormed DEF Used
      <3> QED BY <3>1, <3>2
    <2>4. \A k \in Keys : Contents(map')[k]
                            = IF k = req.key THEN req.value ELSE Contents(map)[k]
      <3> TAKE k \in Keys
      <3>1. CASE k = req.key
        <4>1. Contents(map')[map'.buckets[index].key] = map'.buckets[index].value
          BY <2>3, ContentsHit
        <4> QED BY <4>1, <3>1, <2>3 DEF Pair
      <3>2. CASE k # req.key /\ \E p \in Used(map) : map.buckets[p].key = k
        <4>1. PICK p \in Used(map) : map.buckets[p].key = k
          BY <3>2
        <4>2. p # index
          BY <3>2, <4>1, <2>3
        <4>3. p \in Used(map') /\ map'.buckets[p] = map.buckets[p]
          BY <4>1, <4>2, <2>3
        <4> QED BY <3>2, <4>1, <4>3, <2>3, Sizes, ContentsHit
      <3>3. CASE k # req.key /\ \A p \in Used(map) : map.buckets[p].key # k
        <4>1. \A p \in Used(map') : map'.buckets[p].key # k
          BY <3>3, <2>3 DEF Pair
        <4> QED BY <3>3, <4>1, ContentsMiss
      <3> QED BY <3>1, <3>2, <3>3
    <2>5. Contents(map)' = [Contents(map) EXCEPT ![req.key] = req.value]
      <3>1. Contents(map') = [Contents(map) EXCEPT ![req.key] = req.value]
        BY <2>4 DEF Contents
      <3> QED BY <3>1 DEF Contents, Holds, Slots, InUse
    <2>6. Dict!ApplySet
      BY <2>1, <2>2, <2>5 DEF Dict!ApplySet, Dict!NoRequest, NoRequest, Dict!Request, Request
    <2> QED BY <2>6 DEF Dict!Next
  <1> QED BY <1>1, <1>2 DEF Probe

\* What map_peek returns is what the dictionary holds.
LEMMA PeekRefines ==
    ASSUME IInv, Peek
    PROVE  Dict!Next \/ UNCHANGED Dict!vars
  <1>0. CallInv /\ LoopInv
    BY DEF IInv
  <1>1. CASE PeekAdvance
    BY <1>1, ContentsOfEqual DEF PeekAdvance, Dict!vars, Yielded
  <1>2. CASE PeekHit \/ PeekMiss
    <2> USE <1>2 DEF PeekHit, PeekMiss, Return
    <2>1. req.op = "peek" /\ req.key \in Keys
      BY <1>0 DEF CallInv, Request
    <2>2. Passed(map, req.key, index) /\ index \in Slots(map)
      BY <1>0 DEF LoopInv, Passed
    <2>3. resp' = Pair(req.key, Contents(map)[req.key])
      <3>1. CASE PeekHit
        <4>1. index \in Used(map)
          BY <3>1, <2>1, <2>2, Sizes, ValuesAssumption DEF WellFormed, Used, InUse
        <4> QED BY <3>1, <4>1, Sizes, ContentsHit
      <3>2. CASE PeekMiss
        <4>1. ~InUse(map, index)
          BY <3>2, <2>2, Sizes DEF WellFormed, InUse
        <4>2. \A p \in Used(map) : map.buckets[p].key # req.key
          BY <4>1, <2>1, <2>2, Sizes, FreeMeansAbsent
        <4> QED BY <3>2, <4>2, <2>1, ContentsMiss
      <3> QED BY <3>1, <3>2
    <2>4. Yielded = {} /\ Yielded' = {}
      BY DEF Yielded
    <2>5. Dict!ApplyPeek
      BY <2>1, <2>3, <2>4, ContentsOfEqual
         DEF Dict!ApplyPeek, Dict!NoRequest, NoRequest, Dict!Request, Request, Dict!Pair, Pair
    <2> QED BY <2>5 DEF Dict!Next
  <1> QED BY <1>1, <1>2 DEF Peek

\* map_next yields the present keys, each once, and then ends.
LEMMA IterateRefines ==
    ASSUME IInv, Iterate
    PROVE  Dict!Next \/ UNCHANGED Dict!vars
  <1>0. CallInv
    BY DEF IInv
  <1>1. /\ map' = map /\ pc = "iterate" /\ req.op = "iterate"
        /\ Contents(map)' = Contents(map)
        /\ Used(map)' = Used(map)
        /\ Yielded = {map.buckets[j].key : j \in {p \in Used(map) : p < i}}
        /\ \A p \in Used(map) : p \in Nat /\ p < map.capacity
    BY <1>0, ContentsOfEqual, Sizes, UsedBucket
       DEF Iterate, IterateSkip, IterateYield, IterateEnd, IterateStop, Return,
           CallInv, Request, Yielded, Used, InUse, Slots
  <1>2. CASE IterateSkip
    <2> USE <1>2 DEF IterateSkip
    <2>1. i \notin Used(map)
      BY DEF Used, InUse
    <2>2. {p \in Used(map) : p < i + 1} = {p \in Used(map) : p < i}
      BY <1>1, <2>1, Sizes
    <2>3. Yielded' = Yielded
      BY <1>1, <2>2 DEF Yielded
    <2> QED BY <1>1, <2>3 DEF Dict!vars
  <1>3. CASE IterateYield
    <2> USE <1>3 DEF IterateYield
    <2> DEFINE k == map.buckets[i].key
    <2>1. i \in Used(map)
      BY Sizes DEF Used, InUse, Slots
    <2>2. k \in Keys /\ Contents(map)[k] = map.buckets[i].value
          /\ Contents(map)[k] # NULL /\ map.buckets[i] = Pair(k, Contents(map)[k])
      BY <2>1, Sizes, UsedBucket, ContentsHit, ValuesAssumption
    <2>3. k \notin Yielded
      <3> SUFFICES ASSUME NEW p \in Used(map), p < i, map.buckets[p].key = k PROVE FALSE
        BY <1>1
      <3>1. p = i
        BY <2>1, Sizes, KeyHeldOnce
      <3> QED BY <3>1, Sizes
    <2>4. {p \in Used(map) : p < i + 1} = {p \in Used(map) : p < i} \union {i}
      BY <1>1, <2>1, Sizes
    <2>5. Yielded' = Yielded \union {k}
      BY <1>1, <2>4 DEF Yielded
    <2>6. Dict!Yield(k)
      BY <1>1, <2>2, <2>3, <2>5 DEF Dict!Yield, Dict!Present, Dict!Pair, Pair
    <2> QED BY <2>2, <2>6 DEF Dict!Next
  <1>4. CASE IterateEnd
    <2> USE <1>4 DEF IterateEnd, Return
    <2>1. Dict!Present \subseteq Yielded
      <3> SUFFICES ASSUME NEW k \in Keys, Contents(map)[k] # NULL PROVE k \in Yielded
        BY DEF Dict!Present
      <3>1. PICK p \in Used(map) : map.buckets[p].key = k
        BY ContentsMiss
      <3>2. p < i
        BY <1>1, Sizes
      <3> QED BY <1>1, <3>1, <3>2
    <2>2. Yielded' = {}
      BY DEF Yielded
    <2>3. Dict!EndIteration
      BY <1>1, <2>1, <2>2
         DEF Dict!EndIteration, Dict!NoRequest, NoRequest, Dict!Request, Request
    <2> QED BY <2>3 DEF Dict!Next
  <1>5. CASE IterateStop
    <2> USE <1>5 DEF IterateStop, Return
    <2>1. Yielded' = {}
      BY DEF Yielded
    <2>2. Dict!StopIteration
      BY <1>1, <2>1 DEF Dict!StopIteration, Dict!NoRequest, NoRequest, Dict!Request, Request
    <2> QED BY <2>2 DEF Dict!Next
  <1> QED BY <1>2, <1>3, <1>4, <1>5 DEF Iterate

\* The hash table implements the dictionary: what the callers of map_set,
\* map_peek and map_next see never depends on hashes, capacities or rehashes.
THEOREM Refinement == Spec => ImplementsDictionary
  <1>1. Init => Dict!Init
    BY InitRefines
  <1>2. IInv /\ [Next]_vars => [Dict!Next]_Dict!vars
    <2> SUFFICES ASSUME IInv, [Next]_vars PROVE [Dict!Next]_Dict!vars
      OBVIOUS
    <2>1. CASE Next
      BY <2>1, CallRefines, RehashRefines, ProbeRefines, PeekRefines, IterateRefines
         DEF Next, Step
    <2>2. CASE UNCHANGED vars
      BY <2>2, ContentsOfEqual DEF vars, Dict!vars, Yielded, Used, InUse, Slots
    <2> QED BY <2>1, <2>2
  <1> QED BY <1>1, <1>2, Invariance, PTL DEF Spec, ImplementsDictionary, Dict!Spec
=============================================================================
