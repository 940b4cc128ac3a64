------------------------------ MODULE HashMap ------------------------------
(***************************************************************************)
(* The open-addressing hash table of src/src/base.h (Map, map_set,         *)
(* map_set_bucket, map_peek, map_iterator, map_next), one step per probe,  *)
(* per bucket copied by the rehash and per bucket the iterator looks at.   *)
(* Capacities are powers of two, so the mask `hash & (capacity-1)` is      *)
(* hash % capacity.  Keys are non-null strings compared by content, values *)
(* are non-null pointers (map_set asserts it).  map_get, which nothing in  *)
(* the repository calls, is left out.                                      *)
(*                                                                         *)
(* A definition that is only a faulty variant of the next one is named for *)
(* its fault; it shows that a property notices that fault.                 *)
(***************************************************************************)
EXTENDS Integers, FiniteSets

CONSTANTS Keys,       \* the strings used as keys
          Vals,       \* the pointers stored
          NULL,       \* the null key and the null value
          Hash,       \* str8_hash of each key
          InitCap     \* DEFAULT_MAP_SIZE

ASSUME ValuesAssumption == NULL \notin Keys /\ NULL \notin Vals
ASSUME HashAssumption == Hash \in [Keys -> Nat]
ASSUME InitCapAssumption == InitCap \in Nat /\ InitCap >= 2 /\ InitCap % 2 = 0

VARIABLES map,      \* the table: buckets, capacity, count
          nm,       \* the larger table map_set fills while it rehashes
          req,      \* the call in progress
          resp,     \* the last result handed to the caller
          pc,       \* which loop the call is in
          index,    \* the bucket that loop looks at
          i         \* the rehash's, or the iterator's, place in map.buckets

vars == <<map, nm, req, resp, pc, index, i>>

Bucket == [key : Keys \union {NULL}, value : Vals \union {NULL}]
EmptyBucket == [key |-> NULL, value |-> NULL]

Request(op, k, v) == [op |-> op, key |-> k, value |-> v]
NoRequest == Request("none", NULL, NULL)
Pair(k, v) == [key |-> k, value |-> v]

\* calloc'ed buckets
NewMap(cap) == [buckets  |-> [j \in 0..(cap - 1) |-> EmptyBucket],
                capacity |-> cap,
                count    |-> 0]

Home(k, cap) == Hash[k] % cap
NextIndex(j, cap) == IF j + 1 >= cap THEN 0 ELSE j + 1

\* map_set_bucket's two ways to end, at the bucket its probing stopped at
UpdateBucket(m, j, k, v) == [buckets  |-> [m.buckets EXCEPT ![j] = Pair(k, v)],
                             capacity |-> m.capacity,
                             count    |-> m.count]
FillBucket(m, j, k, v) == [buckets  |-> [m.buckets EXCEPT ![j] = Pair(k, v)],
                           capacity |-> m.capacity,
                           count    |-> m.count + 1]

\* the condition of map_set's test for growing
MustGrowTooLate(m) == m.count > m.capacity \div 2
MustGrowNever(m) == m.count > m.capacity
MustGrow(m) == m.count >= m.capacity \div 2

\* The call ends and its locals with it.
Return == /\ req' = NoRequest
          /\ pc' = "idle"
          /\ index' = 0
          /\ i' = 0

Init == /\ map = NewMap(InitCap)
        /\ nm = NewMap(InitCap)
        /\ req = NoRequest
        /\ resp = NULL
        /\ pc = "idle"
        /\ index = 0
        /\ i = 0

-----------------------------------------------------------------------------
(* map_set *)

CallSet(k, v) ==
    /\ pc = "idle"
    /\ req' = Request("set", k, v)
    /\ IF MustGrow(map)
         THEN /\ nm' = NewMap(2 * map.capacity)
              /\ i' = 0
              /\ pc' = "rehash"
              /\ UNCHANGED index
         ELSE /\ index' = Home(k, map.capacity)
              /\ pc' = "probe"
              /\ UNCHANGED <<nm, i>>
    /\ resp' = NULL
    /\ UNCHANGED map

\* for each bucket of the old table: skip it if it has no key ...
RehashSkip ==
    /\ pc = "rehash"
    /\ i < map.capacity
    /\ map.buckets[i].key = NULL
    /\ i' = i + 1
    /\ UNCHANGED <<map, nm, req, resp, pc, index>>

\* ... or call map_set_bucket(&nm, key, value),
RehashPlaceOldMask ==
    /\ pc = "rehash"
    /\ i < map.capacity
    /\ map.buckets[i].key # NULL
    /\ index' = Home(map.buckets[i].key, map.capacity)
    /\ pc' = "place"
    /\ UNCHANGED <<map, nm, req, resp, i>>

RehashPlace ==
    /\ pc = "rehash"
    /\ i < map.capacity
    /\ map.buckets[i].key # NULL
    /\ index' = Home(map.buckets[i].key, nm.capacity)
    /\ pc' = "place"
    /\ UNCHANGED <<map, nm, req, resp, i>>

\* whose loop passes buckets in use by other keys
PlaceAdvance ==
    /\ pc = "place"
    /\ nm.buckets[index].value # NULL
    /\ nm.buckets[index].key # map.buckets[i].key
    /\ index' = NextIndex(index, nm.capacity)
    /\ UNCHANGED <<map, nm, req, resp, pc, i>>

\* until one is free.  (Its branch for a key that is already in the new
\* table cannot be reached: a table holds a key once.)
PlaceFill ==
    /\ pc = "place"
    /\ nm.buckets[index].value = NULL
    /\ nm' = FillBucket(nm, index, map.buckets[i].key, map.buckets[i].value)
    /\ i' = i + 1
    /\ pc' = "rehash"
    /\ UNCHANGED <<map, req, resp, index>>

\* The new buckets replace the old ones; the count is kept.
RehashDone ==
    /\ pc = "rehash"
    /\ i >= map.capacity
    /\ map' = [buckets  |-> nm.buckets,
               capacity |-> nm.capacity,
               count    |-> map.count]
    /\ index' = Home(req.key, nm.capacity)
    /\ pc' = "probe"
    /\ nm' = NewMap(InitCap)
    /\ i' = 0
    /\ UNCHANGED <<req, resp>>

ProbeAdvance ==
    /\ pc = "probe"
    /\ map.buckets[index].value # NULL
    /\ map.buckets[index].key # req.key
    /\ index' = NextIndex(index, map.capacity)
    /\ UNCHANGED <<map, nm, req, resp, pc, i>>

ProbeUpdate ==
    /\ pc = "probe"
    /\ map.buckets[index].value # NULL
    /\ map.buckets[index].key = req.key
    /\ map' = UpdateBucket(map, index, req.key, req.value)
    /\ Return
    /\ UNCHANGED <<nm, resp>>

ProbeFill ==
    /\ pc = "probe"
    /\ map.buckets[index].value = NULL
    /\ map' = FillBucket(map, index, req.key, req.value)
    /\ Return
    /\ UNCHANGED <<nm, resp>>

-----------------------------------------------------------------------------
(* map_peek *)

CallPeek(k) ==
    /\ pc = "idle"
    /\ req' = Request("peek", k, NULL)
    /\ index' = Home(k, map.capacity)
    /\ pc' = "peek"
    /\ resp' = NULL
    /\ UNCHANGED <<map, nm, i>>

PeekAdvance ==
    /\ pc = "peek"
    /\ map.buckets[index].key # NULL
    /\ map.buckets[index].key # req.key
    /\ index' = NextIndex(index, map.capacity)
    /\ UNCHANGED <<map, nm, req, resp, pc, i>>

PeekHit ==
    /\ pc = "peek"
    /\ map.buckets[index].key = req.key
    /\ resp' = Pair(req.key, map.buckets[index].value)
    /\ Return
    /\ UNCHANGED <<map, nm>>

PeekMiss ==
    /\ pc = "peek"
    /\ map.buckets[index].key = NULL
    /\ resp' = Pair(req.key, NULL)
    /\ Return
    /\ UNCHANGED <<map, nm>>

-----------------------------------------------------------------------------
(* map_iterator and map_next *)

CallIterate ==
    /\ pc = "idle"
    /\ req' = Request("iterate", NULL, NULL)
    /\ i' = 0
    /\ pc' = "iterate"
    /\ resp' = NULL
    /\ UNCHANGED <<map, nm, index>>

IterateSkip ==
    /\ pc = "iterate"
    /\ i < map.capacity
    /\ map.buckets[i].value = NULL
    /\ i' = i + 1
    /\ UNCHANGED <<map, nm, req, resp, pc, index>>

IterateYield ==
    /\ pc = "iterate"
    /\ i < map.capacity
    /\ map.buckets[i].value # NULL
    /\ resp' = map.buckets[i]
    /\ i' = i + 1
    /\ UNCHANGED <<map, nm, req, pc, index>>

IterateEndEarly ==
    /\ pc = "iterate"
    /\ i >= map.capacity - 1
    /\ resp' = NULL
    /\ Return
    /\ UNCHANGED <<map, nm>>

IterateEnd ==
    /\ pc = "iterate"
    /\ i >= map.capacity
    /\ resp' = NULL
    /\ Return
    /\ UNCHANGED <<map, nm>>

\* symbol_gen leaves its loop at the symbol it was looking for
IterateStop ==
    /\ pc = "iterate"
    /\ Return
    /\ UNCHANGED <<map, nm, resp>>

-----------------------------------------------------------------------------

Call == \/ \E k \in Keys, v \in Vals : CallSet(k, v)
        \/ \E k \in Keys : CallPeek(k)
        \/ CallIterate

Rehash == RehashSkip \/ RehashPlace \/ PlaceAdvance \/ PlaceFill \/ RehashDone
Probe == ProbeAdvance \/ ProbeUpdate \/ ProbeFill
Peek == PeekAdvance \/ PeekHit \/ PeekMiss
Iterate == IterateSkip \/ IterateYield \/ IterateEnd \/ IterateStop

Step == Rehash \/ Probe \/ Peek \/ Iterate

Next == Call \/ Step

Spec == Init /\ [][Next]_vars

\* The compiler is one thread: a call that has begun keeps running.
FairSpec == Spec /\ WF_vars(Step)

-----------------------------------------------------------------------------
(* Properties *)

\* Every variable has the shape its declaration gives it.
TypeOK ==
    /\ map.buckets \in [0..(map.capacity - 1) -> Bucket]
    /\ nm.buckets \in [0..(nm.capacity - 1) -> Bucket]
    /\ map.capacity \in Nat /\ nm.capacity \in Nat
    /\ map.count \in Nat /\ nm.count \in Nat
    /\ req \in {NoRequest} \union {Request("set", k, v) : k \in Keys, v \in Vals}
         \union {Request("peek", k, NULL) : k \in Keys}
         \union {Request("iterate", NULL, NULL)}
    /\ resp \in Bucket \union {NULL}
    /\ pc \in {"idle", "rehash", "place", "probe", "peek", "iterate"}
    /\ index \in Nat /\ i \in Nat

Slots(m) == 0..(m.capacity - 1)
InUse(m, j) == m.buckets[j].value # NULL
Used(m) == {j \in Slots(m) : InUse(m, j)}

\* How many probes lead from bucket h to bucket j
Dist(h, j, cap) == IF j >= h THEN j - h ELSE (j + cap) - h

\* Probing for a key that is stored never meets a free bucket, nor another
\* bucket with that key, before the one that holds it.
Reachable(m) ==
    \A j \in Used(m) :
        LET k == m.buckets[j].key
            h == Home(k, m.capacity)
        IN  \A p \in Slots(m) : Dist(h, p, m.capacity) < Dist(h, j, m.capacity)
              => InUse(m, p) /\ m.buckets[p].key # k

\* map_set and its rehash keep every stored key reachable from its home
\* bucket, across collisions and the wrap at the end of the array.
EveryKeyReachable == Reachable(map) /\ Reachable(nm)

\* map_set grows the table before it is more than half full, so that a
\* free bucket always ends a probe (comment above map_set's test).
AtMostHalfUsed ==
    /\ map.count = Cardinality(Used(map))
    /\ 2 * map.count <= map.capacity

\* The table stays linear in the number of keys, although map_set also
\* grows it when it only updates.
CapacityBounded == map.capacity <= InitCap \/ map.capacity <= 4 * map.count

-----------------------------------------------------------------------------
(* Refinement *)

\* The contents of the table as a function of the key
Holds(m, k, j) == j \in Slots(m) /\ InUse(m, j) /\ m.buckets[j].key = k
Contents(m) ==
    [k \in Keys |-> IF \E j \in Slots(m) : Holds(m, k, j)
                      THEN m.buckets[CHOOSE j \in Slots(m) : Holds(m, k, j)].value
                      ELSE NULL]

Yielded == IF pc = "iterate" THEN {map.buckets[j].key : j \in {p \in Used(map) : p < i}}
                             ELSE {}

Dict == INSTANCE Dictionary WITH dict <- Contents(map), yielded <- Yielded

\* The table is a dictionary: a rehash changes nothing a caller can see, a
\* peek returns the last value set, and an iteration yields each key once.
ImplementsDictionary == Dict!Spec

\* Every call returns: no probe of map_set or map_peek goes round forever.
CallsReturn == pc # "idle" ~> pc = "idle"
=============================================================================
