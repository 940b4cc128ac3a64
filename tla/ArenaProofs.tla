---------------------------- MODULE ArenaProofs ----------------------------
(***************************************************************************)
(* Proofs about the memory pool (module Arena) and the lists that grow in  *)
(* it (module Lists), for any size of the arenas and any claims.           *)
(***************************************************************************)
EXTENDS Lists, TLAPS

-----------------------------------------------------------------------------
(* The inductive invariants *)

\* A block ends where its arena's offset is, if it is the last one, and before
\* the last one otherwise.
Placed(b) ==
    /\ blocks[b].arena <= Len(arenas)
    /\ \/ ~InPool(b)
       \/ /\ blocks[b].at = arenas[blocks[b].arena].prev
          /\ After(b) = arenas[blocks[b].arena].curr
       \/ After(b) <= arenas[blocks[b].arena].prev

IInv == /\ TypeOK
        /\ \A a \in 1..Len(arenas) : arenas[a].prev <= arenas[a].curr
        /\ \A b \in 1..Len(blocks) : Placed(b)
        /\ \A b \in 1..Len(blocks) :
             InPool(b) /\ After(b) > PoolSize => blocks[b].at = arenas[blocks[b].arena].prev
        /\ BlocksApart

\* A vector in the heap's memory has the room it began with.
VecHeld ==
    LET vec == lists[Vec]
    IN  /\ vec.block # NULL => vec.room >= DefaultVecSize
        /\ debug => IF vec.block = NULL
                      THEN vec.room = 0
                      ELSE blocks[vec.block].arena = Heap /\ vec.room = DefaultVecSize

\* The lists keep their types, and a vector its first room; the pool's own
\* invariant holds whatever sizes they claim.
ListsIInv == IInv /\ ListsTypeOK /\ VecHeld

\* What makes KeptWhileSmall inductive: a list has the memory that its room asks for, and
\* a list of literals room for two at least; no two lists have the same memory;
\* and memory begins at an aligned place, so that the next block leaves room for
\* two locations however few bytes were asked for.
Sized(l) ==
    LET list == lists[l]
    IN  /\ list.block = NULL <=> list.room = 0
        /\ list.block # NULL =>
             /\ blocks[list.block].size = Bytes(l, list.room)
             /\ blocks[list.block].arena = Heap => l = Vec
             /\ l = DataVars => list.room >= Elem(l) * 2
OwnMemory ==
    \A l, m \in Names : lists[l].block = lists[m].block /\ lists[l].block # NULL => l = m
PlacesAligned == \A b \in 1..Len(blocks) : blocks[b].at % DefaultAlignment = 0
KeptIInv == /\ ListsIInv /\ kept \in [Names -> SUBSET Nat]
            /\ PlacesAligned /\ OwnMemory
            /\ \A l \in Names : Sized(l)
            /\ KeptWhileSmall

-----------------------------------------------------------------------------
USE DEF NULL, Heap, DefaultAlignment

-----------------------------------------------------------------------------
(* The pool *)

\* No block is forgotten or leaves its arena.
Grown == /\ Len(blocks) <= Len(blocks')
         /\ \A b \in 1..Len(blocks) : blocks'[b].arena = blocks[b].arena

\* Aligning an offset moves it forward (align_forward).
LEMMA AlignedForward ==
    ASSUME NEW p \in Nat PROVE AlignForward(p) \in Nat /\ AlignForward(p) >= p
  BY DEF AlignForward

\* A new arena is an arena, and empty.
LEMMA NewArenaType == NewArena \in Arena /\ NewArena.prev = NewArena.curr
  BY PoolAssumption DEF NewArena, Arena

\* What memory is handed out from: the pool's arenas, or these and a new one.
Extended(list) == list = arenas \/ list = Append(arenas, NewArena)

\* Arenas that memory can be handed out from.
LEMMA ExtendedType ==
    ASSUME IInv, NEW list, Extended(list)
    PROVE  /\ list \in Seq(Arena) /\ list # <<>> /\ Len(list) \in Nat \ {0}
           /\ Len(arenas) <= Len(list)
           /\ \A a \in 1..Len(arenas) : list[a] = arenas[a]
           /\ \A a \in 1..Len(list) : list[a] \in Arena /\ list[a].prev <= list[a].curr
           /\ \A b \in 1..Len(blocks) :
                blocks[b].arena = Len(list) => blocks[b].at + blocks[b].size <= list[Len(list)].curr
  <1>1. arenas \in Seq(Arena) /\ arenas # <<>> /\ Len(arenas) \in Nat \ {0}
    BY DEF IInv, TypeOK
  <1>2. \A a \in 1..Len(arenas) : arenas[a] \in Arena /\ arenas[a].prev <= arenas[a].curr
    BY <1>1 DEF IInv
  <1>3. \A b \in 1..Len(blocks) : blocks[b] \in Block /\ blocks[b].arena <= Len(arenas)
    BY DEF IInv, TypeOK, Placed
  <1>4. CASE list = arenas
    <2>1. ASSUME NEW b \in 1..Len(blocks), blocks[b].arena = Len(arenas)
          PROVE  blocks[b].at + blocks[b].size <= arenas[Len(arenas)].curr
      <3>1. Placed(b) /\ blocks[b] \in Block
        BY <1>3 DEF IInv
      <3>2. arenas[Len(arenas)] \in Arena /\ arenas[Len(arenas)].prev <= arenas[Len(arenas)].curr
        BY <1>1, <1>2
      <3>. QED BY <1>1, <2>1, <3>1, <3>2 DEF Placed, InPool, After, Block, Arena
    <2>. QED BY <1>1, <1>2, <1>4, <2>1
  <1>5. CASE list = Append(arenas, NewArena)
    <2>1. /\ list \in Seq(Arena) /\ list # <<>> /\ Len(list) = Len(arenas) + 1
          /\ list[Len(arenas) + 1] = NewArena
          /\ \A a \in 1..Len(arenas) : list[a] = arenas[a]
      BY <1>1, <1>5, NewArenaType
    <2>2. \A a \in 1..Len(list) : list[a] \in Arena /\ list[a].prev <= list[a].curr
      <3>1. NewArena.prev <= NewArena.curr
        BY NewArenaType DEF Arena
      <3>. QED BY <1>1, <1>2, <2>1, <3>1, NewArenaType
    <2>3. \A b \in 1..Len(blocks) : blocks[b].arena # Len(list)
      BY <1>1, <1>3, <2>1 DEF Block
    <2>. QED BY <1>1, <2>1, <2>2, <2>3
  <1>. QED BY <1>4, <1>5 DEF Extended

\* Memory that is handed out is behind all that was handed out in its arena.
LEMMA GiveKeeps ==
    ASSUME IInv, NEW list, Extended(list), NEW size \in Nat \ {0}, Give(list, size),
           debug' = debug, copied' \in Nat, ended' \in {"no", "assert", "crash"}
    PROVE  IInv' /\ Grown
  <1>1. /\ list \in Seq(Arena) /\ list # <<>> /\ Len(list) \in Nat \ {0}
        /\ Len(arenas) <= Len(list)
        /\ \A a \in 1..Len(arenas) : list[a] = arenas[a]
        /\ \A a \in 1..Len(list) : list[a] \in Arena /\ list[a].prev <= list[a].curr
        /\ \A b \in 1..Len(blocks) :
             blocks[b].arena = Len(list) => blocks[b].at + blocks[b].size <= list[Len(list)].curr
    BY ExtendedType
  <1>2. /\ blocks \in Seq(Block) /\ Len(blocks) \in Nat
        /\ \A b \in 1..Len(blocks) : blocks[b] \in Block /\ Placed(b)
        /\ Len(arenas) \in Nat /\ debug \in BOOLEAN
    BY DEF IInv, TypeOK
  <1>3. CASE ~HasRoom(list, size)
    <2>1. /\ arenas' = list /\ blocks' = blocks /\ result' = 0 /\ cleared' = Nothing
      BY <1>3 DEF Give
    <2>2. TypeOK'
      BY <1>1, <1>2, <2>1 DEF TypeOK, Nothing, Stretch
    <2>3. ASSUME NEW b \in 1..Len(blocks)
          PROVE  Placed(b)' /\ (InPool(b) => list[blocks[b].arena] = arenas[blocks[b].arena])
      <3>1. blocks[b] \in Block /\ Placed(b)
        BY <1>2
      <3>2. blocks[b].arena \in 0..Len(arenas)
        BY <1>2, <3>1 DEF Placed, Block
      <3>3. InPool(b) => list[blocks[b].arena] = arenas[blocks[b].arena]
        BY <1>1, <3>2 DEF InPool
      <3>. QED BY <1>1, <1>2, <2>1, <3>1, <3>2, <3>3 DEF Placed, InPool, After
    <2>4. BlocksApart'
      BY <2>1 DEF IInv, BlocksApart, Apart, InPool, After
    <2>5. \A b \in 1..Len(blocks) :
            (InPool(b) /\ After(b) > PoolSize => blocks[b].at = arenas[blocks[b].arena].prev)'
      BY <2>1, <2>3 DEF IInv, InPool, After
    <2>6. Grown
      BY <1>2, <2>1 DEF Grown
    <2>. QED BY <1>1, <1>2, <2>1, <2>2, <2>3, <2>4, <2>5, <2>6 DEF IInv
  <1>4. CASE HasRoom(list, size)
    <2> DEFINE at == Place(list)
               last == Len(list)
               new == [arena |-> last, at |-> at, size |-> size]
    <2>1. /\ at \in Nat /\ at >= list[last].curr /\ at + size <= PoolSize
      BY <1>1, <1>4, AlignedForward DEF Place, HasRoom, Arena
    <2>2. /\ arenas' = [list EXCEPT ![last] = [prev |-> at, curr |-> at + size]]
          /\ blocks' = Append(blocks, new)
          /\ result' = Len(blocks) + 1
          /\ cleared' = new
      BY <1>4 DEF Give, Taken
    <2>3. /\ arenas' \in Seq(Arena) /\ arenas' # <<>> /\ Len(arenas') = last
          /\ arenas'[last] = [prev |-> at, curr |-> at + size]
          /\ \A a \in 1..(last - 1) : arenas'[a] = list[a]
      BY <1>1, <2>1, <2>2 DEF Arena
    <2>4. /\ new \in Block /\ blocks' \in Seq(Block) /\ Len(blocks') = Len(blocks) + 1
          /\ blocks'[Len(blocks) + 1] = new
          /\ \A b \in 1..Len(blocks) : blocks'[b] = blocks[b]
      BY <1>1, <1>2, <2>1, <2>2 DEF Block
    <2> HIDE DEF at, last
    <2>5. TypeOK'
      BY <1>1, <1>2, <2>1, <2>2, <2>3, <2>4 DEF TypeOK, Stretch, Block
    <2>6. \A a \in 1..Len(arenas') : arenas'[a].prev <= arenas'[a].curr
      BY <1>1, <2>1, <2>3 DEF last
    <2>7. ASSUME NEW b \in 1..Len(blocks)
          PROVE  /\ Placed(b)'
                 /\ (InPool(b) /\ After(b) > PoolSize => blocks[b].at = arenas[blocks[b].arena].prev)'
                 /\ blocks[b].arena = last => After(b) <= at
      <3>0. blocks[b] \in Block /\ Placed(b) /\ blocks'[b] = blocks[b]
        BY <1>2, <2>4
      <3>1. /\ blocks[b] \in Block /\ Placed(b) /\ blocks'[b] = blocks[b]
            /\ blocks[b].arena \in 0..Len(arenas)
        BY <1>2, <3>0 DEF Placed, Block
      <3>2. CASE blocks[b].arena = last
        <4>1. After(b) <= at
          BY <1>1, <2>1, <3>1, <3>2 DEF After, last, Arena, Block
        <4>2. After(b)' = After(b) /\ After(b) \in Nat
          BY <3>1 DEF After, Block
        <4>3. arenas'[blocks'[b].arena].prev = at
          BY <2>3, <3>1, <3>2
        <4>. QED BY <1>1, <2>1, <2>3, <3>1, <3>2, <4>1, <4>2, <4>3, PoolAssumption DEF Placed, last
      <3>3. CASE blocks[b].arena # last
        <4>1. blocks[b].arena # 0 => arenas'[blocks[b].arena] = arenas[blocks[b].arena]
          BY <1>1, <1>2, <2>3, <3>1, <3>3 DEF last
        <4>2. /\ After(b)' = After(b)
              /\ InPool(b) /\ After(b) > PoolSize => blocks[b].at = arenas[blocks[b].arena].prev
          BY <3>1 DEF After, IInv
        <4>. QED BY <1>1, <2>3, <3>1, <3>3, <4>1, <4>2 DEF Placed, InPool, last
      <3>. QED BY <3>2, <3>3
    <2>8. ASSUME NEW b \in Nat, b = Len(blocks) + 1
          PROVE  /\ Placed(b)'
                 /\ (InPool(b) /\ After(b) > PoolSize => blocks[b].at = arenas[blocks[b].arena].prev)'
      <3>1. blocks'[b].at = at /\ After(b)' = at + size
        BY <2>4, <2>8 DEF After
      <3>2. /\ blocks'[b].arena = last /\ last \in 1..Len(arenas')
            /\ arenas'[last].prev = at /\ arenas'[last].curr = at + size
        BY <1>1, <2>3, <2>4, <2>8 DEF last
      <3>. QED BY <1>1, <2>3, <3>1, <3>2 DEF Placed, InPool
    <2>9. BlocksApart'
      <3> SUFFICES ASSUME NEW b \in 1..(Len(blocks) + 1), NEW c \in 1..(Len(blocks) + 1),
                          b # c, InPool(b)'
                   PROVE  Apart(b, c)'
        BY <2>4 DEF BlocksApart
      <3>1. CASE b \in 1..Len(blocks) /\ c \in 1..Len(blocks)
        BY <2>4, <3>1 DEF IInv, BlocksApart, InPool, Apart, After
      <3>2. CASE b \in 1..Len(blocks) /\ c = Len(blocks) + 1
        BY <2>4, <2>7, <3>2 DEF Apart, After
      <3>3. CASE b = Len(blocks) + 1 /\ c \in 1..Len(blocks)
        BY <2>4, <2>7, <3>3 DEF Apart, After
      <3>. QED BY <1>2, <3>1, <3>2, <3>3
    <2>10. \A b \in 1..Len(blocks') :
             /\ Placed(b)'
             /\ (InPool(b) /\ After(b) > PoolSize => blocks[b].at = arenas[blocks[b].arena].prev)'
      BY <1>2, <2>4, <2>7, <2>8
    <2>11. Grown
      BY <1>2, <2>4 DEF Grown
    <2>. QED BY <2>5, <2>6, <2>9, <2>10, <2>11 DEF IInv
  <1>. QED BY <1>3, <1>4

\* What grows where it is has nothing of its arena behind it.
LEMMA InPlaceKeeps ==
    ASSUME IInv, NEW b \in 1..Len(blocks), NEW old \in Nat, NEW new \in Nat \ {0},
           ResizeInPlace(b, old, new), debug' = debug
    PROVE  IInv' /\ Grown
  <1> DEFINE last == Len(arenas)
             at == blocks[b].at
  <1>1. /\ arenas \in Seq(Arena) /\ last \in Nat \ {0} /\ last \in 1..Len(arenas)
        /\ blocks \in Seq(Block) /\ Len(blocks) \in Nat
        /\ debug \in BOOLEAN /\ ended \in {"no", "assert", "crash"}
    BY DEF IInv, TypeOK
  <1>2. \A c \in 1..Len(blocks) :
          blocks[c] \in Block /\ Placed(c) /\ blocks[c].arena \in 0..last
    <2>1. \A c \in 1..Len(blocks) : blocks[c] \in Block /\ Placed(c)
      BY <1>1 DEF IInv
    <2>2. ASSUME NEW c \in 1..Len(blocks) PROVE blocks[c].arena \in 0..last
      <3>1. blocks[c].arena \in Nat /\ blocks[c].arena <= last
        BY <2>1 DEF Placed, Block
      <3>. QED BY <1>1, <3>1
    <2>. QED BY <2>1, <2>2
  <1>3. /\ blocks[b].arena = last /\ at = arenas[last].prev /\ at \in Nat
        /\ blocks[b].size \in Nat \ {0}
    BY <1>2 DEF ResizeInPlace, HandedOutLast, InLastArena, Block
  <1>4. /\ arenas' = [arenas EXCEPT ![last].curr = at + new]
        /\ blocks' = [blocks EXCEPT ![b].size = new]
        /\ result' = b /\ copied' = new /\ ended' = ended
        /\ cleared' \in {[arena |-> last, at |-> at + new, size |-> new - old], Nothing}
        /\ cleared' # Nothing => new > old
    BY DEF ResizeInPlace
  <1>5. /\ arenas' \in Seq(Arena) /\ Len(arenas') = last
        /\ arenas'[last].prev = at /\ arenas'[last].curr = at + new
        /\ \A a \in 1..Len(arenas) : a # last => arenas'[a] = arenas[a]
    <2>1. arenas[last] \in Arena
      BY <1>1
    <2>2. [arenas[last] EXCEPT !.curr = at + new] = [prev |-> at, curr |-> at + new]
      BY <1>3, <2>1 DEF Arena
    <2>3. [prev |-> at, curr |-> at + new] \in Arena
      BY <1>3 DEF Arena
    <2>4. arenas' = [arenas EXCEPT ![last] = [prev |-> at, curr |-> at + new]]
      BY <1>4, <2>2
    <2>. HIDE DEF at
    <2>. QED BY <1>1, <2>3, <2>4
  <1>6. /\ blocks' \in Seq(Block) /\ Len(blocks') = Len(blocks)
        /\ blocks'[b].arena = last /\ blocks'[b].at = at /\ blocks'[b].size = new
        /\ \A c \in 1..Len(blocks) : c # b => blocks'[c] = blocks[c]
    <2>1. [blocks[b] EXCEPT !.size = new] = [arena |-> last, at |-> at, size |-> new]
      BY <1>2, <1>3 DEF Block
    <2>2. [arena |-> last, at |-> at, size |-> new] \in Block
      BY <1>1, <1>3 DEF Block
    <2>3. blocks' = [blocks EXCEPT ![b] = [arena |-> last, at |-> at, size |-> new]]
      BY <1>4, <2>1
    <2>. HIDE DEF at, last
    <2>. QED BY <1>1, <2>2, <2>3
  <1>7. cleared' \in Stretch
    BY <1>1, <1>3, <1>4 DEF Stretch, Nothing
  <1> HIDE DEF last, at
  <1>8. TypeOK'
    <2>1. arenas' # <<>>
      BY <1>1, <1>5
    <2>. QED BY <1>1, <1>4, <1>5, <1>6, <1>7, <2>1 DEF TypeOK
  <1>9. \A a \in 1..Len(arenas') : arenas'[a].prev <= arenas'[a].curr
    BY <1>1, <1>3, <1>5 DEF IInv, last
  <1>10. ASSUME NEW c \in 1..Len(blocks), c # b, blocks[c].arena = last
         PROVE  After(c) <= at
    <2>1. blocks[c] \in Block /\ Placed(c) /\ Apart(b, c)
      BY <1>1, <1>2, <1>3, <1>10 DEF IInv, BlocksApart, InPool
    <2>2. blocks[c].at \in Nat /\ blocks[c].size \in Nat \ {0}
      BY <2>1 DEF Block
    <2>3. InPool(c) /\ blocks[b].arena = blocks[c].arena /\ blocks[b].at = at
      BY <1>1, <1>3, <1>10 DEF InPool, at
    <2>4. CASE After(c) <= arenas[last].prev
      BY <1>3, <2>4
    <2>5. CASE blocks[c].at = arenas[last].prev
      <3>1. blocks[c].at = at
        BY <1>3, <2>5
      <3>2. After(b) = at + blocks[b].size
        BY <2>3 DEF After
      <3>. HIDE DEF at
      <3>4. ~(After(b) <= blocks[c].at)
        BY <1>3, <3>1, <3>2
      <3>3. ~(After(c) <= blocks[b].at)
        <4>1. After(c) = at + blocks[c].size
          BY <3>1 DEF After
        <4>2. at \in Nat /\ blocks[c].size \in Nat \ {0} /\ blocks[b].at = at
          BY <1>3, <2>2, <2>3
        <4>. QED BY <4>1, <4>2
      <3>. QED BY <2>1, <2>3, <3>3, <3>4 DEF Apart
    <2>. QED BY <1>3, <1>10, <2>1, <2>3, <2>4, <2>5 DEF Placed
  <1>11. ASSUME NEW c \in 1..Len(blocks')
         PROVE  /\ Placed(c)'
                /\ (InPool(c) /\ After(c) > PoolSize => blocks[c].at = arenas[blocks[c].arena].prev)'
    <2>1. CASE c = b
      BY <1>1, <1>3, <1>5, <1>6, <2>1 DEF Placed, InPool, After
    <2>2. CASE c # b /\ blocks[c].arena = last
      <3>1. After(c) <= at /\ After(c)' = After(c) /\ blocks'[c] = blocks[c]
        BY <1>6, <1>10, <2>2 DEF After
      <3>2. (After(c) > PoolSize => blocks[c].at = arenas[blocks[c].arena].prev)
        BY <1>1, <1>6, <2>2 DEF IInv, InPool
      <3>. QED BY <1>1, <1>3, <1>5, <1>6, <2>2, <3>1, <3>2 DEF Placed, InPool
    <2>3. CASE c # b /\ blocks[c].arena # last
      <3>1. blocks'[c] = blocks[c] /\ After(c)' = After(c) /\ blocks[c].arena \in 0..last
        BY <1>2, <1>6, <2>3 DEF After
      <3>2. blocks[c].arena # 0 => arenas'[blocks[c].arena] = arenas[blocks[c].arena]
        BY <1>1, <1>5, <2>3, <3>1 DEF last
      <3>3. /\ Placed(c)
            /\ InPool(c) /\ After(c) > PoolSize => blocks[c].at = arenas[blocks[c].arena].prev
        BY <1>2, <1>6 DEF IInv
      <3>. QED BY <1>1, <1>5, <3>1, <3>2, <3>3 DEF Placed, InPool, last
    <2>. QED BY <2>1, <2>2, <2>3
  <1>12. BlocksApart'
    <2> SUFFICES ASSUME NEW c \in 1..Len(blocks), NEW d \in 1..Len(blocks), c # d, InPool(c)'
                 PROVE  Apart(c, d)'
      BY <1>6 DEF BlocksApart
    <2>1. CASE c # b /\ d # b
      BY <1>6, <2>1 DEF IInv, BlocksApart, InPool, Apart, After
    <2>2. CASE c = b
      BY <1>6, <1>10, <2>2 DEF Apart, After
    <2>3. CASE d = b
      BY <1>6, <1>10, <2>3 DEF Apart, After
    <2>. QED BY <2>1, <2>2, <2>3
  <1>13. Grown
    BY <1>1, <1>3, <1>6 DEF Grown
  <1>. QED BY <1>8, <1>9, <1>11, <1>12, <1>13 DEF IInv

\* What a call that ends the program leaves.
LEMMA EndKeeps ==
    ASSUME IInv, NEW how \in {"assert", "crash"}, End(how), debug' = debug
    PROVE  IInv' /\ Grown
  BY DEF Grown, End, IInv, TypeOK, Placed, InPool, After, BlocksApart, Apart

\* A block that is not the last one is moved, if there is room for it.
LEMMA ByCopyKeeps ==
    ASSUME IInv, NEW b \in 1..Len(blocks), NEW old \in Nat, NEW new \in Nat \ {0},
           ResizeByCopy(b, old, new), debug' = debug
    PROVE  IInv' /\ Grown
  <1>1. CASE HasRoom(arenas, new)
    <2>1. Give(arenas, new) /\ copied' \in Nat /\ ended' = ended
      BY <1>1 DEF ResizeByCopy
    <2>2. ended \in {"no", "assert", "crash"} /\ Extended(arenas)
      BY DEF IInv, TypeOK, Extended
    <2>. QED BY <2>1, <2>2, GiveKeeps
  <1>2. CASE ~HasRoom(arenas, new)
    <2>1. End("crash")
      BY <1>2 DEF ResizeByCopy
    <2>. QED BY <2>1, EndKeeps
  <1>. QED BY <1>1, <1>2

\* A block of an earlier arena, or of none, is copied into a new one, if at all.
LEMMA OutsideKeeps ==
    ASSUME IInv, NEW b \in 1..Len(blocks), NEW old \in Nat, NEW new \in Nat \ {0},
           ResizeOutside(b, old, new), debug' = debug
    PROVE  IInv' /\ Grown
  <1>1. \/ \E how \in {"assert", "crash"} : End(how)
        \/ Give(Append(arenas, NewArena), new) /\ copied' = old /\ ended' = ended
    BY DEF ResizeOutside
  <1>2. CASE \E how \in {"assert", "crash"} : End(how)
    BY <1>2, EndKeeps
  <1>3. CASE Give(Append(arenas, NewArena), new) /\ copied' = old /\ ended' = ended
    <2>1. ended \in {"no", "assert", "crash"} /\ Extended(Append(arenas, NewArena))
      BY DEF IInv, TypeOK, Extended
    <2>. QED BY <1>3, <2>1, GiveKeeps
  <1>. QED BY <1>1, <1>2, <1>3

\* pool_alloc: from the last arena, or from a new one.
LEMMA AllocKeeps ==
    ASSUME IInv, NEW size \in Nat \ {0}, Alloc(size)
    PROVE  IInv' /\ Grown
  <1>1. /\ debug' = debug /\ copied' = 0 /\ ended' = ended
        /\ \/ Give(arenas, size)
           \/ Give(Append(arenas, NewArena), size)
    BY DEF Alloc, Running, Obtain
  <1>2. /\ ended \in {"no", "assert", "crash"}
        /\ Extended(arenas) /\ Extended(Append(arenas, NewArena))
    BY DEF IInv, TypeOK, Extended
  <1>. QED BY <1>1, <1>2, GiveKeeps

\* The malloc of vec_init: the pool is left alone.
LEMMA HeapAllocKeeps ==
    ASSUME IInv, NEW size \in Nat \ {0}, HeapAlloc(size)
    PROVE  IInv' /\ Grown
  <1> DEFINE new == [arena |-> 0, at |-> 0, size |-> size]
  <1>1. /\ blocks' = Append(blocks, new) /\ result' = Len(blocks) + 1
        /\ debug' = debug /\ copied' = 0 /\ cleared' = Nothing
        /\ arenas' = arenas /\ ended' = ended
    BY DEF HeapAlloc, Running
  <1>2. blocks \in Seq(Block) /\ Len(blocks) \in Nat /\ new \in Block
    BY DEF IInv, TypeOK, Block
  <1>3. /\ blocks' \in Seq(Block) /\ Len(blocks') = Len(blocks) + 1
        /\ blocks'[Len(blocks) + 1].arena = 0
        /\ \A b \in 1..Len(blocks) : blocks'[b] = blocks[b]
    BY <1>1, <1>2
  <1> HIDE DEF new
  <1>4. TypeOK'
    BY <1>1, <1>2, <1>3 DEF IInv, TypeOK, Nothing, Stretch
  <1>5. ASSUME NEW b \in 1..Len(blocks)
        PROVE  /\ Placed(b)'
               /\ (InPool(b) /\ After(b) > PoolSize => blocks[b].at = arenas[blocks[b].arena].prev)'
    <2>1. blocks'[b] = blocks[b]
      BY <1>3
    <2>. QED BY <1>1, <2>1 DEF IInv, Placed, InPool, After
  <1>6. ASSUME NEW b \in Nat, b = Len(blocks) + 1
        PROVE  ~InPool(b)' /\ Placed(b)'
    <2>1. blocks'[b].arena = 0 /\ 0 <= Len(arenas')
      BY <1>1, <1>3, <1>6 DEF IInv, TypeOK
    <2>. QED BY <2>1 DEF InPool, Placed
  <1>7. BlocksApart'
    <2> SUFFICES ASSUME NEW b \in 1..Len(blocks'), NEW c \in 1..Len(blocks'), b # c, InPool(b)'
                 PROVE  Apart(b, c)'
      BY DEF BlocksApart
    <2>1. b \in 1..Len(blocks)
      BY <1>2, <1>3, <1>6
    <2>2. blocks'[b] = blocks[b] /\ InPool(b)
      BY <1>3, <2>1 DEF InPool
    <2>3. CASE c \in 1..Len(blocks)
      BY <1>3, <2>1, <2>2, <2>3 DEF IInv, BlocksApart, Apart, After
    <2>4. CASE c = Len(blocks) + 1
      BY <1>3, <2>2, <2>4 DEF Apart, InPool
    <2>. QED BY <1>2, <1>3, <2>3, <2>4
  <1>8. \A b \in 1..Len(blocks') :
          /\ Placed(b)'
          /\ (InPool(b) /\ After(b) > PoolSize => blocks[b].at = arenas[blocks[b].arena].prev)'
    BY <1>2, <1>3, <1>5, <1>6
  <1>9. \A a \in 1..Len(arenas') : arenas'[a].prev <= arenas'[a].curr
    BY <1>1 DEF IInv
  <1>10. Grown
    BY <1>2, <1>3 DEF Grown
  <1>. QED BY <1>4, <1>7, <1>8, <1>9, <1>10 DEF IInv

\* pool_resize, whatever old size its caller claims.
LEMMA ResizeKeeps ==
    ASSUME IInv, NEW b \in 0..Len(blocks), NEW old \in Nat, NEW new \in Nat \ {0},
           Resize(b, old, new)
    PROVE  IInv' /\ Grown
  <1>1. CASE b = 0 \/ old = 0
    <2>1. Alloc(new)
      BY <1>1 DEF Resize
    <2>. QED BY <2>1, AllocKeeps
  <1>2. CASE ~(b = 0 \/ old = 0)
    <2>1. b \in 1..Len(blocks)
      BY <1>2 DEF IInv, TypeOK
    <2>2. /\ debug' = debug
          /\ \/ ResizeInPlace(b, old, new)
             \/ ResizeByCopy(b, old, new)
             \/ ResizeOutside(b, old, new)
      BY <1>2 DEF Resize, Running
    <2>. QED BY <2>1, <2>2, InPlaceKeeps, ByCopyKeeps, OutsideKeeps
  <1>. QED BY <1>1, <1>2

\* At first nothing is handed out.
LEMMA InitHolds == Init => IInv
  <1> SUFFICES ASSUME Init PROVE IInv
    OBVIOUS
  <1>1. /\ arenas = <<NewArena>> /\ NewArena \in Arena /\ NewArena.prev <= NewArena.curr
        /\ blocks = <<>> /\ result = 0 /\ copied = 0 /\ cleared = Nothing /\ ended = "no"
        /\ debug \in BOOLEAN
    BY NewArenaType DEF Init, NewArena, Arena
  <1>2. arenas \in Seq(Arena) /\ arenas # <<>> /\ Len(arenas) = 1 /\ arenas[1] = NewArena
    BY <1>1
  <1>3. Nothing \in Stretch /\ Len(blocks) = 0 /\ blocks \in Seq(Block)
    BY <1>1 DEF Nothing, Stretch
  <1>4. TypeOK
    BY <1>1, <1>2, <1>3 DEF TypeOK
  <1>. QED BY <1>1, <1>2, <1>3, <1>4 DEF IInv, BlocksApart

\* A step of the pool keeps the invariant.
LEMMA StepKeeps == IInv /\ [Next]_arenaVars => IInv'
  <1> SUFFICES ASSUME IInv, [Next]_arenaVars PROVE IInv'
    OBVIOUS
  <1>1. ASSUME NEW size \in Nat \ {0}, Alloc(size) PROVE IInv'
    BY <1>1, AllocKeeps
  <1>2. ASSUME NEW size \in Nat \ {0}, HeapAlloc(size) PROVE IInv'
    BY <1>2, HeapAllocKeeps
  <1>3. ASSUME NEW b \in 0..Len(blocks), NEW old \in Nat, NEW new \in Nat \ {0},
               Resize(b, old, new)
        PROVE  IInv'
    BY <1>3, ResizeKeeps
  <1>4. CASE UNCHANGED arenaVars
    BY <1>4 DEF arenaVars, IInv, TypeOK, Placed, InPool, After, BlocksApart, Apart
  <1>. QED BY <1>1, <1>2, <1>3, <1>4 DEF Next

\* pool_alloc and pool_resize keep the pool's invariant for any arguments: the
\* sizes asked for and the old sizes claimed are arbitrary.
THEOREM Invariance == Spec => []IInv
  <1>. QED BY InitHolds, StepKeeps, PTL DEF Spec

\* So no two blocks of the pool ever have a byte in common.
THEOREM BlocksStayApart == Spec => []BlocksApart
  <1>1. IInv => BlocksApart
    BY DEF IInv
  <1>. QED BY <1>1, Invariance, PTL

\* The invariant says who can reach past the end of an arena.
LEMMA OnlyLastFollows == IInv => OnlyLastOutside
  <1> SUFFICES ASSUME IInv, NEW b \in 1..Len(blocks), InPool(b), After(b) > PoolSize
               PROVE  /\ blocks[b].at = arenas[blocks[b].arena].prev
                      /\ \A c \in 1..Len(blocks) \ {b} :
                           blocks[c].arena = blocks[b].arena => After(c) <= blocks[b].at
    BY DEF OnlyLastOutside
  <1>1. blocks[b].at = arenas[blocks[b].arena].prev
    BY DEF IInv
  <1>2. ASSUME NEW c \in 1..Len(blocks) \ {b}, blocks[c].arena = blocks[b].arena
        PROVE  After(c) <= blocks[b].at
    <2>1. Placed(c) /\ InPool(c) /\ Apart(b, c)
      BY <1>2 DEF IInv, BlocksApart, InPool
    <2>2. /\ blocks[b] \in Block /\ blocks[c] \in Block
          /\ blocks[b].at \in Nat /\ blocks[b].size \in Nat \ {0}
          /\ blocks[c].at \in Nat /\ blocks[c].size \in Nat \ {0}
      <3>1. blocks[b] \in Block /\ blocks[c] \in Block
        BY <1>2 DEF IInv, TypeOK
      <3>. QED BY <3>1 DEF Block
    <2>3. After(b) = blocks[b].at + blocks[b].size
      BY DEF After
    <2>4. CASE After(c) <= arenas[blocks[c].arena].prev
      BY <1>1, <1>2, <2>4
    <2>5. CASE blocks[c].at = arenas[blocks[c].arena].prev
      <3>1. blocks[c].at = blocks[b].at
        BY <1>1, <1>2, <2>5
      <3>2. ~(After(b) <= blocks[c].at)
        BY <2>2, <2>3, <3>1
      <3>. QED BY <1>2, <2>1, <3>2 DEF Apart
    <2>. QED BY <2>1, <2>4, <2>5 DEF Placed
  <1>. QED BY <1>1, <1>2

\* At most the last block of an arena reaches past its end.
THEOREM OnlyLastReachesOutside == Spec => []OnlyLastOutside
  <1>. QED BY OnlyLastFollows, Invariance, PTL

-----------------------------------------------------------------------------
(* The lists *)

\* The sizes that a list gives to pool_resize.
LEMMA SizesAsked ==
    ASSUME ListsIInv, NEW l \in Names, Usable(l)
    PROVE  /\ lists[l].block \in 0..Len(blocks)
           /\ lists[l].room \in Nat /\ NewRoom(l) \in Nat /\ NewRoom(l) >= lists[l].room
           /\ Bytes(l, lists[l].room) \in Nat
           /\ Bytes(l, NewRoom(l)) \in Nat \ {0}
           /\ l = Vec => Bytes(l, lists[l].room) # 0 /\ lists[l].block # 0
  <1>1. lists[l].block \in 0..Len(blocks) /\ lists[l].room \in Nat
    BY DEF ListsIInv, ListsTypeOK
  <1>2. Elem(l) \in {24, 16, 8, 4}
    BY DEF Elem
  <1>3. l = Vec => lists[l].room >= DefaultVecSize /\ DefaultVecSize \in Nat \ {0}
                   /\ lists[l].block # 0
    BY ListsAssumption DEF ListsIInv, VecHeld, Usable
  <1>4. /\ l = Vec => NewRoom(l) = lists[l].room * 2
        /\ l # Vec => \/ NewRoom(l) = 16 * (lists[l].room + 1) * 2
                      \/ NewRoom(l) = (lists[l].room + 1) * 2
    BY DEF NewRoom, Vec, DataVars
  <1>5. NewRoom(l) \in Nat \ {0} /\ NewRoom(l) >= lists[l].room
    BY <1>1, <1>3, <1>4
  <1>6. ASSUME NEW room \in Nat PROVE Bytes(l, room) \in Nat /\ (room # 0 => Bytes(l, room) # 0)
    <2>1. Bytes(l, room) \in {24 * room, 16 * room, 8 * room, 4 * room, room}
      BY <1>2 DEF Bytes
    <2>. QED BY <2>1
  <1>7. l = Vec => lists[l].room # 0
    BY <1>1, <1>3
  <1>. QED BY <1>1, <1>3, <1>5, <1>6, <1>7

\* A list that grows keeps its elements or loses some of them, as others do.
LEMMA GrowKeeps ==
    ASSUME ListsIInv, NEW l \in Names, Grow(l)
    PROVE  ListsIInv' /\ (VectorsBounded => VectorsBounded')
  <1>1. /\ lists[l].block \in 0..Len(blocks) /\ lists[l].room \in Nat
        /\ NewRoom(l) \in Nat /\ NewRoom(l) >= lists[l].room
        /\ Bytes(l, lists[l].room) \in Nat
        /\ Bytes(l, NewRoom(l)) \in Nat \ {0}
        /\ l = Vec => Bytes(l, lists[l].room) # 0 /\ lists[l].block # 0
    BY SizesAsked DEF Grow
  <1>2. Resize(lists[l].block, Bytes(l, lists[l].room), Bytes(l, NewRoom(l)))
    BY DEF Grow
  <1>3. IInv' /\ Grown
    BY <1>1, <1>2, ResizeKeeps DEF ListsIInv
  <1>4. debug' = debug
    BY <1>2 DEF Resize, Alloc, Running
  <1>5. /\ lists \in [Names -> [block : 0..Len(blocks), count : Nat, room : Nat]]
        /\ \A m \in Names : lists[m].count <= lists[m].room /\ kept[m] \subseteq 1..lists[m].count
        /\ growing \in Names \union {None} /\ others \in 0..MaxOthers
        /\ Len(blocks) \in Nat /\ Len(blocks') \in Nat
    <2>1. Len(blocks) \in Nat /\ Len(blocks') \in Nat
      BY <1>3 DEF ListsIInv, IInv, TypeOK
    <2>. QED BY <2>1 DEF ListsIInv, ListsTypeOK
  <1>6. lists[Vec].count = lists'[Vec].count
    BY <1>5 DEF Grow, Names
  <1>7. ListsTypeOK'
    <2>1. CASE UNCHANGED <<lists, kept, growing>> /\ others' = others
      BY <1>3, <1>5, <2>1 DEF ListsTypeOK, Grown
    <2>2. CASE /\ lists' = [lists EXCEPT ![l] = [block |-> result', count |-> @.count,
                                              room |-> NewRoom(l)]]
               /\ \/ kept' = Without(cleared')
                  \/ kept' = [Without(cleared') EXCEPT ![l] = Moved(l)]
               /\ growing' = l /\ others' = others
      <3>1. result' \in 0..Len(blocks')
        BY <1>3 DEF IInv, TypeOK
      <3>2. \A m \in Names : kept'[m] \subseteq kept[m]
        BY <2>2 DEF Without, Moved
      <3>3. lists' = [lists EXCEPT ![l] = [block |-> result', count |-> lists[l].count,
                                           room |-> NewRoom(l)]]
        BY <1>5, <2>2
      <3>4. lists' \in [Names -> [block : 0..Len(blocks'), count : Nat, room : Nat]]
        BY <1>1, <1>3, <1>5, <3>1, <3>3 DEF Grown
      <3>5. ASSUME NEW m \in Names
            PROVE  lists'[m].count = lists[m].count /\ lists'[m].count <= lists'[m].room
        <4>1. CASE m = l
          BY <1>1, <1>5, <3>3, <4>1
        <4>2. CASE m # l
          BY <1>5, <3>3, <4>2
        <4>. QED BY <4>1, <4>2
      <3>6. \A m \in Names : kept'[m] \subseteq 1..lists'[m].count
        BY <1>5, <3>2, <3>5
      <3>. QED BY <1>5, <2>2, <3>4, <3>5, <3>6 DEF ListsTypeOK
    <2>. QED BY <2>1, <2>2 DEF Grow
  <1>8. l = Vec /\ debug => ended' = "assert" /\ lists' = lists
    <2> SUFFICES ASSUME l = Vec, debug PROVE ended' = "assert" /\ lists' = lists
      OBVIOUS
    <2>1. blocks[lists[Vec].block].arena = 0 /\ Len(arenas) # 0
      BY <1>1 DEF ListsIInv, VecHeld, IInv, TypeOK
    <2>2. ~InLastArena(lists[Vec].block)
      BY <2>1 DEF InLastArena
    <2>3. ResizeOutside(lists[Vec].block, Bytes(l, lists[l].room), Bytes(l, NewRoom(l)))
      BY <1>1, <1>2, <2>2 DEF Resize, ResizeInPlace, ResizeByCopy, HandedOutLast
    <2>4. ended' = "assert"
      BY <2>3 DEF ResizeOutside, End
    <2>. QED BY <2>4 DEF Grow
  <1>9. VecHeld'
    <2>1. CASE lists'[Vec] = lists[Vec]
      <3>1. lists[Vec].block # 0 => lists[Vec].block \in 1..Len(blocks)
        BY <1>5 DEF Names
      <3>. QED BY <1>3, <1>4, <2>1, <3>1 DEF ListsIInv, VecHeld, Grown
    <2>2. CASE lists'[Vec] # lists[Vec]
      <3>1. /\ l = Vec /\ ~debug
            /\ lists' = [lists EXCEPT ![l] = [block |-> result', count |-> @.count,
                                              room |-> NewRoom(l)]]
        BY <1>5, <1>8, <2>2 DEF Grow, Names
      <3>2. lists'[Vec].room = NewRoom(Vec)
        BY <1>5, <3>1
      <3>3. lists[Vec].room >= DefaultVecSize /\ DefaultVecSize \in Nat
        BY <1>1, <3>1, ListsAssumption DEF ListsIInv, VecHeld
      <3>4. NewRoom(Vec) >= DefaultVecSize
        BY <1>1, <3>1, <3>3
      <3>. QED BY <1>4, <3>1, <3>2, <3>4 DEF VecHeld
    <2>. QED BY <2>1, <2>2
  <1>. QED BY <1>3, <1>4, <1>6, <1>7, <1>9 DEF ListsIInv, VectorsBounded

\* An element is put where there is room for it.
LEMMA PutKeeps ==
    ASSUME ListsIInv, NEW l \in Names, Put(l)
    PROVE  ListsIInv' /\ (VectorsBounded => VectorsBounded')
  <1>1. /\ debug' = debug /\ arenas' = arenas /\ blocks' = blocks /\ result' = result
        /\ copied' = copied /\ cleared' = cleared /\ ended' = ended /\ others' = others
        /\ growing' = None /\ lists[l].count < lists[l].room
    <2>1. debug' = debug /\ arenas' = arenas /\ blocks' = blocks /\ result' = result
      BY DEF Put, Running
    <2>2. copied' = copied /\ cleared' = cleared /\ ended' = ended /\ others' = others
      BY DEF Put
    <2>3. lists \in [Names -> [block : 0..Len(blocks), count : Nat, room : Nat]]
      BY DEF ListsIInv, ListsTypeOK
    <2>. QED BY <2>1, <2>2, <2>3 DEF Put, Full
  <1>2. IInv'
    BY <1>1 DEF ListsIInv, IInv, TypeOK, Placed, InPool, After, BlocksApart, Apart
  <1>3. /\ lists \in [Names -> [block : 0..Len(blocks), count : Nat, room : Nat]]
        /\ \A m \in Names : lists[m].count <= lists[m].room /\ kept[m] \subseteq 1..lists[m].count
        /\ others \in 0..MaxOthers /\ Vec \in Names
    BY DEF ListsIInv, ListsTypeOK, Names
  <1> DEFINE k == lists[l].count + 1
  <1>4. /\ lists' = [lists EXCEPT ![l].count = k]
        /\ \A m \in Names : kept'[m] \subseteq kept[m] \union (IF m = l THEN {k} ELSE {})
    BY DEF Put, Without
  <1>5. ASSUME NEW m \in Names
        PROVE  /\ lists'[m].block = lists[m].block /\ lists'[m].room = lists[m].room
               /\ lists'[m].count = IF m = l THEN k ELSE lists[m].count
    BY <1>3, <1>4
  <1>6. ASSUME NEW m \in Names
        PROVE  lists'[m].count <= lists'[m].room /\ kept'[m] \subseteq 1..lists'[m].count
    <2>1. lists[m].count \in Nat /\ lists[m].room \in Nat
      BY <1>3
    <2>2. CASE m = l
      BY <1>1, <1>3, <1>4, <1>5, <2>1, <2>2
    <2>3. CASE m # l
      BY <1>3, <1>4, <1>5, <2>1, <2>3
    <2>. QED BY <2>2, <2>3
  <1>7. ListsTypeOK'
    <2>1. lists' \in [Names -> [block : 0..Len(blocks), count : Nat, room : Nat]]
      <3>1. k \in Nat /\ lists[l] \in [block : 0..Len(blocks), count : Nat, room : Nat]
        BY <1>3
      <3>2. [lists[l] EXCEPT !.count = k] \in [block : 0..Len(blocks), count : Nat, room : Nat]
        BY <3>1
      <3>3. lists' = [lists EXCEPT ![l] = [lists[l] EXCEPT !.count = k]]
        BY <1>3, <1>4
      <3> HIDE DEF k
      <3>. QED BY <1>3, <3>2, <3>3
    <2>. QED BY <1>1, <1>3, <1>6, <2>1 DEF ListsTypeOK
  <1>8. VecHeld'
    BY <1>1, <1>3, <1>5 DEF ListsIInv, VecHeld
  <1>9. VectorsBounded'
    <2> SUFFICES ASSUME debug PROVE lists'[Vec].count <= DefaultVecSize
      BY <1>1 DEF VectorsBounded
    <2>1. lists'[Vec].count <= lists'[Vec].room /\ lists'[Vec].count \in Nat
      BY <1>3, <1>6, <1>7 DEF ListsTypeOK
    <2>2. lists'[Vec].room \in {0, DefaultVecSize}
      BY <1>1, <1>8 DEF VecHeld
    <2>. QED BY <2>1, <2>2, ListsAssumption
  <1>. QED BY <1>2, <1>7, <1>8, <1>9 DEF ListsIInv

\* A vector begins in the heap's memory.
LEMMA VecInitKeeps ==
    ASSUME ListsIInv, VecInit
    PROVE  ListsIInv' /\ (VectorsBounded => VectorsBounded')
  <1>1. /\ HeapAlloc(Elem(Vec) * DefaultVecSize)
        /\ lists' = [lists EXCEPT ![Vec] = [block |-> result', count |-> @.count,
                                            room |-> DefaultVecSize]]
        /\ kept' = kept /\ growing' = growing /\ others' = others
        /\ lists[Vec].room = 0
    BY DEF VecInit
  <1>2. Elem(Vec) * DefaultVecSize \in Nat \ {0}
    BY ListsAssumption DEF Elem, Vec, Pls, DataVars
  <1>3. IInv' /\ Grown
    BY <1>1, <1>2, HeapAllocKeeps DEF ListsIInv
  <1>4. /\ debug' = debug /\ result' = Len(blocks) + 1
        /\ blocks' = Append(blocks, [arena |-> 0, at |-> 0, size |-> Elem(Vec) * DefaultVecSize])
        /\ blocks \in Seq(Block) /\ Len(blocks) \in Nat
    BY <1>1 DEF HeapAlloc, Running, ListsIInv, IInv, TypeOK
  <1>5. Len(blocks') = Len(blocks) + 1 /\ blocks'[Len(blocks) + 1].arena = 0
    BY <1>4
  <1>6. /\ lists \in [Names -> [block : 0..Len(blocks), count : Nat, room : Nat]]
        /\ \A m \in Names : lists[m].count <= lists[m].room /\ kept[m] \subseteq 1..lists[m].count
        /\ growing \in Names \union {None} /\ others \in 0..MaxOthers /\ Vec \in Names
    BY DEF ListsIInv, ListsTypeOK, Names
  <1>7. lists[Vec].count = 0 /\ 0 <= DefaultVecSize /\ DefaultVecSize \in Nat
    <2>1. lists[Vec].count \in Nat /\ lists[Vec].count <= 0
      BY <1>1, <1>6
    <2>. QED BY <2>1, ListsAssumption
  <1>8. /\ lists'[Vec].block = result' /\ lists'[Vec].count = 0
        /\ lists'[Vec].room = DefaultVecSize
        /\ \A m \in Names : m # Vec => lists'[m] = lists[m]
    BY <1>1, <1>6, <1>7
  <1>9. ListsTypeOK'
    <2>1. result' \in 0..Len(blocks')
      BY <1>4, <1>5
    <2>2. lists' \in [Names -> [block : 0..Len(blocks'), count : Nat, room : Nat]]
      <3>1. \A b \in 0..Len(blocks) : b \in 0..Len(blocks')
        BY <1>4, <1>5
      <3>2. lists' = [lists EXCEPT ![Vec] = [block |-> result', count |-> 0,
                                             room |-> DefaultVecSize]]
        BY <1>1, <1>6, <1>7
      <3>. QED BY <1>6, <1>7, <2>1, <3>1, <3>2
    <2>3. ASSUME NEW m \in Names
          PROVE  lists'[m].count <= lists'[m].room /\ kept'[m] \subseteq 1..lists'[m].count
      <3>1. CASE m = Vec
        BY <1>1, <1>6, <1>7, <1>8, <3>1
      <3>2. CASE m # Vec
        BY <1>1, <1>6, <1>8, <3>2
      <3>. QED BY <3>1, <3>2
    <2>. QED BY <1>1, <1>6, <2>2, <2>3 DEF ListsTypeOK
  <1>10. VecHeld' /\ VectorsBounded'
    BY <1>4, <1>5, <1>7, <1>8 DEF VecHeld, VectorsBounded
  <1>. QED BY <1>3, <1>9, <1>10 DEF ListsIInv

\* Other memory is handed out: the lists may only lose elements.
LEMMA OtherAllocKeeps ==
    ASSUME ListsIInv, OtherAlloc
    PROVE  ListsIInv' /\ (VectorsBounded => VectorsBounded')
  <1>1. PICK size \in OtherSizes : Alloc(size)
    BY DEF OtherAlloc
  <1>2. size \in Nat \ {0}
    BY ListsAssumption
  <1>3. IInv' /\ Grown /\ debug' = debug
    BY <1>1, <1>2, AllocKeeps DEF ListsIInv, Alloc, Running
  <1>4. /\ lists' = lists /\ growing' = growing
        /\ others' = others + 1 /\ others < MaxOthers
        /\ \A m \in Names : kept'[m] \subseteq kept[m]
    BY DEF OtherAlloc, Without
  <1>5. /\ lists \in [Names -> [block : 0..Len(blocks), count : Nat, room : Nat]]
        /\ \A m \in Names : lists[m].count <= lists[m].room /\ kept[m] \subseteq 1..lists[m].count
        /\ growing \in Names \union {None} /\ others \in 0..MaxOthers /\ Vec \in Names
    BY DEF ListsIInv, ListsTypeOK, Names
  <1>6. Len(blocks) \in Nat /\ Len(blocks') \in Nat
    BY <1>3 DEF ListsIInv, IInv, TypeOK
  <1>7. ListsTypeOK'
    <2>1. \A b \in 0..Len(blocks) : b \in 0..Len(blocks')
      BY <1>3, <1>6 DEF Grown
    <2>2. lists' \in [Names -> [block : 0..Len(blocks'), count : Nat, room : Nat]]
      BY <1>4, <1>5, <2>1
    <2>3. others' \in 0..MaxOthers
      BY <1>4, <1>5, ListsAssumption
    <2>. QED BY <1>4, <1>5, <2>2, <2>3 DEF ListsTypeOK
  <1>8. VecHeld'
    <2>1. lists[Vec].block # 0 => lists[Vec].block \in 1..Len(blocks)
      BY <1>5, <1>6
    <2>. QED BY <1>3, <1>4, <2>1 DEF ListsIInv, VecHeld, Grown
  <1>. QED BY <1>3, <1>4, <1>7, <1>8 DEF ListsIInv, VectorsBounded

\* At first the lists are empty.
LEMMA ListsInitHolds == ListsInit => ListsIInv /\ VectorsBounded
  <1> SUFFICES ASSUME ListsInit PROVE ListsIInv /\ VectorsBounded
    OBVIOUS
  <1>1. IInv /\ blocks = <<>>
    BY InitHolds DEF ListsInit, Init
  <1>2. /\ lists = [l \in Names |-> [block |-> 0, count |-> 0, room |-> 0]]
        /\ kept = [l \in Names |-> {}] /\ growing = None /\ others = 0
        /\ Vec \in Names
    BY DEF ListsInit, Names
  <1>3. ListsTypeOK
    <2>1. 0 \in 0..Len(blocks) /\ others \in 0..MaxOthers
      BY <1>1, <1>2, ListsAssumption
    <2>2. lists \in [Names -> [block : 0..Len(blocks), count : Nat, room : Nat]]
      BY <1>2, <2>1
    <2>. QED BY <1>2, <2>1, <2>2 DEF ListsTypeOK
  <1>4. VecHeld /\ VectorsBounded
    BY <1>2, ListsAssumption DEF VecHeld, VectorsBounded
  <1>. QED BY <1>1, <1>3, <1>4 DEF ListsIInv

\* A step that changes nothing.
LEMMA UnchangedKeeps ==
    ASSUME ListsIInv, UNCHANGED vars
    PROVE  ListsIInv' /\ (VectorsBounded => VectorsBounded')
  <1>1. UNCHANGED arenaVars /\ lists' = lists /\ kept' = kept /\ growing' = growing
        /\ others' = others
    BY DEF vars
  <1>2. IInv'
    BY <1>1, StepKeeps DEF ListsIInv
  <1>3. blocks' = blocks /\ debug' = debug
    BY <1>1 DEF arenaVars
  <1>. QED BY <1>1, <1>2, <1>3 DEF ListsIInv, ListsTypeOK, VecHeld, VectorsBounded

\* A step of the lists keeps both.
LEMMA ListsStepKeeps ==
    ListsIInv /\ VectorsBounded /\ [ListsNext]_vars => ListsIInv' /\ VectorsBounded'
  <1> SUFFICES ASSUME ListsIInv, VectorsBounded, [ListsNext]_vars
               PROVE  ListsIInv' /\ VectorsBounded'
    OBVIOUS
  <1>1. ASSUME NEW l \in Names, Grow(l) PROVE ListsIInv' /\ VectorsBounded'
    BY <1>1, GrowKeeps
  <1>2. ASSUME NEW l \in Names, Put(l) PROVE ListsIInv' /\ VectorsBounded'
    BY <1>2, PutKeeps
  <1>3. CASE VecInit
    BY <1>3, VecInitKeeps
  <1>4. CASE OtherAlloc
    BY <1>4, OtherAllocKeeps
  <1>5. CASE UNCHANGED vars
    BY <1>5, UnchangedKeeps
  <1>. QED BY <1>1, <1>2, <1>3, <1>4, <1>5 DEF ListsNext

\* With the sizes that the compiler's lists really claim, the pool keeps its
\* invariant, and the lists theirs.
THEOREM ListsInvariance == ListsSpec => []ListsIInv
  <1>. QED BY ListsInitHolds, ListsStepKeeps, PTL DEF ListsSpec

\* The memory of no two of these lists overlaps.
THEOREM ListsStayApart == ListsSpec => []BlocksApart
  <1>1. ListsIInv => BlocksApart
    BY DEF ListsIInv, IInv
  <1>. QED BY <1>1, ListsInvariance, PTL

\* Only the last block of an arena reaches past it.
THEOREM OnlyLastListOutside == ListsSpec => []OnlyLastOutside
  <1>1. ListsIInv => OnlyLastOutside
    BY OnlyLastFollows DEF ListsIInv
  <1>. QED BY <1>1, ListsInvariance, PTL

\* In the debug build no vector outgrows its first memory.
THEOREM VectorsStayBounded == ListsSpec => []VectorsBounded
  <1>. QED BY ListsInitHolds, ListsStepKeeps, PTL DEF ListsSpec

-----------------------------------------------------------------------------
(* What the lists hold *)

\* Aligned places are 16 bytes apart at least, and aligning gives such a place.
LEMMA AlignedApart ==
    ASSUME NEW p \in Nat, NEW q \in Nat, p % 16 = 0, q % 16 = 0, p < q
    PROVE  p + 16 <= q
  OBVIOUS

LEMMA AlignForwardAligns ==
    ASSUME NEW p \in Nat
    PROVE  AlignForward(p) % 16 = 0
  BY DEF AlignForward

LEMMA AlignForwardGrows ==
    ASSUME NEW p \in Nat, NEW q \in Nat, p <= q
    PROVE  AlignForward(p) <= AlignForward(q)
  BY DEF AlignForward

\* The kinds of lists, with the sizes of their elements and of their memory.
LEMMA ListKinds ==
    ASSUME NEW l \in Names
    PROVE  /\ l \in Locs \/ l \in {Pls, DataVars, Vec}
           /\ l \in Locs => l \notin {Pls, DataVars, Vec} /\ Elem(l) = 4 /\ Used(l) = 2
           /\ l = Pls => l \notin {DataVars, Vec} /\ Elem(l) = 24 /\ Used(l) = 24
           /\ l = DataVars => l # Vec /\ Elem(l) = 16 /\ Used(l) = 16
           /\ l = Vec => Elem(l) = 8 /\ Used(l) = 8
           /\ \A r : Bytes(l, r) = IF l \in {Pls, Vec} THEN Elem(l) * r ELSE r
  <1>1. l \in Locs => l \notin {Pls, DataVars, Vec}
    BY DEF Locs, Loc, Pls, DataVars, Vec
  <1>2. Pls # DataVars /\ Pls # Vec /\ DataVars # Vec
    BY DEF Pls, DataVars, Vec
  <1>3. /\ l = Pls => Elem(l) = 24
        /\ l = DataVars => Elem(l) = 16
        /\ l = Vec => Elem(l) = 8
        /\ l \in Locs => Elem(l) = 4
    BY <1>1, <1>2 DEF Elem
  <1>. QED BY <1>1, <1>2, <1>3 DEF Used, Bytes, Names

\* Two blocks of an arena are apart, and their first 16 bytes are too.
Gap(b, c) == \/ After(b) <= blocks[c].at /\ blocks[b].at + 16 <= blocks[c].at
             \/ After(c) <= blocks[b].at /\ blocks[c].at + 16 <= blocks[b].at
Gaps == \A b, c \in 1..Len(blocks) :
          b # c /\ InPool(b) /\ blocks[b].arena = blocks[c].arena => Gap(b, c)

LEMMA GapsThere == IInv /\ PlacesAligned => Gaps
  <1> SUFFICES ASSUME IInv, PlacesAligned,
                      NEW b \in 1..Len(blocks), NEW c \in 1..Len(blocks), b # c, InPool(b),
                      blocks[b].arena = blocks[c].arena
               PROVE  Gap(b, c)
    BY DEF Gaps
  <1>1. Apart(b, c) /\ blocks[b] \in Block /\ blocks[c] \in Block
    BY DEF IInv, TypeOK, BlocksApart
  <1>2. /\ blocks[b].at \in Nat /\ blocks[b].at % 16 = 0 /\ blocks[b].size \in Nat \ {0}
        /\ blocks[c].at \in Nat /\ blocks[c].at % 16 = 0 /\ blocks[c].size \in Nat \ {0}
    BY <1>1 DEF PlacesAligned, Block
  <1>3. CASE After(b) <= blocks[c].at
    <2>1. blocks[b].at < blocks[c].at
      BY <1>2, <1>3 DEF After
    <2>. QED BY <1>2, <1>3, <2>1, AlignedApart DEF Gap
  <1>4. CASE After(c) <= blocks[b].at
    <2>1. blocks[c].at < blocks[b].at
      BY <1>2, <1>4 DEF After
    <2>. QED BY <1>2, <1>4, <2>1, AlignedApart DEF Gap
  <1>. QED BY <1>1, <1>3, <1>4 DEF Apart

Within(l, k) ==
    /\ lists[l].block \in 1..Len(blocks)
    /\ From(l, k) \in Nat /\ From(l, k) >= blocks[lists[l].block].at
    /\ Used(l) \in Nat \ {0} /\ Used(l) <= Elem(l) /\ Elem(l) \in Nat
    /\ \/ From(l, k) + Elem(l) <= After(lists[l].block)
       \/ From(l, k) + Elem(l) <= blocks[lists[l].block].at + 16
    /\ l \in {Pls, Vec} => From(l, k) + Elem(l) <=
                              blocks[lists[l].block].at + Bytes(l, lists[l].room)

\* Where an element is in its list's memory: inside of the block, or of its
\* first 16 bytes.
LEMMA ElementWithin ==
    ASSUME KeptIInv, Small, NEW l \in Names, NEW k \in Nat \ {0}, k <= lists[l].room,
           l = DataVars => k <= 2
    PROVE  Within(l, k)
  <1> DEFINE b == lists[l].block
             room == lists[l].room
  <1>1. b \in 0..Len(blocks) /\ room \in Nat /\ Sized(l) /\ ListsIInv
    BY DEF KeptIInv, ListsIInv, ListsTypeOK
  <1>2. /\ b \in 1..Len(blocks) /\ blocks[b].size = Bytes(l, room)
        /\ l = DataVars => room >= Elem(l) * 2
    <2>1. room # 0
      BY <1>1
    <2>2. Len(blocks) \in Nat
      BY <1>1 DEF ListsIInv, IInv, TypeOK
    <2>. QED BY <1>1, <2>1, <2>2 DEF Sized
  <1>3. l \in Locs => k <= 2
    <2>1. l \in Locs => room <= 2
      BY DEF Small
    <2>. QED BY <1>1, <2>1
  <1>4. PICK at \in Nat : at = blocks[b].at
    <2>1. blocks[b] \in Block
      BY <1>1, <1>2 DEF ListsIInv, IInv, TypeOK
    <2>. QED BY <2>1 DEF Block
  <1>5. PICK r \in Nat : r = room /\ k <= r
    BY <1>1
  <1>6. From(l, k) = at + (k - 1) * Elem(l) /\ After(b) = at + Bytes(l, r)
    BY <1>2, <1>4, <1>5 DEF From, After
  <1> DEFINE Goal(from, after, bytes) ==
               /\ from \in Nat /\ from >= at
               /\ Used(l) \in Nat \ {0} /\ Used(l) <= Elem(l) /\ Elem(l) \in Nat
               /\ from + Elem(l) <= after \/ from + Elem(l) <= at + 16
               /\ l \in {Pls, Vec} => from + Elem(l) <= at + bytes
  <1>7. Goal(at + (k - 1) * Elem(l), at + Bytes(l, r), Bytes(l, r))
    <2>1. CASE l = Pls
      <3>1. Elem(l) = 24 /\ Used(l) = 24 /\ Bytes(l, r) = 24 * r
        BY <2>1, ListKinds
      <3>. QED BY <1>5, <3>1
    <2>2. CASE l = DataVars
      <3>1. Elem(l) = 16 /\ Used(l) = 16 /\ Bytes(l, r) = r /\ l \notin {Pls, Vec}
        BY <2>2, ListKinds
      <3>2. r >= 16 * 2 /\ k <= 2
        BY <1>2, <1>5, <2>2, <3>1
      <3>. QED BY <1>5, <3>1, <3>2
    <2>3. CASE l = Vec
      <3>1. Elem(l) = 8 /\ Used(l) = 8 /\ Bytes(l, r) = 8 * r
        BY <2>3, ListKinds
      <3>. QED BY <1>5, <3>1
    <2>4. CASE l \in Locs
      <3>1. Elem(l) = 4 /\ Used(l) = 2 /\ l \notin {Pls, Vec}
        BY <2>4, ListKinds
      <3>2. k <= 2
        BY <1>3, <2>4
      <3>. QED BY <1>5, <3>1, <3>2
    <2>. QED BY <2>1, <2>2, <2>3, <2>4, ListKinds
  <1>8. Goal(From(l, k), After(b), Bytes(l, room))
    BY <1>5, <1>6, <1>7, Zenon
  <1>. QED BY <1>2, <1>4, <1>8 DEF Within

\* The arenas of blocks, and their places.
LEMMA BlockTypes ==
    ASSUME ListsIInv, NEW b \in 1..Len(blocks)
    PROVE  /\ blocks[b].arena \in Nat /\ blocks[b].at \in Nat /\ blocks[b].size \in Nat \ {0}
           /\ After(b) = blocks[b].at + blocks[b].size /\ After(b) \in Nat
           /\ Placed(b) /\ Len(blocks) \in Nat
  <1>1. blocks[b] \in Block /\ Placed(b) /\ Len(blocks) \in Nat
    BY DEF ListsIInv, IInv, TypeOK
  <1>. QED BY <1>1 DEF Block, After

\* Memory that is behind an element, or apart from its list's memory and from
\* the first 16 bytes of that, does not meet the element.
LEMMA Spared ==
    ASSUME KeptIInv, Small, NEW m \in Names, NEW k \in kept[m],
           NEW stretch \in Stretch,
           blocks[lists[m].block].arena = stretch.arena =>
             \/ From(m, k) + Elem(m) <= stretch.at
             \/ /\ After(lists[m].block) <= stretch.at
                /\ blocks[lists[m].block].at + 16 <= stretch.at
             \/ stretch.at + stretch.size <= blocks[lists[m].block].at
    PROVE  ~Meets(m, k, stretch)
  <1>1. /\ k \in Nat \ {0} /\ k <= lists[m].room
        /\ m = DataVars => k <= 2
    <2>1. /\ kept[m] \subseteq 1..lists[m].count /\ lists[m].count <= lists[m].room
          /\ lists[m].count \in Nat /\ lists[m].room \in Nat
      BY DEF KeptIInv, ListsIInv, ListsTypeOK
    <2>2. m = DataVars => lists[m].count <= 2
      BY DEF Small
    <2>. QED BY <2>1, <2>2
  <1>2. Within(m, k)
    BY <1>1, ElementWithin
  <1>3. lists[m].block \in 1..Len(blocks)
    BY <1>2 DEF Within
  <1>4. blocks[lists[m].block].at \in Nat /\ After(lists[m].block) \in Nat
    BY <1>3, BlockTypes DEF KeptIInv
  <1>5. stretch.at \in Nat /\ stretch.size \in Nat
    BY DEF Stretch
  <1>6. PICK f \in Nat, used \in Nat \ {0}, elem \in Nat, at \in Nat, after \in Nat :
          /\ f = From(m, k) /\ used = Used(m) /\ elem = Elem(m)
          /\ at = blocks[lists[m].block].at /\ after = After(lists[m].block)
    BY <1>2, <1>4 DEF Within
  <1>7. /\ f >= at /\ used <= elem
        /\ f + elem <= after \/ f + elem <= at + 16
    BY <1>2, <1>6 DEF Within
  <1>. QED BY <1>5, <1>6, <1>7 DEF Meets

\* So if that is so of all elements, none is lost.
LEMMA AllSpared ==
    ASSUME KeptIInv, NEW stretch,
           \A m \in Names : \A k \in kept[m] : ~Meets(m, k, stretch)
    PROVE  Without(stretch) = kept
  <1>1. kept = [m \in Names |-> kept[m]]
    BY DEF KeptIInv
  <1>2. \A m \in Names : {k \in kept[m] : ~Meets(m, k, stretch)} = kept[m]
    OBVIOUS
  <1>. QED BY <1>1, <1>2 DEF Without

\* What a call hands out: a new block at an aligned place of an arena.
Added(size) ==
    \E arena \in Nat \ {0}, at \in Nat :
      /\ at % 16 = 0
      /\ blocks' = Append(blocks, [arena |-> arena, at |-> at, size |-> size])
      /\ cleared' = [arena |-> arena, at |-> at, size |-> size]
      /\ result' = Len(blocks) + 1

\* Giving adds a block, if there is room.
LEMMA GiveAdds ==
    ASSUME IInv, NEW list, Extended(list), NEW size \in Nat \ {0}, Give(list, size)
    PROVE  IF HasRoom(list, size)
             THEN Added(size)
             ELSE blocks' = blocks /\ cleared' = Nothing
  <1>1. CASE ~HasRoom(list, size)
    BY <1>1 DEF Give
  <1>2. CASE HasRoom(list, size)
    <2>1. Len(list) \in Nat \ {0} /\ list[Len(list)].curr \in Nat
      BY ExtendedType DEF Arena
    <2>2. Place(list) \in Nat /\ Place(list) % 16 = 0
      BY <2>1, AlignedForward, AlignForwardAligns DEF Place
    <2>. QED BY <1>2, <2>1, <2>2 DEF Give, Added
  <1>. QED BY <1>1, <1>2

\* What the blocks are once one has been added.
LEMMA AddedBlocks ==
    ASSUME ListsIInv, NEW size \in Nat \ {0}, Added(size)
    PROVE  /\ Len(blocks') = Len(blocks) + 1 /\ result' = Len(blocks) + 1
           /\ Len(blocks) \in Nat
           /\ \A b \in 1..Len(blocks) : blocks'[b] = blocks[b]
           /\ blocks'[Len(blocks) + 1] = cleared'
           /\ cleared'.size = size /\ cleared'.arena \in Nat \ {0}
           /\ cleared'.at \in Nat /\ cleared'.at % 16 = 0
           /\ cleared' \in Stretch
  <1>1. PICK arena \in Nat \ {0}, at \in Nat :
          /\ at % 16 = 0
          /\ blocks' = Append(blocks, [arena |-> arena, at |-> at, size |-> size])
          /\ cleared' = [arena |-> arena, at |-> at, size |-> size]
          /\ result' = Len(blocks) + 1
    BY DEF Added
  <1>2. blocks \in Seq(Block) /\ Len(blocks) \in Nat
    BY DEF ListsIInv, IInv, TypeOK
  <1>3. [arena |-> arena, at |-> at, size |-> size] \in Block
    BY <1>1 DEF Block
  <1>4. /\ Len(blocks') = Len(blocks) + 1
        /\ \A b \in 1..Len(blocks) : blocks'[b] = blocks[b]
        /\ blocks'[Len(blocks) + 1] = [arena |-> arena, at |-> at, size |-> size]
    BY <1>1, <1>2, <1>3
  <1>5. cleared' \in Stretch
    BY <1>1 DEF Stretch
  <1>. QED BY <1>1, <1>2, <1>4, <1>5

\* All places stay aligned when a block is added.
LEMMA AddedAligned ==
    ASSUME ListsIInv, PlacesAligned, NEW size \in Nat \ {0}, Added(size)
    PROVE  PlacesAligned'
  <1>1. /\ Len(blocks') = Len(blocks) + 1 /\ Len(blocks) \in Nat
        /\ \A b \in 1..Len(blocks) : blocks'[b] = blocks[b]
        /\ blocks'[Len(blocks) + 1] = cleared' /\ cleared'.at % 16 = 0
    BY AddedBlocks
  <1>2. ASSUME NEW b \in 1..Len(blocks') PROVE blocks'[b].at % 16 = 0
    <2>1. CASE b \in 1..Len(blocks)
      BY <1>1, <2>1 DEF PlacesAligned
    <2>2. CASE b = Len(blocks) + 1
      BY <1>1, <2>2
    <2>. QED BY <1>1, <2>1, <2>2
  <1>. QED BY <1>2 DEF PlacesAligned

\* And clearing it spares what the lists hold.
LEMMA AddedSpares ==
    ASSUME KeptIInv, Small, NEW size \in Nat \ {0}, Added(size), IInv'
    PROVE  Without(cleared') = kept
  <1>0. ListsIInv /\ PlacesAligned
    BY DEF KeptIInv
  <1>1. /\ Len(blocks') = Len(blocks) + 1 /\ Len(blocks) \in Nat
        /\ \A b \in 1..Len(blocks) : blocks'[b] = blocks[b]
        /\ blocks'[Len(blocks) + 1] = cleared'
        /\ cleared'.arena \in Nat \ {0} /\ cleared' \in Stretch
    BY <1>0, AddedBlocks
  <1>2. Gaps'
    <2>1. PlacesAligned'
      BY <1>0, AddedAligned
    <2>2. IInv' /\ PlacesAligned' => Gaps'
      BY GapsThere, PTL
    <2>. QED BY <2>1, <2>2
  <1>3. PICK new \in Nat : new = Len(blocks) + 1
    BY <1>1
  <1>4. ASSUME NEW m \in Names, NEW k \in kept[m] PROVE ~Meets(m, k, cleared')
    <2>1. PICK b \in 1..Len(blocks) : b = lists[m].block
      <3>1. /\ kept[m] \subseteq 1..lists[m].count /\ lists[m].count <= lists[m].room
            /\ lists[m].count \in Nat /\ lists[m].room \in Nat /\ Sized(m)
            /\ lists[m].block \in 0..Len(blocks)
        BY <1>0 DEF KeptIInv, ListsIInv, ListsTypeOK
      <3>2. lists[m].room # 0
        BY <3>1
      <3>. QED BY <1>1, <3>1, <3>2 DEF Sized
    <2>2. ASSUME blocks[b].arena = cleared'.arena
          PROVE  \/ After(b) <= cleared'.at /\ blocks[b].at + 16 <= cleared'.at
                 \/ cleared'.at + cleared'.size <= blocks[b].at
      <3>1. Gap(b, new)'
        <4>1. b \in 1..Len(blocks') /\ new \in 1..Len(blocks') /\ b # new
          BY <1>1, <1>3
        <4>2. blocks'[b].arena = blocks'[new].arena /\ InPool(b)'
          BY <1>1, <1>3, <2>2 DEF InPool
        <4>. QED BY <1>2, <4>1, <4>2 DEF Gaps
      <3>2. blocks'[b] = blocks[b] /\ blocks'[new] = cleared'
        BY <1>1, <1>3
      <3>. QED BY <3>1, <3>2 DEF Gap, After
    <2>. QED BY <1>1, <2>1, <2>2, Spared
  <1>. QED BY <1>4, AllSpared

\* What growing in place leaves of the blocks.
LEMMA InPlaceBlocks ==
    ASSUME ListsIInv, NEW b \in 1..Len(blocks), NEW old \in Nat, NEW new \in Nat \ {0},
           ResizeInPlace(b, old, new)
    PROVE  /\ Len(blocks') = Len(blocks) /\ result' = b
           /\ blocks'[b].size = new /\ blocks'[b].arena = blocks[b].arena
           /\ \A c \in 1..Len(blocks) : /\ blocks'[c].at = blocks[c].at
                                        /\ c # b => blocks'[c] = blocks[c]
           /\ blocks[b].arena = Len(arenas) /\ Len(arenas) \in Nat \ {0}
           /\ blocks[b].at = arenas[Len(arenas)].prev
           /\ cleared' \in {Nothing, [arena |-> Len(arenas), at |-> blocks[b].at + new,
                                      size |-> new - old]}
           /\ cleared' # Nothing => new > old
  <1>1. blocks \in Seq(Block) /\ Len(blocks) \in Nat /\ Len(arenas) \in Nat \ {0}
        /\ blocks' = [blocks EXCEPT ![b].size = new] /\ blocks[b] \in Block
    BY DEF ListsIInv, IInv, TypeOK, ResizeInPlace
  <1>2. [blocks[b] EXCEPT !.size = new] =
          [arena |-> blocks[b].arena, at |-> blocks[b].at, size |-> new]
    <2>1. blocks[b] \in Block
      BY <1>1
    <2>. QED BY <2>1 DEF Block
  <1>3. /\ Len(blocks') = Len(blocks)
        /\ blocks'[b] = [arena |-> blocks[b].arena, at |-> blocks[b].at, size |-> new]
        /\ \A c \in 1..Len(blocks) : c # b => blocks'[c] = blocks[c]
    BY <1>1, <1>2
  <1>. QED BY <1>1, <1>3 DEF ResizeInPlace, HandedOutLast, InLastArena

\* What is cleared then is behind the list's elements, and all else of the
\* arena is before them.
LEMMA InPlaceSpares ==
    ASSUME KeptIInv, Small, NEW l \in {Pls, Vec}, NEW b \in 1..Len(blocks),
           b = lists[l].block, NEW old \in Nat, NEW new \in Nat \ {0}, old <= new,
           old = Bytes(l, lists[l].room), ResizeInPlace(b, old, new)
    PROVE  Without(cleared') = kept
  <1>0. ListsIInv /\ IInv /\ PlacesAligned /\ l \in Names
    BY DEF KeptIInv, ListsIInv, Names
  <1>1. /\ blocks[b].arena = Len(arenas) /\ Len(arenas) \in Nat \ {0}
        /\ blocks[b].at = arenas[Len(arenas)].prev
        /\ cleared' \in {Nothing, [arena |-> Len(arenas), at |-> blocks[b].at + new,
                                   size |-> new - old]}
        /\ cleared' # Nothing => new > old
    BY <1>0, InPlaceBlocks
  <1>2. PICK at \in Nat : at = blocks[b].at
    BY <1>0, BlockTypes
  <1>3. cleared' \in Stretch
    BY <1>1, <1>2 DEF Stretch, Nothing
  <1>4. ASSUME NEW m \in Names, NEW k \in kept[m] PROVE ~Meets(m, k, cleared')
    <2>1. /\ k \in Nat \ {0} /\ k <= lists[m].room /\ Sized(m)
          /\ m = DataVars => k <= 2
      <3>1. /\ kept[m] \subseteq 1..lists[m].count /\ lists[m].count <= lists[m].room
            /\ lists[m].count \in Nat /\ lists[m].room \in Nat
        BY <1>0 DEF ListsIInv, ListsTypeOK
      <3>2. m = DataVars => lists[m].count <= 2
        BY DEF Small
      <3>. QED BY <3>1, <3>2 DEF KeptIInv
    <2>2. Within(m, k)
      BY <2>1, ElementWithin
    <2>3. PICK c \in 1..Len(blocks) : c = lists[m].block
      BY <2>2 DEF Within
    <2>4. CASE cleared' = Nothing
      <3>1. blocks[c].at \in Nat
        BY <1>0, BlockTypes
      <3>2. cleared'.at + cleared'.size <= blocks[c].at
        BY <2>4, <3>1 DEF Nothing
      <3>. QED BY <1>3, <2>3, <3>2, Spared
    <2>5. CASE cleared' = [arena |-> Len(arenas), at |-> at + new, size |-> new - old]
      <3>1. cleared'.arena = Len(arenas) /\ cleared'.at = at + new
        BY <2>5
      <3>2. CASE m = l
        <4>1. From(m, k) + Elem(m) <= at + old
          BY <1>2, <2>2, <3>2 DEF Within
        <4>2. PICK f \in Nat : f = From(m, k) + Elem(m)
          BY <2>2 DEF Within
        <4>3. f <= at + new
          BY <4>1, <4>2
        <4>4. From(m, k) + Elem(m) <= cleared'.at
          BY <3>1, <4>2, <4>3
        <4>. QED BY <1>3, <4>4, Spared
      <3>3. CASE m # l
        <4>1. b # c
          <5>1. c # NULL
            BY <1>0, BlockTypes
          <5>. QED BY <1>0, <2>3, <3>3, <5>1 DEF KeptIInv, OwnMemory
        <4>2. ASSUME blocks[c].arena = Len(arenas)
              PROVE  After(c) <= at + new /\ blocks[c].at + 16 <= at + new
          <5>1. Gap(b, c)
            <6>1. InPool(b)
              BY <1>1 DEF InPool
            <6>. QED BY <1>0, <1>1, <4>1, <4>2, <6>1, GapsThere DEF Gaps
          <5>2. /\ Placed(c) /\ blocks[c].at \in Nat /\ blocks[c].size \in Nat \ {0}
                /\ After(c) = blocks[c].at + blocks[c].size
                /\ After(b) \in Nat
            BY <1>0, BlockTypes
          <5>3. blocks[c].at = at \/ After(c) <= at
            BY <1>1, <1>2, <4>2, <5>2 DEF Placed, InPool
          <5>4. CASE After(c) <= blocks[b].at /\ blocks[c].at + 16 <= blocks[b].at
            <6>1. PICK place \in Nat, end \in Nat : place = blocks[c].at /\ end = After(c)
              BY <5>2
            <6>2. end <= at /\ place + 16 <= at
              BY <1>2, <5>4, <6>1
            <6>3. end <= at + new /\ place + 16 <= at + new
              BY <6>2
            <6>. QED BY <6>1, <6>3
          <5>5. CASE After(b) <= blocks[c].at /\ blocks[b].at + 16 <= blocks[c].at
            <6>1. PICK place \in Nat, size \in Nat \ {0} :
                    place = blocks[c].at /\ size = blocks[c].size
              BY <5>2
            <6>2. After(c) = place + size /\ at + 16 <= place
              BY <1>2, <5>2, <5>5, <6>1
            <6>3. place = at \/ place + size <= at
              BY <5>3, <6>1, <6>2
            <6>. QED BY <6>2, <6>3
          <5>. QED BY <5>1, <5>4, <5>5 DEF Gap
        <4>. QED BY <1>3, <2>3, <3>1, <4>2, Spared
      <3>. QED BY <3>2, <3>3
    <2>. QED BY <1>1, <1>2, <2>4, <2>5
  <1>. QED BY <1>4, AllSpared

\* The first memory of a list fits.
LEMMA FirstFits ==
    ASSUME NEW size \in Nat, size <= 48
    PROVE  HasRoom(Append(arenas, NewArena), size) \/ arenas \notin Seq(Arena)
  <1> SUFFICES ASSUME arenas \in Seq(Arena) PROVE HasRoom(Append(arenas, NewArena), size)
    OBVIOUS
  <1> DEFINE list == Append(arenas, NewArena)
  <1>1. list[Len(list)] = NewArena
    BY NewArenaType
  <1>2. <<NewArena>>[Len(<<NewArena>>)] = NewArena
    OBVIOUS
  <1>3. Place(list) = Place(<<NewArena>>)
    BY <1>1, <1>2 DEF Place
  <1>4. Place(<<NewArena>>) \in Nat
    BY <1>2, NewArenaType, AlignedForward DEF Place, Arena
  <1>. QED BY <1>3, <1>4, RoomAssumption, PoolAssumption DEF HasRoom

\* A list asks for at least what it had, and first for 48 bytes at most.
LEMMA BytesGrow ==
    ASSUME KeptIInv, NEW l \in Names, Usable(l)
    PROVE  /\ Bytes(l, lists[l].room) \in Nat /\ Bytes(l, NewRoom(l)) \in Nat \ {0}
           /\ Bytes(l, lists[l].room) < Bytes(l, NewRoom(l))
           /\ lists[l].room = 0 => Bytes(l, NewRoom(l)) <= 48 /\ Bytes(l, lists[l].room) = 0
           /\ lists[l].room # 0 => Bytes(l, lists[l].room) # 0
           /\ l = DataVars => NewRoom(l) >= Elem(l) * 2
           /\ l \in Locs => NewRoom(l) >= 2 /\ (NewRoom(l) = 2 => lists[l].room = 0)
  <1>1. PICK r \in Nat : r = lists[l].room
    BY DEF KeptIInv, ListsIInv, ListsTypeOK
  <1>2. CASE l = Pls
    <2>1. NewRoom(l) = (r + 1) * 2 /\ l \notin Locs /\ l # DataVars
      BY <1>1, <1>2, ListKinds DEF NewRoom
    <2>2. \A s : Bytes(l, s) = 24 * s
      BY <1>2, ListKinds
    <2>. QED BY <1>1, <2>1, <2>2
  <1>3. CASE l = DataVars
    <2>1. NewRoom(l) = 16 * (r + 1) * 2 /\ l \notin Locs /\ Elem(l) = 16
      BY <1>1, <1>3, ListKinds DEF NewRoom
    <2>2. \A s : Bytes(l, s) = s
      BY <1>3, ListKinds
    <2>. QED BY <1>1, <2>1, <2>2
  <1>4. CASE l = Vec
    <2>1. NewRoom(l) = r * 2 /\ l \notin Locs /\ l # DataVars
      BY <1>1, <1>4, ListKinds DEF NewRoom
    <2>2. \A s : Bytes(l, s) = 8 * s
      BY <1>4, ListKinds
    <2>3. r # 0
      BY <1>1, <1>4 DEF KeptIInv, Sized, Usable
    <2>. QED BY <1>1, <2>1, <2>2, <2>3
  <1>5. CASE l \in Locs
    <2>1. NewRoom(l) = (r + 1) * 2 /\ l # DataVars
      BY <1>1, <1>5, ListKinds DEF NewRoom
    <2>2. \A s : Bytes(l, s) = s
      BY <1>5, ListKinds
    <2>. QED BY <1>1, <2>1, <2>2
  <1>. QED BY <1>2, <1>3, <1>4, <1>5, ListKinds

\* The outcomes of a list's growth: the program ends, the list has new memory
\* with what the old one held, or its memory has grown.
LEMMA GrowOutcomes ==
    ASSUME KeptIInv, NEW l \in Names, Grow(l),
           NEW old \in Nat, old = Bytes(l, lists[l].room),
           NEW new \in Nat \ {0}, new = Bytes(l, NewRoom(l))
    PROVE  \/ ended' # "no" /\ blocks' = blocks
           \/ /\ ended' = "no" /\ Added(new)
              /\ lists[l].room # 0 => copied' = old
           \/ /\ ended' = "no" /\ lists[l].room # 0
              /\ lists[l].block \in 1..Len(blocks)
              /\ ResizeInPlace(lists[l].block, old, new)
  <1>1. /\ Usable(l) /\ Resize(lists[l].block, old, new)
        /\ IInv /\ Sized(l) /\ lists[l].block \in 0..Len(blocks) /\ Len(blocks) \in Nat
        /\ arenas \in Seq(Arena)
    BY DEF Grow, KeptIInv, ListsIInv, ListsTypeOK, IInv, TypeOK
  <1>2. /\ old < new
        /\ lists[l].room = 0 => new <= 48 /\ old = 0
        /\ lists[l].room # 0 => old # 0
    BY <1>1, BytesGrow
  <1>3. ended = "no"
    BY <1>1 DEF Resize, Alloc, Running
  <1>4. CASE lists[l].room = 0
    <2>1. Alloc(new)
      BY <1>1, <1>2, <1>4 DEF Resize
    <2>2. ended' = "no" /\ Obtain(new)
      BY <1>3, <2>1 DEF Alloc
    <2>3. CASE HasRoom(arenas, new)
      <3>1. Give(arenas, new) /\ Extended(arenas)
        BY <2>2, <2>3 DEF Obtain, Extended
      <3>. QED BY <1>1, <1>4, <2>2, <2>3, <3>1, GiveAdds
    <2>4. CASE ~HasRoom(arenas, new)
      <3>1. Give(Append(arenas, NewArena), new) /\ Extended(Append(arenas, NewArena))
        BY <2>2, <2>4 DEF Obtain, Extended
      <3>2. HasRoom(Append(arenas, NewArena), new)
        BY <1>1, <1>2, <1>4, FirstFits
      <3>. QED BY <1>1, <1>4, <2>2, <3>1, <3>2, GiveAdds
    <2>. QED BY <2>3, <2>4
  <1>5. CASE lists[l].room # 0
    <2>1. lists[l].block \in 1..Len(blocks) /\ old # 0
      BY <1>1, <1>2, <1>5 DEF Sized
    <2>2. \/ ResizeInPlace(lists[l].block, old, new)
          \/ ResizeByCopy(lists[l].block, old, new)
          \/ ResizeOutside(lists[l].block, old, new)
      BY <1>1, <2>1 DEF Resize
    <2>3. CASE ResizeInPlace(lists[l].block, old, new)
      BY <1>3, <1>5, <2>1, <2>3 DEF ResizeInPlace
    <2>4. CASE ResizeByCopy(lists[l].block, old, new)
      <3>1. CASE HasRoom(arenas, new)
        <4>1. Give(arenas, new) /\ Extended(arenas) /\ copied' = old /\ ended' = ended
          BY <1>2, <2>4, <3>1 DEF ResizeByCopy, Extended
        <4>. QED BY <1>1, <1>3, <3>1, <4>1, GiveAdds
      <3>2. CASE ~HasRoom(arenas, new)
        BY <2>4, <3>2 DEF ResizeByCopy, End
      <3>. QED BY <3>1, <3>2
    <2>5. CASE ResizeOutside(lists[l].block, old, new)
      <3>1. CASE debug \/ ~HasRoom(<<NewArena>>, new)
        <4>1. End("assert") \/ End("crash")
          BY <2>5, <3>1 DEF ResizeOutside
        <4>. QED BY <4>1 DEF End
      <3>2. CASE ~debug /\ HasRoom(<<NewArena>>, new)
        <4>1. /\ Give(Append(arenas, NewArena), new) /\ Extended(Append(arenas, NewArena))
              /\ copied' = old /\ ended' = ended
          BY <2>5, <3>2 DEF ResizeOutside, Extended
        <4>2. HasRoom(Append(arenas, NewArena), new)
          <5>1. Place(Append(arenas, NewArena)) = Place(<<NewArena>>)
            BY <1>1, NewArenaType DEF Place
          <5>. QED BY <3>2, <5>1 DEF HasRoom
        <4>. QED BY <1>1, <1>3, <4>1, <4>2, GiveAdds
      <3>. QED BY <3>1, <3>2
    <2>. QED BY <2>2, <2>3, <2>4, <2>5
  <1>. QED BY <1>4, <1>5

\* The lists are small as long as they were small before.
LEMMA SmallBefore ==
    ASSUME Small', ListsTypeOK, ListsTypeOK',
           \A m \in Names : lists[m].count <= lists'[m].count /\ lists[m].room <= lists'[m].room
    PROVE  Small
  <1>1. /\ lists \in [Names -> [block : 0..Len(blocks), count : Nat, room : Nat]]
        /\ \A m \in Names : lists'[m].count \in Nat /\ lists'[m].room \in Nat
        /\ DataVars \in Names /\ Locs \subseteq Names
    BY DEF ListsTypeOK, Names
  <1>2. lists[DataVars].count <= 2
    <2>1. lists'[DataVars].count <= 2
      BY DEF Small
    <2>. QED BY <1>1, <2>1
  <1>3. ASSUME NEW m \in Locs PROVE lists[m].room <= 2
    <2>1. lists'[m].room <= 2
      BY DEF Small
    <2>. QED BY <1>1, <2>1
  <1>. QED BY <1>2, <1>3 DEF Small

\* While the lists stay small, only the table and the vector grow again.
LEMMA GrownAgain ==
    ASSUME KeptIInv, NEW l \in Names, Grow(l), lists[l].room # 0, Small,
           l \in Locs => NewRoom(l) <= 2
    PROVE  l \in {Pls, Vec}
  <1>1. Usable(l) /\ Full(l) /\ Sized(l) /\ lists[l].block \in Nat
        /\ lists[l].count \in Nat /\ lists[l].room \in Nat
    BY DEF Grow, KeptIInv, ListsIInv, ListsTypeOK
  <1>2. l \notin Locs
    <2>1. l \in Locs => NewRoom(l) >= 2 /\ (NewRoom(l) = 2 => lists[l].room = 0)
      BY <1>1, BytesGrow
    <2>2. l \in Locs => NewRoom(l) = (lists[l].room + 1) * 2
      BY ListKinds DEF NewRoom
    <2>. QED BY <1>1, <2>1, <2>2
  <1>3. l # DataVars
    <2> SUFFICES ASSUME l = DataVars PROVE FALSE
      OBVIOUS
    <2>1. Elem(l) = 16 /\ lists[l].block # 0
      BY <1>1, ListKinds DEF Sized
    <2>2. lists[l].room >= 16 * 2
      BY <1>1, <2>1 DEF Sized
    <2>3. lists[l].count <= 2 /\ lists[l].count >= lists[l].room
      BY <1>1 DEF Small, Full
    <2>. QED BY <1>1, <2>2, <2>3
  <1>. QED BY <1>2, <1>3, ListKinds

\* What a list has after growing: it is the only one that changes.
LEMMA GrownLists ==
    ASSUME KeptIInv, NEW l \in Names, Grow(l), ended' = "no"
    PROVE  /\ lists'[l].block = result' /\ lists'[l].count = lists[l].count
           /\ lists'[l].room = NewRoom(l)
           /\ \A m \in Names : m # l => lists'[m] = lists[m]
           /\ kept' = IF result' = lists[l].block
                        THEN Without(cleared')
                        ELSE [Without(cleared') EXCEPT ![l] = Moved(l)]
  <1>1. lists \in [Names -> [block : 0..Len(blocks), count : Nat, room : Nat]]
    BY DEF KeptIInv, ListsIInv, ListsTypeOK
  <1>. QED BY <1>1 DEF Grow

\* A list that has new memory.
LEMMA AddedGrown ==
    ASSUME KeptIInv, NEW l \in Names, Grow(l), ended' = "no",
           NEW new \in Nat \ {0}, new = Bytes(l, NewRoom(l)), Added(new)
    PROVE  OwnMemory' /\ \A m \in Names : Sized(m)'
  <1>1. /\ lists'[l].block = Len(blocks) + 1 /\ lists'[l].room = NewRoom(l)
        /\ \A m \in Names : m # l => lists'[m] = lists[m]
        /\ Len(blocks) \in Nat
        /\ \A b \in 1..Len(blocks) : blocks'[b] = blocks[b]
        /\ blocks'[Len(blocks) + 1].size = new
        /\ blocks'[Len(blocks) + 1].arena # 0
    BY GrownLists, AddedBlocks DEF KeptIInv
  <1>2. /\ \A m \in Names : lists[m].block \in 0..Len(blocks) /\ Sized(m)
        /\ OwnMemory /\ Usable(l)
    BY DEF KeptIInv, ListsIInv, ListsTypeOK, Grow
  <1>3. OwnMemory'
    BY <1>1, <1>2 DEF OwnMemory
  <1>4. ASSUME NEW m \in Names PROVE Sized(m)'
    <2>1. CASE m = l
      <3>1. /\ NewRoom(l) # 0
            /\ l = DataVars => NewRoom(l) >= Elem(l) * 2
        <4>1. Bytes(l, lists[l].room) < Bytes(l, NewRoom(l)) /\ Bytes(l, lists[l].room) \in Nat
          BY <1>2, BytesGrow
        <4>2. Bytes(l, 0) = 0
          <5>1. Bytes(l, 0) \in {24 * 0, 8 * 0, 0}
            BY ListKinds
          <5>. QED BY <5>1
        <4>3. NewRoom(l) # 0
          BY <4>1, <4>2
        <4>. QED BY <1>2, <4>3, BytesGrow
      <3>2. Len(blocks) + 1 # 0
        BY <1>1
      <3>. QED BY <1>1, <2>1, <3>1, <3>2 DEF Sized
    <2>2. CASE m # l
      <3>1. lists'[m] = lists[m] /\ lists[m].block \in 0..Len(blocks) /\ Sized(m)
        BY <1>1, <1>2, <2>2
      <3>2. lists[m].block # 0 => blocks'[lists[m].block] = blocks[lists[m].block]
        BY <1>1, <3>1
      <3>. QED BY <3>1, <3>2 DEF Sized
    <2>. QED BY <2>1, <2>2
  <1>. QED BY <1>3, <1>4

\* A list whose memory has grown.
LEMMA InPlaceGrown ==
    ASSUME KeptIInv, NEW l \in Names, Grow(l), ended' = "no",
           NEW old \in Nat, NEW new \in Nat \ {0}, new = Bytes(l, NewRoom(l)),
           NEW b \in 1..Len(blocks), b = lists[l].block, ResizeInPlace(b, old, new)
    PROVE  PlacesAligned' /\ OwnMemory' /\ \A m \in Names : Sized(m)'
  <1>1. /\ Len(blocks') = Len(blocks) /\ result' = b
        /\ blocks'[b].size = new /\ blocks'[b].arena = blocks[b].arena
        /\ \A c \in 1..Len(blocks) : /\ blocks'[c].at = blocks[c].at
                                     /\ c # b => blocks'[c] = blocks[c]
        /\ Len(blocks) \in Nat
    BY InPlaceBlocks, BlockTypes DEF KeptIInv
  <1>2. /\ lists'[l].block = b /\ lists'[l].room = NewRoom(l)
        /\ \A m \in Names : m # l => lists'[m] = lists[m]
    BY <1>1, GrownLists
  <1>3. /\ \A m \in Names : lists[m].block \in 0..Len(blocks) /\ Sized(m)
        /\ OwnMemory /\ Usable(l) /\ b # 0
    BY <1>1 DEF KeptIInv, ListsIInv, ListsTypeOK, Grow
  <1>4. PlacesAligned'
    BY <1>1 DEF KeptIInv, PlacesAligned
  <1>5. OwnMemory'
    <2>1. \A m \in Names : lists'[m].block = lists[m].block
      BY <1>2
    <2>. QED BY <1>3, <2>1 DEF OwnMemory
  <1>6. ASSUME NEW m \in Names PROVE Sized(m)'
    <2>1. CASE m = l
      <3>1. /\ NewRoom(l) # 0
            /\ l = DataVars => NewRoom(l) >= Elem(l) * 2
        <4>1. Bytes(l, lists[l].room) < Bytes(l, NewRoom(l)) /\ Bytes(l, lists[l].room) \in Nat
          BY <1>3, BytesGrow
        <4>2. Bytes(l, 0) = 0
          <5>1. Bytes(l, 0) \in {24 * 0, 8 * 0, 0}
            BY ListKinds
          <5>. QED BY <5>1
        <4>3. NewRoom(l) # 0
          BY <4>1, <4>2
        <4>. QED BY <1>3, <4>3, BytesGrow
      <3>2. blocks[b].arena = 0 => l = Vec
        BY <1>3 DEF Sized
      <3>. QED BY <1>1, <1>2, <1>3, <2>1, <3>1, <3>2 DEF Sized
    <2>2. CASE m # l
      <3>1. /\ lists'[m] = lists[m] /\ lists[m].block \in 0..Len(blocks) /\ Sized(m)
            /\ lists[m].block # b
        BY <1>2, <1>3, <2>2 DEF OwnMemory
      <3>2. lists[m].block # 0 => blocks'[lists[m].block] = blocks[lists[m].block]
        BY <1>1, <3>1
      <3>. QED BY <3>1, <3>2 DEF Sized
    <2>. QED BY <2>1, <2>2
  <1>. QED BY <1>4, <1>5, <1>6

\* A list that is copied as long as the lists are small is copied whole.
LEMMA MovedWhole ==
    ASSUME KeptIInv, Small, NEW l \in {Pls, Vec}, copied' = Bytes(l, lists[l].room)
    PROVE  Moved(l) = kept[l]
  <1>1. ASSUME NEW k \in kept[l] PROVE (k - 1) * Elem(l) + Used(l) <= copied'
    <2>0. l \in Names /\ l # DataVars
      BY ListKinds DEF Names
    <2>1. k \in Nat \ {0} /\ k <= lists[l].room
      BY <2>0 DEF KeptIInv, ListsIInv, ListsTypeOK
    <2>2. Within(l, k)
      BY <2>0, <2>1, ElementWithin
    <2>3. PICK b \in 1..Len(blocks) : b = lists[l].block
      BY <2>2 DEF Within
    <2>4. PICK at \in Nat : at = blocks[b].at
      BY BlockTypes DEF KeptIInv
    <2>5. Elem(l) \in {24, 8} /\ Used(l) = Elem(l)
      BY <2>0, ListKinds
    <2>6. PICK off \in Int : off = (k - 1) * Elem(l)
      BY <2>1, <2>5
    <2>7. at + off + Elem(l) <= at + copied'
      BY <2>2, <2>3, <2>4, <2>6 DEF Within, From
    <2>8. PICK bytes \in Nat : bytes = copied'
      <3>1. lists[l].room \in Nat
        BY <2>0 DEF KeptIInv, ListsIInv, ListsTypeOK
      <3>2. Bytes(l, lists[l].room) \in {24 * lists[l].room, 8 * lists[l].room}
        BY <2>0, ListKinds
      <3>. QED BY <3>1, <3>2
    <2>. QED BY <2>4, <2>5, <2>6, <2>7, <2>8
  <1>. QED BY <1>1 DEF Moved

\* Growing a list keeps the invariant.
LEMMA GrowKeepsHeld ==
    ASSUME KeptIInv, NEW l \in Names, Grow(l)
    PROVE  KeptIInv'
  <1>1. ListsIInv /\ IInv /\ ListsTypeOK /\ PlacesAligned /\ Usable(l)
    BY DEF KeptIInv, ListsIInv, Grow
  <1>2. ListsIInv' /\ IInv' /\ ListsTypeOK'
    BY <1>1, GrowKeeps DEF ListsIInv
  <1>3. PICK old \in Nat, new \in Nat \ {0} :
          old = Bytes(l, lists[l].room) /\ new = Bytes(l, NewRoom(l)) /\ old < new
    BY <1>1, BytesGrow
  <1>4. CASE ended' # "no" /\ blocks' = blocks
    <2>1. lists' = lists /\ kept' = kept
      BY <1>4 DEF Grow
    <2>. QED BY <1>2, <1>4, <2>1
         DEF KeptIInv, PlacesAligned, OwnMemory, Sized, KeptWhileSmall, Small
  <1>5. ASSUME ended' = "no", Small' PROVE Small /\ (lists[l].room # 0 => l \in {Pls, Vec})
    <2>1. /\ lists'[l].count = lists[l].count /\ lists'[l].room = NewRoom(l)
          /\ \A m \in Names : m # l => lists'[m] = lists[m]
      BY <1>5, GrownLists
    <2>2. lists[l].room <= NewRoom(l)
      BY <1>1, SizesAsked
    <2>3. \A m \in Names : lists[m].count \in Nat /\ lists[m].room \in Nat
      BY <1>1 DEF ListsTypeOK
    <2>4. \A m \in Names : lists[m].count <= lists'[m].count /\ lists[m].room <= lists'[m].room
      BY <2>1, <2>2, <2>3
    <2>5. Small
      BY <1>1, <1>2, <1>5, <2>4, SmallBefore
    <2>6. l \in Locs => NewRoom(l) <= 2
      BY <1>5, <2>1 DEF Small
    <2>. QED BY <2>5, <2>6, GrownAgain
  <1>6. CASE ended' = "no" /\ Added(new) /\ (lists[l].room # 0 => copied' = old)
    <2>1. /\ lists'[l].block = result' /\ lists'[l].count = lists[l].count
          /\ \A m \in Names : m # l => lists'[m] = lists[m]
          /\ kept' = IF result' = lists[l].block
                       THEN Without(cleared')
                       ELSE [Without(cleared') EXCEPT ![l] = Moved(l)]
      BY <1>6, GrownLists
    <2>2. result' # lists[l].block
      <3>1. result' = Len(blocks) + 1 /\ Len(blocks) \in Nat
        BY <1>1, <1>6, AddedBlocks
      <3>2. lists[l].block \in 0..Len(blocks)
        BY <1>1 DEF ListsTypeOK
      <3>. QED BY <3>1, <3>2
    <2>3. kept' = [Without(cleared') EXCEPT ![l] = Moved(l)]
      BY <2>1, <2>2
    <2>4. kept' \in [Names -> SUBSET Nat]
      <3>1. Without(cleared') \in [Names -> SUBSET Nat] /\ Moved(l) \subseteq Nat
        BY DEF KeptIInv, Without, Moved
      <3>. QED BY <2>3, <3>1
    <2>5. KeptWhileSmall'
      <3> SUFFICES ASSUME Small', NEW m \in Names PROVE kept'[m] = 1..lists'[m].count
        BY DEF KeptWhileSmall
      <3>1. Small /\ (lists[l].room # 0 => l \in {Pls, Vec})
        BY <1>5, <1>6
      <3>2. Without(cleared') = kept /\ kept \in [Names -> SUBSET Nat]
        BY <1>2, <1>6, <3>1, AddedSpares DEF KeptIInv
      <3>3. kept[m] = 1..lists[m].count
        BY <3>1 DEF KeptIInv, KeptWhileSmall
      <3>4. CASE m # l
        BY <2>1, <2>3, <3>2, <3>3, <3>4
      <3>5. CASE m = l /\ lists[l].room = 0
        <4>1. lists[l].count = 0
          BY <1>1, <3>5 DEF ListsTypeOK
        <4>2. kept[l] = {} /\ Moved(l) \subseteq kept[l]
          BY <3>3, <3>5, <4>1 DEF Moved
        <4>. QED BY <2>1, <2>3, <3>2, <3>3, <3>5, <4>2
      <3>6. CASE m = l /\ lists[l].room # 0
        <4>1. Moved(l) = kept[l]
          BY <1>3, <1>6, <3>1, <3>6, MovedWhole
        <4>. QED BY <2>1, <2>3, <3>2, <3>3, <3>6, <4>1
      <3>. QED BY <3>4, <3>5, <3>6
    <2>6. PlacesAligned'
      BY <1>1, <1>6, AddedAligned
    <2>7. OwnMemory' /\ \A m \in Names : Sized(m)'
      BY <1>3, <1>6, AddedGrown
    <2>. QED BY <1>2, <2>4, <2>5, <2>6, <2>7 DEF KeptIInv
  <1>7. CASE /\ ended' = "no" /\ lists[l].room # 0
             /\ lists[l].block \in 1..Len(blocks)
             /\ ResizeInPlace(lists[l].block, old, new)
    <2>1. PICK b \in 1..Len(blocks) : b = lists[l].block
      BY <1>7
    <2>2. ResizeInPlace(b, old, new)
      BY <1>7, <2>1
    <2>3. PlacesAligned' /\ OwnMemory' /\ \A m \in Names : Sized(m)'
      BY <1>3, <1>7, <2>1, <2>2, InPlaceGrown
    <2>4. /\ \A m \in Names : lists'[m].count = lists[m].count
          /\ kept' = Without(cleared')
      <3>1. result' = b
        BY <1>1, <2>2, InPlaceBlocks
      <3>. QED BY <1>7, <2>1, <3>1, GrownLists
    <2>5. kept' \in [Names -> SUBSET Nat]
      BY <2>4 DEF KeptIInv, Without
    <2>6. KeptWhileSmall'
      <3> SUFFICES ASSUME Small', NEW m \in Names PROVE kept'[m] = 1..lists'[m].count
        BY DEF KeptWhileSmall
      <3>1. Small /\ l \in {Pls, Vec}
        BY <1>5, <1>7
      <3>2. Without(cleared') = kept
        BY <1>3, <2>1, <2>2, <3>1, InPlaceSpares
      <3>. QED BY <2>4, <3>1, <3>2 DEF KeptIInv, KeptWhileSmall
    <2>. QED BY <1>2, <2>3, <2>5, <2>6 DEF KeptIInv
  <1>. QED BY <1>3, <1>4, <1>6, <1>7, GrowOutcomes

\* An element is written to its own list's memory only, as far as the lists
\* are small.
LEMMA PutKeepsHeld ==
    ASSUME KeptIInv, NEW l \in Names, Put(l)
    PROVE  KeptIInv'
  <1>1. ListsIInv /\ IInv /\ ListsTypeOK /\ PlacesAligned /\ ~Full(l)
    BY DEF KeptIInv, ListsIInv, Put
  <1>2. ListsIInv' /\ ListsTypeOK'
    BY <1>1, PutKeeps DEF ListsIInv
  <1>3. PICK k \in Nat \ {0} : k = lists[l].count + 1
    BY <1>1 DEF ListsTypeOK
  <1>4. PICK stretch : stretch = [arena |-> blocks[lists[l].block].arena, at |-> From(l, k),
                                  size |-> Elem(l)]
    OBVIOUS
  <1>5. /\ blocks' = blocks
        /\ kept' = [Without(stretch) EXCEPT ![l] = kept[l] \union {k}]
    BY <1>3, <1>4 DEF Put
  <1>6. /\ lists \in [Names -> [block : 0..Len(blocks), count : Nat, room : Nat]]
        /\ kept \in [Names -> SUBSET Nat] /\ Without(stretch) \in [Names -> SUBSET Nat]
    BY <1>1 DEF ListsTypeOK, KeptIInv, Without
  <1>7. /\ \A m \in Names : lists'[m].block = lists[m].block /\ lists'[m].room = lists[m].room
        /\ \A m \in Names : m # l => lists'[m].count = lists[m].count
        /\ lists'[l].count = k
    BY <1>3, <1>6 DEF Put
  <1>8. kept' \in [Names -> SUBSET Nat]
    BY <1>5, <1>6
  <1>9. PlacesAligned' /\ OwnMemory' /\ \A m \in Names : Sized(m)'
    BY <1>5, <1>7 DEF KeptIInv, PlacesAligned, OwnMemory, Sized
  <1>10. ASSUME Small' PROVE Small /\ Without(stretch) = kept
    <2>1. Small
      <3>1. \A m \in Names : lists[m].count <= lists'[m].count /\ lists[m].room <= lists'[m].room
        <4>1. TAKE m \in Names
        <4>2. lists[m].count \in Nat /\ lists[m].room \in Nat /\ lists'[m].room = lists[m].room
          BY <1>6, <1>7
        <4>3. lists'[m].count = lists[m].count \/ lists'[m].count = lists[m].count + 1
          BY <1>3, <1>7
        <4>. QED BY <4>2, <4>3
      <3>. QED BY <1>1, <1>2, <1>10, <3>1, SmallBefore
    <2>2. Within(l, k)
      <3>1. k <= lists[l].room
        BY <1>1, <1>3, <1>6 DEF Full
      <3>2. l = DataVars => k <= 2
        BY <1>7, <1>10 DEF Small
      <3>. QED BY <2>1, <3>1, <3>2, ElementWithin
    <2>3. PICK b \in 1..Len(blocks) : b = lists[l].block
      BY <2>2 DEF Within
    <2>4. /\ blocks[b].arena \in Nat /\ blocks[b].at \in Nat /\ After(b) \in Nat
          /\ Len(blocks) \in Nat
      BY <1>1, BlockTypes
    <2>5. PICK from \in Nat, elem \in Nat : from = From(l, k) /\ elem = Elem(l)
      BY <2>2 DEF Within
    <2>6. /\ from >= blocks[b].at
          /\ from + elem <= After(b) \/ from + elem <= blocks[b].at + 16
      BY <2>2, <2>3, <2>5 DEF Within
    <2>7. stretch \in Stretch /\ stretch.arena = blocks[b].arena /\ stretch.at = from
          /\ stretch.size = elem
      BY <1>4, <2>3, <2>4, <2>5 DEF Stretch
    <2>8. ASSUME NEW m \in Names, m # l, NEW j \in kept[m] PROVE ~Meets(m, j, stretch)
      <3>1. /\ j \in Nat \ {0} /\ j <= lists[m].room /\ Sized(m) /\ Sized(l)
            /\ m = DataVars => j <= 2
        <4>1. /\ kept[m] \subseteq 1..lists[m].count /\ lists[m].count <= lists[m].room
              /\ lists[m].count \in Nat /\ lists[m].room \in Nat
          BY <1>1 DEF ListsTypeOK
        <4>2. m = DataVars => lists[m].count <= 2
          BY <2>1 DEF Small
        <4>. QED BY <4>1, <4>2 DEF KeptIInv
      <3>2. PICK c \in 1..Len(blocks) : c = lists[m].block
        BY <2>1, <3>1, ElementWithin DEF Within
      <3>3. b # 0 /\ c # 0 /\ b # c
        BY <2>3, <2>4, <2>8, <3>2 DEF KeptIInv, OwnMemory
      <3>4. ASSUME blocks[c].arena = blocks[b].arena
            PROVE  \/ After(c) <= stretch.at /\ blocks[c].at + 16 <= stretch.at
                   \/ stretch.at + stretch.size <= blocks[c].at
        <4>1. blocks[b].arena # 0
          BY <2>3, <2>8, <3>1, <3>2, <3>3, <3>4 DEF Sized
        <4>2. Gap(b, c)
          BY <1>1, <3>3, <3>4, <4>1, GapsThere DEF Gaps, InPool
        <4>3. PICK at \in Nat, end \in Nat, place \in Nat, last \in Nat :
                at = blocks[b].at /\ end = After(b) /\ place = blocks[c].at /\ last = After(c)
          BY <1>1, <2>4, BlockTypes
        <4>4. \/ end <= place /\ at + 16 <= place
              \/ last <= at /\ place + 16 <= at
          BY <4>2, <4>3 DEF Gap
        <4>5. from >= at /\ (from + elem <= end \/ from + elem <= at + 16)
          BY <2>6, <4>3
        <4>6. \/ last <= from /\ place + 16 <= from
              \/ from + elem <= place
          BY <4>4, <4>5
        <4>. QED BY <2>7, <4>3, <4>6
      <3>. QED BY <2>1, <2>7, <3>2, <3>4, Spared
    <2>9. ASSUME NEW j \in kept[l] PROVE ~Meets(l, j, stretch)
      <3>1. j \in 1..lists[l].count /\ lists[l].count \in Nat /\ lists[l].room \in Nat
            /\ lists[l].count <= lists[l].room
        BY <1>1 DEF ListsTypeOK
      <3>2. j \in Nat \ {0} /\ j <= lists[l].room /\ j <= k - 1
        BY <1>3, <3>1
      <3>3. From(l, j) + Elem(l) <= stretch.at
        <4>1. PICK at \in Nat : at = blocks[b].at
          BY <2>4
        <4>2. From(l, j) = at + (j - 1) * elem /\ from = at + (k - 1) * elem
          BY <2>3, <2>5, <4>1 DEF From
        <4>3. elem \in {24, 16, 8, 4}
          BY <2>5, ListKinds
        <4>4. at + (j - 1) * elem + elem <= at + (k - 1) * elem
          <5>1. j \in Nat /\ j + 1 <= k
            BY <3>2
          <5>2. CASE elem = 24
            BY <4>1, <5>1, <5>2
          <5>3. CASE elem = 16
            BY <4>1, <5>1, <5>3
          <5>4. CASE elem = 8
            BY <4>1, <5>1, <5>4
          <5>5. CASE elem = 4
            BY <4>1, <5>1, <5>5
          <5>. QED BY <4>3, <5>2, <5>3, <5>4, <5>5
        <4>. QED BY <2>5, <2>7, <4>2, <4>4
      <3>. QED BY <2>1, <2>7, <3>3, Spared
    <2>. QED BY <2>1, <2>8, <2>9, AllSpared
  <1>11. KeptWhileSmall'
    <2> SUFFICES ASSUME Small', NEW m \in Names PROVE kept'[m] = 1..lists'[m].count
      BY DEF KeptWhileSmall
    <2>1. kept[m] = 1..lists[m].count /\ Without(stretch) = kept
      BY <1>10 DEF KeptIInv, KeptWhileSmall
    <2>2. CASE m # l
      BY <1>5, <1>6, <1>7, <2>1, <2>2
    <2>3. CASE m = l
      <3>1. 1..k = (1..lists[l].count) \union {k}
        BY <1>3, <1>6
      <3>. QED BY <1>5, <1>6, <1>7, <2>1, <2>3, <3>1
    <2>. QED BY <2>2, <2>3
  <1>. QED BY <1>2, <1>8, <1>9, <1>11 DEF KeptIInv

\* The heap's memory is none of the pool's, and new to the vector.
LEMMA VecInitKeepsHeld ==
    ASSUME KeptIInv, VecInit
    PROVE  KeptIInv'
  <1>1. ListsIInv /\ ListsTypeOK /\ Vec \in Names
    BY DEF KeptIInv, ListsIInv, Names
  <1>2. ListsIInv' /\ ListsTypeOK'
    BY <1>1, VecInitKeeps DEF ListsIInv
  <1>3. PICK size : size = Elem(Vec) * DefaultVecSize
    OBVIOUS
  <1>4. /\ result' = Len(blocks) + 1
        /\ blocks' = Append(blocks, [arena |-> 0, at |-> 0, size |-> size])
        /\ blocks \in Seq(Block) /\ Len(blocks) \in Nat /\ kept' = kept
        /\ size \in Nat \ {0}
    <2>1. size \in Nat \ {0}
      BY <1>1, <1>3, ListKinds, ListsAssumption
    <2>. QED BY <1>1, <1>3, <2>1 DEF VecInit, HeapAlloc, ListsIInv, IInv, TypeOK
  <1>5. /\ Len(blocks') = Len(blocks) + 1
        /\ blocks'[Len(blocks) + 1] = [arena |-> 0, at |-> 0, size |-> size]
        /\ \A b \in 1..Len(blocks) : blocks'[b] = blocks[b]
    BY <1>4
  <1>6. /\ lists \in [Names -> [block : 0..Len(blocks), count : Nat, room : Nat]]
        /\ lists[Vec].room = 0
        /\ lists' = [lists EXCEPT ![Vec] = [block |-> result', count |-> @.count,
                                            room |-> DefaultVecSize]]
    BY <1>1 DEF ListsTypeOK, VecInit
  <1>7. /\ lists'[Vec].block = Len(blocks) + 1 /\ lists'[Vec].count = lists[Vec].count
        /\ lists'[Vec].room = DefaultVecSize
        /\ \A m \in Names : m # Vec => lists'[m] = lists[m]
    BY <1>1, <1>4, <1>6
  <1>8. PlacesAligned'
    <2>1. ASSUME NEW b \in 1..Len(blocks') PROVE blocks'[b].at % 16 = 0
      <3>1. CASE b \in 1..Len(blocks)
        BY <1>5, <3>1 DEF KeptIInv, PlacesAligned
      <3>2. CASE b = Len(blocks) + 1
        BY <1>5, <3>2
      <3>. QED BY <1>4, <1>5, <3>1, <3>2
    <2>. QED BY <2>1 DEF PlacesAligned
  <1>9. OwnMemory'
    BY <1>4, <1>6, <1>7 DEF KeptIInv, OwnMemory
  <1>10. ASSUME NEW m \in Names PROVE Sized(m)'
    <2>1. CASE m = Vec
      <3>1. Bytes(Vec, DefaultVecSize) = size /\ Vec # DataVars
        BY <1>1, <1>3, ListKinds
      <3>2. Len(blocks) + 1 # 0 /\ DefaultVecSize # 0
        BY <1>4, ListsAssumption
      <3>. QED BY <1>5, <1>7, <2>1, <3>1, <3>2 DEF Sized
    <2>2. CASE m # Vec
      <3>1. lists'[m] = lists[m] /\ lists[m].block \in 0..Len(blocks) /\ Sized(m)
        BY <1>6, <1>7, <2>2 DEF KeptIInv
      <3>2. lists[m].block # 0 => blocks'[lists[m].block] = blocks[lists[m].block]
        BY <1>4, <1>5, <3>1
      <3>. QED BY <3>1, <3>2 DEF Sized
    <2>. QED BY <2>1, <2>2
  <1>11. KeptWhileSmall'
    <2> SUFFICES ASSUME Small' PROVE \A m \in Names : kept'[m] = 1..lists'[m].count
      BY DEF KeptWhileSmall
    <2>1. \A m \in Names : lists'[m].count = lists[m].count
      BY <1>7
    <2>2. \A m \in Names : lists[m].count \in Nat /\ lists[m].room \in Nat
      BY <1>6
    <2>3. \A m \in Names : lists[m].count <= lists'[m].count /\ lists[m].room <= lists'[m].room
      BY <1>6, <1>7, <2>1, <2>2, ListsAssumption
    <2>4. Small
      BY <1>1, <1>2, <2>3, SmallBefore
    <2>. QED BY <1>4, <2>1, <2>4 DEF KeptIInv, KeptWhileSmall
  <1>. QED BY <1>2, <1>4, <1>8, <1>9, <1>10, <1>11 DEF KeptIInv

\* What else is handed out is cleared, and is apart from the lists.
LEMMA OtherAllocKeepsHeld ==
    ASSUME KeptIInv, OtherAlloc
    PROVE  KeptIInv'
  <1>1. ListsIInv /\ IInv /\ ListsTypeOK /\ PlacesAligned
    BY DEF KeptIInv, ListsIInv
  <1>2. ListsIInv' /\ IInv'
    BY <1>1, OtherAllocKeeps DEF ListsIInv
  <1>3. PICK size \in Nat \ {0} : Alloc(size)
    BY ListsAssumption DEF OtherAlloc
  <1>4. lists' = lists /\ kept' = Without(cleared')
    BY DEF OtherAlloc
  <1>5. kept' \in [Names -> SUBSET Nat]
    BY <1>4 DEF KeptIInv, Without
  <1>6. Added(size) \/ (blocks' = blocks /\ cleared' = Nothing)
    <2>1. \/ Give(arenas, size)
          \/ Give(Append(arenas, NewArena), size)
      BY <1>3 DEF Alloc, Obtain
    <2>2. Extended(arenas) /\ Extended(Append(arenas, NewArena))
      BY DEF Extended
    <2>. QED BY <1>1, <2>1, <2>2, GiveAdds
  <1>7. /\ \A b \in 1..Len(blocks) : blocks'[b] = blocks[b]
        /\ PlacesAligned'
    <2>1. CASE Added(size)
      BY <1>1, <2>1, AddedBlocks, AddedAligned
    <2>2. CASE blocks' = blocks
      BY <1>1, <2>2 DEF PlacesAligned
    <2>. QED BY <1>6, <2>1, <2>2
  <1>8. OwnMemory'
    BY <1>4 DEF KeptIInv, OwnMemory
  <1>9. ASSUME NEW m \in Names PROVE Sized(m)'
    <2>1. lists[m].block \in 0..Len(blocks) /\ Sized(m) /\ Len(blocks) \in Nat
      BY <1>1 DEF KeptIInv, ListsTypeOK, IInv, TypeOK
    <2>2. lists[m].block # 0 => blocks'[lists[m].block] = blocks[lists[m].block]
      BY <1>7, <2>1
    <2>. QED BY <1>4, <2>1, <2>2 DEF Sized
  <1>10. KeptWhileSmall'
    <2> SUFFICES ASSUME Small PROVE kept' = kept
      BY <1>4 DEF KeptIInv, KeptWhileSmall, Small
    <2>1. CASE Added(size)
      BY <1>2, <1>4, <2>1, AddedSpares
    <2>2. CASE cleared' = Nothing
      <3>1. ASSUME NEW m \in Names, NEW k \in kept[m] PROVE ~Meets(m, k, Nothing)
        <4>1. /\ k \in Nat \ {0} /\ k <= lists[m].room
              /\ m = DataVars => k <= 2
          <5>1. /\ kept[m] \subseteq 1..lists[m].count /\ lists[m].count <= lists[m].room
                /\ lists[m].count \in Nat /\ lists[m].room \in Nat
            BY <1>1 DEF ListsTypeOK
          <5>2. m = DataVars => lists[m].count <= 2
            BY DEF Small
          <5>. QED BY <5>1, <5>2
        <4>2. From(m, k) \in Nat
          BY <4>1, ElementWithin DEF Within
        <4>. QED BY <4>2 DEF Meets, Nothing
      <3>. QED BY <1>4, <2>2, <3>1, AllSpared
    <2>. QED BY <1>6, <2>1, <2>2
  <1>. QED BY <1>2, <1>5, <1>7, <1>8, <1>9, <1>10 DEF KeptIInv

\* At first nothing is held.
LEMMA HeldAtFirst == ListsInit => KeptIInv
  <1> SUFFICES ASSUME ListsInit PROVE KeptIInv
    OBVIOUS
  <1>1. /\ ListsIInv
        /\ lists = [l \in Names |-> [block |-> 0, count |-> 0, room |-> 0]]
        /\ kept = [l \in Names |-> {}] /\ Len(blocks) = 0
    BY ListsInitHolds DEF ListsInit, Init
  <1>2. kept \in [Names -> SUBSET Nat] /\ PlacesAligned /\ OwnMemory
    BY <1>1 DEF PlacesAligned, OwnMemory
  <1>3. \A l \in Names : Sized(l)
    BY <1>1 DEF Sized
  <1>4. KeptWhileSmall
    BY <1>1 DEF KeptWhileSmall
  <1>. QED BY <1>1, <1>2, <1>3, <1>4 DEF KeptIInv

\* A step of the lists keeps what they hold, while they are small.
LEMMA HeldStepKeeps == KeptIInv /\ [ListsNext]_vars => KeptIInv'
  <1> SUFFICES ASSUME KeptIInv, [ListsNext]_vars PROVE KeptIInv'
    OBVIOUS
  <1>1. CASE UNCHANGED vars
    <2>1. UNCHANGED arenaVars /\ lists' = lists /\ kept' = kept /\ blocks' = blocks
      BY <1>1 DEF vars, arenaVars
    <2>2. ListsIInv'
      <3>1. ListsIInv
        BY DEF KeptIInv
      <3>. QED BY <1>1, <3>1, UnchangedKeeps
    <2>. QED BY <2>1, <2>2 DEF KeptIInv, PlacesAligned, OwnMemory, Sized, KeptWhileSmall, Small
  <1>. QED BY <1>1, GrowKeepsHeld, PutKeepsHeld, VecInitKeepsHeld, OtherAllocKeepsHeld
       DEF ListsNext

\* The invariant of what the lists hold: each has memory of its own, of the
\* size it asked for, and what was put into it is there while it is small.
THEOREM KeptInvariance == ListsSpec => []KeptIInv
  <1>. QED BY HeldAtFirst, HeldStepKeeps, PTL DEF ListsSpec

\* So the wrong sizes that two of the lists give pool_resize (x64.c:133-137,
\* x64.c:181-185) do no harm until there is a third literal or the locations of
\* an entry grow for the second time.
THEOREM NothingLostWhileSmall == ListsSpec => []KeptWhileSmall
  <1>1. KeptIInv => KeptWhileSmall
    BY DEF KeptIInv
  <1>. QED BY <1>1, KeptInvariance, PTL

=============================================================================
