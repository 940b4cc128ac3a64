------------------------------- MODULE Arena -------------------------------
(***************************************************************************)
(* The memory pool of src/src/base.h: a pool hands out memory from the     *)
(* last of its arenas, begins a new arena when that one is full, and       *)
(* resizes a block where it is if it was handed out last, else by a copy.  *)
(*                                                                         *)
(* A place in an arena is counted from its header, which malloc aligns, so *)
(* that memory is handed out from "Header" up to PoolSize.  Blocks are     *)
(* known by the order in which they were handed out; one that has moved    *)
(* stays, as the memory of an arena is never used again.  Arena 0 is the   *)
(* C library's heap, where vec_init gets its memory.  A realloc that fails *)
(* and the sizes at which size_t wraps are left out.                       *)
(*                                                                         *)
(* A definition that is only a faulty variant of the next one is named for *)
(* its fault; it shows that a property notices that fault.                 *)
(***************************************************************************)
EXTENDS Integers, Sequences

CONSTANTS PoolSize,     \* pool_size
          Header        \* sizeof(M_Arena)

ASSUME PoolAssumption == Header \in Nat /\ PoolSize \in Nat /\ Header <= PoolSize

VARIABLES debug,        \* whether Assert stops the program
          arenas,       \* the pool's arenas, first to last
          blocks,       \* the memory handed out
          result,       \* what the last call returned
          copied,       \* how many bytes it copied there
          cleared,      \* the memory it cleared, from its first byte on
          ended         \* "no", or how the program ended

arenaVars == <<debug, arenas, blocks, result, copied, cleared, ended>>

NULL == 0
Heap == 0
DefaultAlignment == 16

Arena == [prev : Nat, curr : Nat]
Block == [arena : Nat, at : Nat, size : Nat \ {0}]
Stretch == [arena : Nat, at : Nat, size : Nat]
Nothing == [arena |-> Heap, at |-> 0, size |-> 0]

Init == /\ debug \in BOOLEAN
        /\ arenas = <<[prev |-> Header, curr |-> Header]>>
        /\ blocks = <<>>
        /\ result = NULL
        /\ copied = 0
        /\ cleared = Nothing
        /\ ended = "no"

-----------------------------------------------------------------------------
(* The last arena of some arenas *)

AlignForward(p) ==
    IF p % DefaultAlignment = 0 THEN p ELSE p + (DefaultAlignment - (p % DefaultAlignment))

NewArena == [prev |-> Header, curr |-> Header]
Place(list) == AlignForward(list[Len(list)].curr)

HasRoomUnaligned(list, size) == list[Len(list)].curr + size <= PoolSize + DefaultAlignment

HasRoom(list, size) == Place(list) + size <= PoolSize

Taken(list, size) ==
    [list EXCEPT ![Len(list)] = [prev |-> Place(list), curr |-> Place(list) + size]]

\* arena_alloc_align on the last of these arenas, which the pool then has.
Give(list, size) ==
    IF HasRoom(list, size)
      THEN /\ arenas' = Taken(list, size)
           /\ blocks' = Append(blocks, [arena |-> Len(list), at |-> Place(list), size |-> size])
           /\ result' = Len(blocks) + 1
           /\ cleared' = [arena |-> Len(list), at |-> Place(list), size |-> size]
      ELSE /\ arenas' = list
           /\ blocks' = blocks
           /\ result' = NULL
           /\ cleared' = Nothing

\* A new arena of the same size is begun, even if it does not help.
Obtain(size) ==
    Give(IF HasRoom(arenas, size) THEN arenas ELSE Append(arenas, NewArena), size)

Running == ended = "no" /\ UNCHANGED debug
End(how) == ended' = how /\ UNCHANGED <<arenas, blocks, result, copied, cleared>>

-----------------------------------------------------------------------------
(* pool_alloc, pool_resize, and the malloc of vec_init *)

Alloc(size) == /\ Running
               /\ Obtain(size)
               /\ copied' = 0
               /\ UNCHANGED ended

HeapAlloc(size) == /\ Running
                   /\ blocks' = Append(blocks, [arena |-> Heap, at |-> 0, size |-> size])
                   /\ result' = Len(blocks) + 1
                   /\ copied' = 0
                   /\ cleared' = Nothing
                   /\ UNCHANGED <<arenas, ended>>

InLastArenaAssumed(b) == TRUE

InLastArena(b) == blocks[b].arena = Len(arenas)

HandedOutLastAnywhere(b) == InLastArena(b)

HandedOutLast(b) == InLastArena(b) /\ blocks[b].at = arenas[Len(arenas)].prev

\* The arena's length is not looked at, and what is cleared begins at the new end.
ResizeInPlace(b, old, new) ==
    /\ HandedOutLast(b)
    /\ arenas' = [arenas EXCEPT ![Len(arenas)].curr = blocks[b].at + new]
    /\ blocks' = [blocks EXCEPT ![b].size = new]
    /\ result' = b
    /\ copied' = new
    /\ cleared' = IF new > old THEN [arena |-> Len(arenas), at |-> blocks[b].at + new,
                                     size |-> new - old]
                              ELSE Nothing
    /\ UNCHANGED ended

\* A full arena gives NULL, and the copy is made nevertheless.
ResizeByCopy(b, old, new) ==
    /\ InLastArena(b) /\ ~HandedOutLast(b)
    /\ IF HasRoom(arenas, new)
         THEN /\ Give(arenas, new)
              /\ copied' = IF old < new THEN old ELSE new
              /\ UNCHANGED ended
         ELSE End("crash")

\* Memory of an earlier arena, and of none: an Assert, without which the copy
\* is made into a new arena.
ResizeOutside(b, old, new) ==
    /\ ~InLastArena(b)
    /\ CASE debug -> End("assert")
         [] ~debug /\ ~HasRoom(<<NewArena>>, new) -> End("crash")
         [] OTHER -> /\ Give(Append(arenas, NewArena), new)
                     /\ copied' = old
                     /\ UNCHANGED ended

\* The sizes are those the caller claims.
Resize(b, old, new) ==
    IF b = NULL \/ old = 0
      THEN Alloc(new)
      ELSE /\ Running
           /\ \/ ResizeInPlace(b, old, new)
              \/ ResizeByCopy(b, old, new)
              \/ ResizeOutside(b, old, new)

Next == \/ \E size \in Nat \ {0} : Alloc(size) \/ HeapAlloc(size)
        \/ \E b \in 0..Len(blocks), old \in Nat, new \in Nat \ {0} : Resize(b, old, new)

Spec == Init /\ [][Next]_arenaVars

-----------------------------------------------------------------------------
(* Properties *)

TypeOK == /\ debug \in BOOLEAN
          /\ arenas \in Seq(Arena) /\ arenas # <<>>
          /\ blocks \in Seq(Block)
          /\ result \in 0..Len(blocks)
          /\ copied \in Nat
          /\ cleared \in Stretch
          /\ ended \in {"no", "assert", "crash"}

After(b) == blocks[b].at + blocks[b].size
InPool(b) == blocks[b].arena # Heap
Apart(b, c) == blocks[b].arena # blocks[c].arena \/ After(b) <= blocks[c].at
                                                 \/ After(c) <= blocks[b].at

\* No two blocks of an arena have a byte in common, however its callers mix
\* allocations, growth in place and moves, and whatever old sizes they claim
\* (arena_resize_align grows a block without looking at what is behind it).
BlocksApart ==
    \A b, c \in 1..Len(blocks) : b # c /\ InPool(b) => Apart(b, c)

\* At most the last block of an arena reaches past the arena's end (growth in
\* place does not look at the length), and nothing is handed out behind it.
OnlyLastOutside ==
    \A b \in 1..Len(blocks) :
      InPool(b) /\ After(b) > PoolSize =>
        /\ blocks[b].at = arenas[blocks[b].arena].prev
        /\ \A c \in 1..Len(blocks) \ {b} :
             blocks[c].arena = blocks[b].arena => After(c) <= blocks[b].at
=============================================================================
