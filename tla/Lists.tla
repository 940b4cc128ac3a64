------------------------------- MODULE Lists -------------------------------
(***************************************************************************)
(* The growing lists that the compiler keeps in a pool (module Arena), and *)
(* the sizes with which each of them asks for more: the Builder's table of *)
(* patch locations, the locations of each of its entries and the literals  *)
(* (src/src/x64.c), and a vector (src/src/base.h).                         *)
(*                                                                         *)
(* Of the contents only this is kept: which elements still hold what was   *)
(* written to them.  A location is smaller than 2^16 (the code is 0x1000   *)
(* bytes), so that the upper half of its four bytes is zero and survives   *)
(* being cleared.  Memory outside the blocks is not looked at, and a table *)
(* entry that was written over is not followed further.                    *)
(*                                                                         *)
(* A definition that is only a faulty variant of the next one is named for *)
(* its fault; it shows that a property notices that fault.                 *)
(***************************************************************************)
EXTENDS Arena

CONSTANTS MaxEntries,      \* bound: entries of the table
          MaxLocated,      \* bound: entries that are given locations
          MaxElements,     \* bound: elements of any other list
          MaxOthers,       \* bound: other allocations
          OtherSizes,      \* their sizes
          DefaultVecSize   \* elements a vector begins with

ASSUME ListsAssumption == /\ {MaxEntries, MaxLocated, MaxElements, MaxOthers} \subseteq Nat
                          /\ OtherSizes \subseteq Nat \ {0} /\ DefaultVecSize \in Nat \ {0}

\* The first memory of every list, the largest of which is the table's, fits.
ASSUME RoomAssumption == HasRoom(<<NewArena>>, 48)

VARIABLES lists,    \* each list's block, number of elements and claimed room
          kept,     \* the elements that hold what was written to them
          growing,  \* the list that has grown and not been written to yet
          others    \* other allocations made

vars == <<arenaVars, lists, kept, growing, others>>

None == <<"none", 0>>
Pls == <<"pls", 0>>
DataVars == <<"data_vars", 0>>
Vec == <<"vec", 0>>
Loc(k) == <<"loc", k>>
Locs == {Loc(k) : k \in 1..MaxLocated}
Names == {Pls, DataVars, Vec} \union Locs

\* sizeof(Patch_Locations), sizeof(String8), sizeof(void *), sizeof(int); and
\* how many bytes of an element may be other than zero.
Elem(l) == CASE l = Pls -> 24 [] l = DataVars -> 16 [] l = Vec -> 8 [] OTHER -> 4
Used(l) == IF l \in Locs THEN 2 ELSE Elem(l)

ListsInit == /\ Init
             /\ lists = [l \in Names |-> [block |-> NULL, count |-> 0, room |-> 0]]
             /\ kept = [l \in Names |-> {}]
             /\ growing = None
             /\ others = 0

-----------------------------------------------------------------------------
(* How a list asks for more memory *)

\* The room it claims to have afterwards, and the sizes it gives pool_resize:
\* the table counts elements and gives bytes; e_lit counts bytes where it
\* means elements; set_patch_location gives elements where bytes are meant.
NewRoom(l) ==
    LET room == lists[l].room
    IN  CASE l = DataVars -> 16 * (room + 1) * 2
          [] l = Vec      -> room * 2
          [] OTHER        -> (room + 1) * 2

BytesOfTableMissing(l, room) == IF l = Vec THEN Elem(l) * room ELSE room

Bytes(l, room) == IF l \in {Pls, Vec} THEN Elem(l) * room ELSE room

Full(l) == lists[l].count >= lists[l].room

-----------------------------------------------------------------------------
(* Memory *)

\* Where the used bytes of an element are, and whether some memory meets them.
From(l, k) == blocks[lists[l].block].at + (k - 1) * Elem(l)
Meets(l, k, stretch) ==
    /\ blocks[lists[l].block].arena = stretch.arena
    /\ From(l, k) < stretch.at + stretch.size
    /\ stretch.at < From(l, k) + Used(l)

\* The elements that are left when some memory is overwritten.
Without(stretch) == [m \in Names |-> {k \in kept[m] : ~Meets(m, k, stretch)}]

\* The elements of a list that a move copies whole.
Moved(l) == {k \in kept[l] : (k - 1) * Elem(l) + Used(l) <= copied'}

-----------------------------------------------------------------------------
(* get_patch_location, set_patch_location, e_lit and vec_push append an    *)
(* element: if the list is full it grows first.                            *)

\* An entry has locations once it is in the table; a vector begins outside
\* the pool.
Usable(l) ==
    /\ l \in Locs => l[2] \in kept[Pls]
    /\ l = Vec => lists[l].block # NULL
    /\ lists[l].count < IF l = Pls THEN MaxEntries ELSE MaxElements

Grow(l) ==
    /\ growing = None
    /\ Usable(l) /\ Full(l)
    /\ Resize(lists[l].block, Bytes(l, lists[l].room), Bytes(l, NewRoom(l)))
    /\ IF ended' = "no"
         THEN /\ lists' = [lists EXCEPT ![l] = [block |-> result', count |-> @.count,
                                            room |-> NewRoom(l)]]
              /\ kept' = IF result' = lists[l].block
                           THEN Without(cleared')
                           ELSE [Without(cleared') EXCEPT ![l] = Moved(l)]
              /\ growing' = l
         ELSE UNCHANGED <<lists, kept, growing>>
    /\ UNCHANGED others

Put(l) ==
    /\ growing \in {None, l}
    /\ Usable(l) /\ ~Full(l)
    /\ Running
    /\ lists' = [lists EXCEPT ![l].count = @ + 1]
    /\ LET k == lists[l].count + 1
       IN  kept' = [Without([arena |-> blocks[lists[l].block].arena, at |-> From(l, k),
                             size |-> Elem(l)]) EXCEPT ![l] = kept[l] \union {k}]
    /\ growing' = None
    /\ UNCHANGED <<arenas, blocks, result, copied, cleared, ended, others>>

VecInit ==
    /\ growing = None
    /\ lists[Vec].room = 0
    /\ HeapAlloc(Elem(Vec) * DefaultVecSize)
    /\ lists' = [lists EXCEPT ![Vec] = [block |-> result', count |-> @.count,
                                        room |-> DefaultVecSize]]
    /\ UNCHANGED <<kept, growing, others>>

OtherAlloc ==
    /\ growing = None
    /\ others < MaxOthers
    /\ \E size \in OtherSizes : Alloc(size)
    /\ others' = others + 1
    /\ kept' = Without(cleared')
    /\ UNCHANGED <<lists, growing>>

ListsNext == \/ \E l \in Names : Grow(l) \/ Put(l)
             \/ VecInit
             \/ OtherAlloc

ListsSpec == ListsInit /\ [][ListsNext]_vars

-----------------------------------------------------------------------------
(* Properties *)

ListsTypeOK ==
    /\ lists \in [Names -> [block : 0..Len(blocks), count : Nat, room : Nat]]
    /\ \A l \in Names : /\ lists[l].count <= lists[l].room
                        /\ kept[l] \subseteq 1..lists[l].count
    /\ growing \in Names \union {None}
    /\ others \in 0..MaxOthers

Small == /\ lists[DataVars].count <= 2
         /\ \A l \in Locs : lists[l].room <= 2

\* With at most two literals, and until the locations of an entry grow for the
\* second time, every list holds what was put into it, through any growth and
\* any move of the others.  So what is lost later is lost to the two lists
\* that ask for too little memory (x64.c:133-137, x64.c:181-185), the
\* alignment hiding it at first.
KeptWhileSmall ==
    Small => \A l \in Names : kept[l] = 1..lists[l].count

\* In the debug build no vector ever has more elements than it begins with: its
\* first memory is the heap's, and no arena takes that back.  Otherwise it
\* grows into an arena of its own, and loses nothing but to those two lists.
VectorsBounded ==
    debug => lists[Vec].count <= DefaultVecSize
=============================================================================
