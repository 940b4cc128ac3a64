------------------------------ MODULE Builder ------------------------------
(***************************************************************************)
(* The machine-code Builder of src/src/x64.c and the address patching of   *)
(* src/src/main.c and src/src/pe.c.                                        *)
(*                                                                         *)
(* e_label, e_lit and e_cfunction give a name an entry of the table of     *)
(* Patch_Locations and return an operand that holds the entry's index; an  *)
(* instruction with such an operand ends with four bytes to patch and adds *)
(* their location to the entry; after the last instruction the locations   *)
(* of every entry a map points to are overwritten with its address.        *)
(*                                                                         *)
(* The maps hold pointers INTO the table.  When the table is full it       *)
(* grows: in place if it is the arena's last allocation, else by a copy,   *)
(* and then the pointers still lead to the old table.  A pointer is        *)
(* modelled by the number of the table it leads into and an index.         *)
(*                                                                         *)
(* This is the debug build.  The caller does not copy an operand, asks for *)
(* at most 7 names of a kind (the maps do not grow), and its program fits  *)
(* the first arena of the pool.                                            *)
(*                                                                         *)
(* A definition that is only a faulty variant of the next one is named for *)
(* its fault; it shows that a property notices that fault.                 *)
(***************************************************************************)
EXTENDS Integers, Sequences, FiniteSets

CONSTANTS Labels, Literals, Functions,  \* the names, by the map they are in
          LitSize,        \* the size of a literal, with its NUL
          InstSize,       \* the size of an instruction with a 4-byte operand
          DataBase,       \* where main.c expects .data to be loaded
          LitRoom,        \* literals that fit what e_lit allocates: 32 bytes
          NULL,
          MaxRequests,    \* bound: operands asked for
          MaxSites        \* bound: instructions with an operand

Names == Labels \union Literals \union Functions

ASSUME KindsApart == /\ Labels \intersect Literals = {}
                     /\ Labels \intersect Functions = {}
                     /\ Literals \intersect Functions = {}
ASSUME LitSizeAssumption == LitSize \in [Literals -> Nat \ {0}]
ASSUME SizesAssumption == /\ InstSize \in Nat /\ InstSize >= 5
                          /\ DataBase \in Nat /\ LitRoom \in Nat
ASSUME NullAssumption == NULL \notin Int /\ NULL \notin Functions
ASSUME BoundsAssumption == MaxRequests \in Nat /\ MaxSites \in Nat

VARIABLES bytes,    \* bytes_count
          tables,   \* every table of Patch_Locations there was; the last is pls
          room,     \* pls_sz
          last,     \* whether pls is the arena's last allocation
          maps,     \* pls_maps: the entry each name points to
          lits,     \* data_vars
          datasize, \* current_data_variable_location
          ops,      \* the operands handed to the caller
          sites,    \* the instructions emitted with an operand
          code,     \* the address in the bytes of each of them
          pc

vars == <<bytes, tables, room, last, maps, lits, datasize, ops, sites, code, pc>>

Entry == [rva : Nat, locs : SUBSET Nat]
Pointer == [table : Nat, idx : Nat]

Gen == Len(tables)
pls == tables[Gen]
NoEntry == [table |-> 0, idx |-> 0]
At(p) == tables[p.table][p.idx]

Init == /\ bytes = 0
        /\ tables = << <<>> >>
        /\ room = 0
        /\ last = TRUE
        /\ maps = [n \in Names |-> NoEntry]
        /\ lits = <<>>
        /\ datasize = 0
        /\ ops = <<>>
        /\ sites = <<>>
        /\ code = <<>>
        /\ pc = "build"

-----------------------------------------------------------------------------
(* get_patch_location *)

Full == Len(pls) >= room

\* pool_resize: the table grows where it is, or moves.
NewEntry(entry) == IF Full /\ ~last THEN Append(tables, Append(pls, entry))
                                   ELSE [tables EXCEPT ![Gen] = Append(pls, entry)]

\* A name gets a new entry if it has none, and also if it has one in the
\* current table: the test of the index is inverted.
Fresh(n) == maps[n].table \in {0, Gen}

AddEntry(n, rva) ==
    /\ Fresh(n)
    /\ tables' = NewEntry([rva |-> rva, locs |-> {}])
    /\ room' = IF Full THEN (room + 1) * 2 ELSE room
    /\ maps' = [maps EXCEPT ![n] = [table |-> Len(tables'), idx |-> Len(pls) + 1]]
    /\ ops' = Append(ops, [name |-> n, rva |-> rva, table |-> Len(tables'),
                           idx |-> Len(pls) + 1, patched |-> TRUE])

\* Else the index is the distance from the current table to an old one, which
\* is before it in the arena: no index of the table.
StaleEntry(n, rva) ==
    /\ ~Fresh(n)
    /\ ops' = Append(ops, [name |-> n, rva |-> rva, table |-> Gen,
                           idx |-> 0, patched |-> TRUE])
    /\ UNCHANGED <<tables, room, maps>>

Request(n, rva) ==
    /\ pc = "build"
    /\ Len(ops) < MaxRequests
    /\ AddEntry(n, rva) \/ StaleEntry(n, rva)

Label(n) ==
    /\ Request(n, bytes)
    /\ last' = (last \/ Len(tables') # Gen)
    /\ UNCHANGED <<bytes, lits, datasize, sites, code, pc>>

CFunction(n) ==
    /\ Request(n, 0)
    /\ last' = (last \/ Len(tables') # Gen)
    /\ UNCHANGED <<bytes, lits, datasize, sites, code, pc>>

\* where the next literal goes, after the NUL of this one
NextPlace(n) == datasize + LitSize[n]

\* e_lit also adds the literal to data_vars, for which the first one
\* allocates; it takes the size in bytes for the number of elements, so that
\* it never allocates again before it has written past the end.
Literal(n) ==
    /\ Request(n, datasize)
    /\ datasize' = NextPlace(n)
    /\ lits' = Append(lits, n)
    /\ last' = (lits # <<>> /\ (last \/ Len(tables') # Gen))
    /\ pc' = IF Len(lits) < LitRoom THEN pc ELSE "overrun"
    /\ UNCHANGED <<bytes, sites, code>>

-----------------------------------------------------------------------------
(* inst1 and inst2 with an operand of kind LAYOUT_V *)

Emit(k) ==
    /\ bytes' = bytes + InstSize
    /\ sites' = Append(sites, [op |-> k, end |-> bytes + InstSize,
                               table |-> Gen, recorded |-> ops[k].patched])
    /\ code' = Append(code, NULL)

\* the location handed to set_patch_location, once the instruction is emitted
LocationAtEnd == bytes + InstSize
Location == bytes + InstSize - 4

\* set_patch_location; the operand is overwritten with a plain one.  The
\* entry's array of locations is allocated.
InstPatched(k) ==
    /\ pc = "build"
    /\ Len(sites) < MaxSites
    /\ ops[k].patched
    /\ ops[k].idx # 0
    /\ Emit(k)
    /\ tables' = [tables EXCEPT ![Gen][ops[k].idx].locs = @ \union {Location}]
    /\ ops' = [ops EXCEPT ![k].patched = FALSE]
    /\ last' = FALSE
    /\ UNCHANGED <<room, maps, lits, datasize, pc>>

\* The Assert of set_patch_location stops at an index out of the table.
InstStale(k) ==
    /\ pc = "build"
    /\ Len(sites) < MaxSites
    /\ ops[k].patched
    /\ ops[k].idx = 0
    /\ pc' = "assert"
    /\ UNCHANGED <<bytes, tables, room, last, maps, lits, datasize, ops, sites, code>>

\* The caller uses an operand that an instruction has made plain.
InstPlain(k) ==
    /\ pc = "build"
    /\ Len(sites) < MaxSites
    /\ ~ops[k].patched
    /\ Emit(k)
    /\ UNCHANGED <<tables, room, last, maps, lits, datasize, ops, pc>>

-----------------------------------------------------------------------------
(* The patching *)

AddressFromStart(n, rva, loc) ==
    CASE n \in Labels   -> rva - loc
      [] n \in Literals -> rva + DataBase
      [] OTHER          -> n

Address(n, rva, loc) == CASE n \in Labels   -> rva - (loc + 4)
                          [] n \in Literals -> rva + DataBase
                          [] OTHER          -> n   \* its slot in the import table

\* Every entry that the map of these names points to: its address goes to its
\* locations.  The four bytes of an instruction are at the 4 before its end.
Hits(names, loc) == {n \in names : maps[n] # NoEntry /\ loc \in At(maps[n]).locs}
PatchAll(names) ==
    code' = [s \in 1..Len(sites) |->
               IF Hits(names, sites[s].end - 4) = {}
                 THEN code[s]
                 ELSE LET n == CHOOSE n \in Hits(names, sites[s].end - 4) : TRUE
                      IN  Address(n, At(maps[n]).rva, sites[s].end - 4)]

PatchLabels ==
    /\ pc = "build"
    /\ PatchAll(Labels)
    /\ pc' = "labels"
    /\ UNCHANGED <<bytes, tables, room, last, maps, lits, datasize, ops, sites>>

PatchLiterals ==
    /\ pc = "labels"
    /\ PatchAll(Literals)
    /\ pc' = "literals"
    /\ UNCHANGED <<bytes, tables, room, last, maps, lits, datasize, ops, sites>>

PatchFunctions ==
    /\ pc = "literals"
    /\ PatchAll(Functions)
    /\ pc' = "done"
    /\ UNCHANGED <<bytes, tables, room, last, maps, lits, datasize, ops, sites>>

-----------------------------------------------------------------------------

Ask == \/ \E n \in Labels : Label(n)
       \/ \E n \in Literals : Literal(n)
       \/ \E n \in Functions : CFunction(n)
Inst == \E k \in 1..Len(ops) : InstPatched(k) \/ InstStale(k) \/ InstPlain(k)
Patch == PatchLabels \/ PatchLiterals \/ PatchFunctions

Next == Ask \/ Inst \/ Patch

Spec == Init /\ [][Next]_vars

-----------------------------------------------------------------------------
(* Properties *)

TypeOK ==
    /\ bytes \in Nat /\ room \in Nat /\ datasize \in Nat
    /\ tables \in Seq(Seq(Entry)) /\ tables # <<>>
    /\ last \in BOOLEAN
    /\ maps \in [Names -> Pointer]
    /\ lits \in Seq(Literals)
    /\ ops \in Seq([name : Names, rva : Nat, table : Nat, idx : Nat, patched : BOOLEAN])
    /\ sites \in Seq([op : Nat, end : Nat, table : Nat, recorded : BOOLEAN])
    /\ code \in Seq(Int \union Functions \union {NULL}) /\ Len(code) = Len(sites)
    /\ pc \in {"build", "labels", "literals", "done", "overrun", "assert"}

Operand(s) == ops[sites[s].op]

\* The four bytes mean what the operand was asked for, as of that request: a
\* distance from the end of the instruction to the label, the literal's place
\* in the loaded .data, or the function's slot in the import table.
Means(s) ==
    CASE Operand(s).name \in Labels    -> sites[s].end + code[s] = Operand(s).rva
      [] Operand(s).name \in Literals  -> code[s] - DataBase = Operand(s).rva
      [] Operand(s).name \in Functions -> code[s] = Operand(s).name

\* The addresses e_lit gave the literals are where main.c puts them in .data,
\* one after the other in the order of data_vars, which is the order they were
\* asked for in, and there is no third one: it does not fit.
LiteralsBefore(k) == {i \in 1..(k - 1) : ops[i].name \in Literals}
BehindPrevious(k) ==
    /\ LiteralsBefore(k) = {} => ops[k].rva = 0
    /\ \A i \in LiteralsBefore(k) : LiteralsBefore(k) \subseteq 1..i =>
         ops[k].rva = ops[i].rva + LitSize[ops[i].name]
LiteralsInPlace ==
    /\ Cardinality(LiteralsBefore(Len(ops) + 1)) = Len(lits)
    /\ Len(lits) > LitRoom => pc = "overrun"
    /\ \A k \in LiteralsBefore(Len(ops) + 1) :
         /\ lits[Cardinality(LiteralsBefore(k)) + 1] = ops[k].name
         /\ BehindPrevious(k)

\* Patching never gives an instruction another name's address, nor an older
\* or a newer definition's, and a literal's is where its bytes will be: it is
\* right or it is left out (x64.c:141-188, main.c:213-231, pe.c:442-458).  The
\* variables keep their types.
OnlyOwnAddress ==
    /\ TypeOK
    /\ LiteralsInPlace
    /\ \A s \in 1..Len(sites) : code[s] # NULL => Means(s)

\* What it takes for an instruction to be patched: the first use of its
\* operand, before the table moved and with no later request for the name.
Kept(s) == /\ sites[s].recorded
           /\ sites[s].table = Operand(s).table
           /\ maps[Operand(s).name] = [table |-> Operand(s).table, idx |-> Operand(s).idx]
PatchedIfKept == pc = "done" => \A s \in 1..Len(sites) : Kept(s) <=> code[s] # NULL
=============================================================================
