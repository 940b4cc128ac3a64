--------------------------- MODULE BuilderProofs ---------------------------
(***************************************************************************)
(* Proofs about the Builder's patch locations (module Builder), for any    *)
(* names, sizes of literals and instructions, and any number of requests.  *)
(***************************************************************************)
EXTENDS Builder, FiniteSetTheorems, SequenceTheorems, TLAPS

-----------------------------------------------------------------------------
(* The inductive invariant *)

\* An operand's entry is in the table it was made in and in every later one, at
\* the same index, and it is no other operand's.
HasEntry(k) == ops[k].idx # 0
EntriesKept ==
    /\ \A k \in 1..Len(ops) : ops[k].table \in 1..Gen
    /\ \A k \in 1..Len(ops) : HasEntry(k) => \A t \in ops[k].table..Gen :
         ops[k].idx \in 1..Len(tables[t]) /\ tables[t][ops[k].idx].rva = ops[k].rva
    /\ \A j, k \in 1..Len(ops) : HasEntry(k) /\ ops[j].idx = ops[k].idx => j = k

\* A name's pointer leads to the entry of one of the operands asked for by it.
PointersLead ==
    \A n \in Names : maps[n] # NoEntry =>
      \E k \in 1..Len(ops) : /\ HasEntry(k) /\ ops[k].name = n
                             /\ maps[n] = [table |-> ops[k].table, idx |-> ops[k].idx]

\* The instructions follow one another; one that is recorded has its location
\* in its operand's entry, in its own table and in the later ones, and an entry
\* has no other locations.
SitesFollow ==
    /\ \A s \in 1..Len(sites) : /\ sites[s].op \in 1..Len(ops)
                                /\ sites[s].table \in Operand(s).table..Gen
                                /\ sites[s].recorded => HasEntry(sites[s].op)
                                /\ sites[s].end - 4 \in Nat /\ sites[s].end <= bytes
    /\ \A r, s \in 1..Len(sites) : r < s => sites[r].end < sites[s].end
LocationsOf(k, t) == {sites[s].end - 4 : s \in {r \in 1..Len(sites) :
                        sites[r].op = k /\ sites[r].recorded /\ sites[r].table <= t}}
LocationsKept ==
    \A k \in 1..Len(ops) : HasEntry(k) => \A t \in ops[k].table..Gen :
      tables[t][ops[k].idx].locs = LocationsOf(k, t)

\* The next literal goes behind the last one.
NextBehind ==
    /\ LiteralsBefore(Len(ops) + 1) = {} => datasize = 0
    /\ \A i \in LiteralsBefore(Len(ops) + 1) : LiteralsBefore(Len(ops) + 1) \subseteq 1..i =>
         datasize = ops[i].rva + LitSize[ops[i].name]

\* What has been patched so far is what is kept of the names patched so far.
NamesPatched == CASE pc = "labels"   -> Labels
                  [] pc = "literals" -> Labels \union Literals
                  [] pc = "done"     -> Names
                  [] OTHER           -> {}
PatchedSoFar ==
    \A s \in 1..Len(sites) : code[s] # NULL <=> Kept(s) /\ Operand(s).name \in NamesPatched

IInv == /\ OnlyOwnAddress
        /\ EntriesKept /\ PointersLead /\ SitesFollow /\ LocationsKept
        /\ NextBehind /\ PatchedSoFar

-----------------------------------------------------------------------------
(* The table *)

\* What the types say of the table at hand.
LEMMA TableTypes ==
    ASSUME TypeOK
    PROVE  /\ Gen \in Nat \ {0} /\ Len(ops) \in Nat /\ Len(sites) \in Nat
           /\ pls \in Seq(Entry) /\ Len(pls) \in Nat
           /\ \A t \in 1..Gen : tables[t] \in Seq(Entry) /\ Len(tables[t]) \in Nat
  BY DEF TypeOK, Gen, pls

\* A new entry is the last of the current table, which may be another one; all
\* others stay what they were (get_patch_location).
LEMMA NewEntryIsLast ==
    ASSUME TypeOK, NEW e \in Entry
    PROVE  LET new == NewEntry(e)
               gen == Len(new)
           IN  /\ new \in Seq(Seq(Entry)) /\ new # <<>>
               /\ gen = Gen \/ gen = Gen + 1
               /\ \A t \in 1..Gen : /\ Len(tables[t]) <= Len(new[t])
                                    /\ \A i \in 1..Len(tables[t]) : new[t][i] = tables[t][i]
               /\ Len(new[gen]) = Len(pls) + 1
               /\ new[gen][Len(pls) + 1] = e
               /\ \A i \in 1..Len(pls) : new[gen][i] = pls[i]
  <1>. DEFINE grown == Append(pls, e)
  <1>1. /\ grown \in Seq(Entry) /\ Len(grown) = Len(pls) + 1
        /\ grown[Len(pls) + 1] = e /\ \A i \in 1..Len(pls) : grown[i] = pls[i]
    BY TableTypes
  <1>2. tables \in Seq(Seq(Entry)) /\ Gen = Len(tables) /\ pls = tables[Gen]
    BY DEF TypeOK, Gen, pls
  <1>. HIDE DEF grown
  <1>3. CASE Full /\ ~last
    <2>1. NewEntry(e) = Append(tables, grown)
      BY <1>3 DEF NewEntry, grown
    <2>2. /\ NewEntry(e) \in Seq(Seq(Entry)) /\ Len(NewEntry(e)) = Gen + 1
          /\ NewEntry(e)[Gen + 1] = grown
          /\ \A t \in 1..Gen : NewEntry(e)[t] = tables[t]
      BY <1>1, <1>2, <2>1, TableTypes
    <2>. QED BY <1>1, <2>2, TableTypes
  <1>4. CASE ~(Full /\ ~last)
    <2>1. NewEntry(e) = [tables EXCEPT ![Gen] = grown]
      BY <1>4 DEF NewEntry, grown
    <2>2. /\ NewEntry(e) \in Seq(Seq(Entry)) /\ Len(NewEntry(e)) = Gen
          /\ NewEntry(e)[Gen] = grown
          /\ \A t \in 1..Gen : t # Gen => NewEntry(e)[t] = tables[t]
      BY <1>1, <1>2, <2>1, TableTypes
    <2>3. \A t \in 1..Gen : /\ Len(tables[t]) <= Len(NewEntry(e)[t])
                            /\ \A i \in 1..Len(tables[t]) : NewEntry(e)[t][i] = tables[t][i]
      <3>. TAKE t \in 1..Gen
      <3>1. CASE t = Gen
        BY <1>1, <1>2, <2>2, <3>1, TableTypes
      <3>2. CASE t # Gen
        BY <2>2, <3>2, TableTypes
      <3>. QED BY <3>1, <3>2
    <2>. QED BY <1>1, <2>2, <2>3, TableTypes
  <1>. QED BY <1>3, <1>4

\* A location is added to one entry of the current table (set_patch_location).
LEMMA LocationAdded ==
    ASSUME TypeOK, NEW x \in 1..Len(pls), NEW loc \in Nat,
           tables' = [tables EXCEPT ![Gen][x].locs = @ \union {loc}]
    PROVE  /\ tables' \in Seq(Seq(Entry)) /\ Len(tables') = Gen
           /\ \A t \in 1..Gen : /\ Len(tables'[t]) = Len(tables[t])
                                /\ \A i \in 1..Len(tables[t]) :
                                     /\ tables'[t][i].rva = tables[t][i].rva
                                     /\ t # Gen \/ i # x => tables'[t][i] = tables[t][i]
           /\ tables'[Gen][x].locs = pls[x].locs \union {loc}
  <1>. DEFINE entry == [pls[x] EXCEPT !.locs = @ \union {loc}]
              table == [pls EXCEPT ![x] = entry]
  <1>1. tables \in Seq(Seq(Entry)) /\ Gen = Len(tables) /\ pls = tables[Gen]
    BY DEF TypeOK, Gen, pls
  <1>2. pls[x] \in Entry /\ pls \in Seq(Entry) /\ Gen \in 1..Len(tables)
    BY <1>1, TableTypes
  <1>3. entry \in Entry /\ entry.rva = pls[x].rva /\ entry.locs = pls[x].locs \union {loc}
    BY <1>2 DEF Entry
  <1>4. tables' = [tables EXCEPT ![Gen] = table]
    BY <1>1
  <1>. HIDE DEF entry
  <1>5. /\ table \in Seq(Entry) /\ Len(table) = Len(pls)
        /\ table[x] = entry /\ \A i \in 1..Len(pls) : i # x => table[i] = pls[i]
    BY <1>2, <1>3
  <1>. HIDE DEF table
  <1>6. /\ tables' \in Seq(Seq(Entry)) /\ Len(tables') = Gen /\ tables'[Gen] = table
        /\ \A t \in 1..Gen : t # Gen => tables'[t] = tables[t]
    <2>. DEFINE new == [tables EXCEPT ![Gen] = table]
    <2>1. /\ new \in Seq(Seq(Entry)) /\ Len(new) = Len(tables)
          /\ \A t \in 1..Len(tables) : new[t] = IF t = Gen THEN table ELSE tables[t]
      BY ONLY <1>1, <1>2, <1>5, ExceptSeq
    <2>2. tables' = new
      BY <1>4
    <2>. HIDE DEF new
    <2>. QED BY <1>1, <1>2, <2>1, <2>2
  <1>. QED BY <1>1, <1>3, <1>5, <1>6

-----------------------------------------------------------------------------
(* Asking for an operand *)

Op == [name : Names, rva : Nat, table : Nat, idx : Nat, patched : BOOLEAN]

\* The operands asked for before stay what they were.
OpsGrow(o) == /\ ops' \in Seq(Op) /\ Len(ops') = Len(ops) + 1
              /\ ops'[Len(ops) + 1] = o
              /\ \A k \in 1..Len(ops) : ops'[k] = ops[k]

\* Appending an operand does what OpsGrow says.
LEMMA OperandAppended ==
    ASSUME TypeOK, NEW o \in Op, ops' = Append(ops, o)
    PROVE  OpsGrow(o)
  <1>1. ops \in Seq(Op)
    BY DEF TypeOK, Op
  <1>. QED BY <1>1 DEF OpsGrow

\* A new entry keeps the entries, pointers and locations of the older
\* operands, and no instruction uses it yet.
LEMMA AddEntryKeeps ==
    ASSUME IInv, NEW n \in Names, NEW rva \in Nat, AddEntry(n, rva), UNCHANGED <<sites, bytes>>
    PROVE  /\ tables' \in Seq(Seq(Entry)) /\ tables' # <<>> /\ room' \in Nat
           /\ maps' \in [Names -> Pointer]
           /\ \E o \in Op : OpsGrow(o) /\ o.name = n /\ o.rva = rva
           /\ EntriesKept' /\ PointersLead' /\ SitesFollow' /\ LocationsKept'
  <1>. DEFINE entry == [rva |-> rva, locs |-> {}]
              gen == Len(NewEntry(entry))
              x == Len(pls) + 1
              o == [name |-> n, rva |-> rva, table |-> gen, idx |-> x, patched |-> TRUE]
  <1>0. TypeOK /\ entry \in Entry
    BY DEF IInv, OnlyOwnAddress, Entry
  <1>1. tables' = NewEntry(entry) /\ gen = Gen' /\ x \in Nat \ {0} /\ gen \in Nat \ {0}
    BY <1>0, NewEntryIsLast, TableTypes DEF AddEntry, Gen
  <1>2. /\ tables' \in Seq(Seq(Entry)) /\ tables' # <<>>
        /\ Gen' = Gen \/ Gen' = Gen + 1
        /\ \A t \in 1..Gen : /\ Len(tables[t]) <= Len(tables'[t])
                             /\ \A i \in 1..Len(tables[t]) : tables'[t][i] = tables[t][i]
        /\ Len(tables'[Gen']) = Len(pls) + 1
        /\ tables'[Gen'][x] = entry
        /\ \A i \in 1..Len(pls) : tables'[Gen'][i] = pls[i]
    BY <1>0, <1>1, NewEntryIsLast
  <1>3. /\ maps' = [maps EXCEPT ![n] = [table |-> gen, idx |-> x]]
        /\ room' \in Nat /\ ops' = Append(ops, o)
    BY <1>0, <1>1 DEF AddEntry, TypeOK, Gen
  <1>4. o \in Op
    BY <1>1 DEF Op
  <1>5. OpsGrow(o)
    BY <1>0, <1>3, <1>4, OperandAppended
  <1>6. maps' \in [Names -> Pointer]
    BY <1>0, <1>1, <1>3 DEF TypeOK, Pointer
  <1>7. /\ o.name = n /\ o.rva = rva /\ o.table = Gen' /\ o.idx = x
        /\ Gen \in Nat \ {0} /\ Len(ops) \in Nat /\ Len(sites) \in Nat
        /\ Gen' \in Nat \ {0} /\ Len(pls) \in Nat /\ pls = tables[Gen]
        /\ \A t \in 1..Gen : Len(tables[t]) \in Nat
        /\ \A t \in 1..Gen' : Len(tables'[t]) \in Nat
    BY <1>0, <1>1, <1>2, TableTypes DEF pls, Gen
  <1>. HIDE DEF entry, gen, o, x
  <1>8. \A k \in 1..Len(ops) : /\ ops[k].table \in 1..Gen /\ ops[k].idx \in Nat
                               /\ HasEntry(k)' = HasEntry(k)
                               /\ HasEntry(k) => ops[k].idx \in 1..Len(pls)
    <2>. TAKE k \in 1..Len(ops)
    <2>0. ops[k] \in Op
      <3>1. ops \in Seq(Op)
        BY <1>0 DEF TypeOK, Op
      <3>. QED BY <3>1, ElementOfSeq
    <2>1. ops[k].table \in 1..Gen /\ ops'[k] = ops[k] /\ ops[k].idx \in Nat
      BY <1>5, <2>0 DEF IInv, EntriesKept, OpsGrow, Op
    <2>2. HasEntry(k) => ops[k].idx \in 1..Len(pls)
      BY <1>7, <2>1 DEF IInv, EntriesKept
    <2>. QED BY <2>1, <2>2 DEF HasEntry
  <1>9. EntriesKept'
    <2>0. \A k \in 1..Len(ops') : k = Len(ops) + 1 \/ k \in 1..Len(ops)
      BY <1>5, <1>7 DEF OpsGrow
    <2>1. ASSUME NEW k \in 1..Len(ops') PROVE ops'[k].table \in 1..Gen'
      <3>1. k = Len(ops) + 1 => ops'[k].table = Gen'
        BY <1>5, <1>7 DEF OpsGrow
      <3>2. k \in 1..Len(ops) => ops'[k].table \in 1..Gen
        BY <1>5, <1>8 DEF OpsGrow
      <3>. QED BY <1>2, <1>7, <2>0, <3>1, <3>2
    <2>2. ASSUME NEW k \in 1..Len(ops'), HasEntry(k)', NEW t \in ops'[k].table..Gen'
          PROVE  ops'[k].idx \in 1..Len(tables'[t]) /\ tables'[t][ops'[k].idx].rva = ops'[k].rva
      <3>1. CASE k = Len(ops) + 1
        <4>1. ops'[k] = o /\ t = Gen'
          BY <1>5, <1>7, <2>2, <3>1 DEF OpsGrow
        <4>2. entry.rva = rva
          BY DEF entry
        <4>3. x \in 1..Len(tables'[Gen'])
          BY <1>2, <1>7 DEF x
        <4>. QED BY <1>2, <1>7, <4>1, <4>2, <4>3
      <3>2. CASE k \in 1..Len(ops)
        <4>1. ops'[k] = ops[k] /\ HasEntry(k) /\ ops[k].table \in 1..Gen
          BY <1>5, <1>8, <2>2, <3>2 DEF OpsGrow
        <4>2. CASE t <= Gen
          <5>1. /\ t \in 1..Gen /\ ops[k].idx \in 1..Len(tables[t])
                /\ tables[t][ops[k].idx].rva = ops[k].rva
            BY <1>7, <3>2, <4>1, <4>2, <2>2 DEF IInv, EntriesKept
          <5>2. tables'[t][ops[k].idx] = tables[t][ops[k].idx]
            BY <1>2, <5>1
          <5>3. Len(tables[t]) <= Len(tables'[t])
            BY <1>2, <5>1
          <5>4. Len(tables[t]) \in Nat /\ t \in 1..Gen'
            BY <1>2, <1>7, <5>1
          <5>5. Len(tables'[t]) \in Nat
            BY <1>7, <5>4
          <5>. QED BY <4>1, <5>1, <5>2, <5>3, <5>4, <5>5
        <4>3. CASE t = Gen'
          <5>1. ops[k].idx \in 1..Len(pls) /\ pls[ops[k].idx].rva = ops[k].rva
            <6>1. Gen \in ops[k].table..Gen
              BY <1>7, <4>1
            <6>2. ops[k].idx \in 1..Len(tables[Gen]) /\ tables[Gen][ops[k].idx].rva = ops[k].rva
              BY <3>2, <4>1, <6>1 DEF IInv, EntriesKept
            <6>. QED BY <1>7, <6>2
          <5>2. /\ Len(tables'[t]) = Len(pls) + 1 /\ Len(pls) \in Nat
                /\ tables'[t][ops[k].idx] = pls[ops[k].idx]
            BY <1>2, <1>7, <4>3, <5>1
          <5>. QED BY <4>1, <5>1, <5>2
        <4>. QED BY <1>2, <1>7, <2>2, <4>1, <4>2, <4>3
      <3>. QED BY <1>5, <1>7, <3>1, <3>2 DEF OpsGrow
    <2>3. ASSUME NEW j \in 1..Len(ops'), NEW k \in 1..Len(ops'), HasEntry(k)',
                 ops'[j].idx = ops'[k].idx
          PROVE  j = k
      <3>1. \A i \in 1..Len(ops) : ops'[i].idx # x
        <4>. SUFFICES ASSUME NEW i \in 1..Len(ops) PROVE ops[i].idx # x
          BY <1>5 DEF OpsGrow
        <4>1. ops[i].idx = 0 \/ ops[i].idx \in 1..Len(pls)
          BY <1>8 DEF HasEntry
        <4>2. x = Len(pls) + 1 /\ Len(pls) \in Nat
          BY <1>7 DEF x
        <4>. QED BY <4>1, <4>2
      <3>2. ops'[Len(ops) + 1].idx = x
        BY <1>5, <1>7 DEF OpsGrow
      <3>3. j \in 1..Len(ops) /\ k \in 1..Len(ops) => j = k
        <4>1. \A a, b \in 1..Len(ops) : HasEntry(b) /\ ops[a].idx = ops[b].idx => a = b
          BY DEF IInv, EntriesKept
        <4>. QED BY <1>5, <1>8, <2>3, <4>1 DEF OpsGrow
      <3>. QED BY <1>5, <1>7, <2>3, <3>1, <3>2, <3>3 DEF OpsGrow
    <2>. QED BY <2>1, <2>2, <2>3 DEF EntriesKept
  <1>10. PointersLead'
    <2>. SUFFICES ASSUME NEW m \in Names, maps'[m] # NoEntry
                  PROVE  \E k \in 1..Len(ops') :
                           /\ HasEntry(k)' /\ ops'[k].name = m
                           /\ maps'[m] = [table |-> ops'[k].table, idx |-> ops'[k].idx]
      BY DEF PointersLead, NoEntry
    <2>1. CASE m = n
      <3>1. maps'[m] = [table |-> Gen', idx |-> x]
        BY <1>0, <1>1, <1>3, <2>1 DEF TypeOK
      <3>2. Len(ops) + 1 \in 1..Len(ops') /\ ops'[Len(ops) + 1] = o
        BY <1>5, <1>7 DEF OpsGrow
      <3>. QED BY <1>1, <1>7, <2>1, <3>1, <3>2 DEF HasEntry
    <2>2. CASE m # n
      <3>1. maps'[m] = maps[m]
        BY <1>0, <1>3, <2>2 DEF TypeOK
      <3>2. PICK k \in 1..Len(ops) : /\ HasEntry(k) /\ ops[k].name = m
                                     /\ maps[m] = [table |-> ops[k].table, idx |-> ops[k].idx]
        BY <3>1 DEF IInv, PointersLead
      <3>. QED BY <1>5, <1>7, <1>8, <3>1, <3>2 DEF OpsGrow
    <2>. QED BY <2>1, <2>2
  <1>11. SitesFollow'
    <2>1. \A s \in 1..Len(sites) : sites[s].op \in 1..Len(ops) /\ Operand(s)' = Operand(s)
      BY <1>5 DEF IInv, SitesFollow, OpsGrow, Operand
    <2>2. \A s \in 1..Len(sites) : sites[s].table \in Operand(s).table..Gen'
      BY <1>2, <1>7, <1>8, <2>1 DEF IInv, SitesFollow, Operand
    <2>3. \A s \in 1..Len(sites) : sites[s].recorded => HasEntry(sites[s].op)'
      BY <1>8, <2>1 DEF IInv, SitesFollow
    <2>4. \A k \in 1..Len(ops) : k \in 1..Len(ops')
      BY <1>5, <1>7 DEF OpsGrow
    <2>. QED BY <2>1, <2>2, <2>3, <2>4 DEF IInv, SitesFollow
  <1>12. LocationsKept'
    <2>0. sites' = sites
      OBVIOUS
    <2>A. \A k, t : LocationsOf(k, t)' = LocationsOf(k, t)
      BY <2>0 DEF LocationsOf
    <2>. SUFFICES ASSUME NEW k \in 1..Len(ops'), HasEntry(k)', NEW t \in ops'[k].table..Gen'
                  PROVE  tables'[t][ops'[k].idx].locs = LocationsOf(k, t)
      BY <2>A DEF LocationsKept
    <2>1. ASSUME NEW s \in 1..Len(sites)
          PROVE  sites[s].op \in 1..Len(ops) /\ sites[s].table \in 1..Gen
      <3>1. sites[s].op \in 1..Len(ops) /\ sites[s].table \in ops[sites[s].op].table..Gen
        BY DEF IInv, SitesFollow, Operand
      <3>2. ops[sites[s].op].table \in 1..Gen
        BY <1>8, <3>1
      <3>. QED BY <1>7, <3>1, <3>2
    <2>2. CASE k = Len(ops) + 1
      <3>1. ops'[k] = o /\ t = Gen'
        BY <1>5, <1>7, <2>2 DEF OpsGrow
      <3>2. LocationsOf(k, t) = {}
        BY <1>7, <2>1, <2>2 DEF LocationsOf
      <3>3. o.idx = x /\ entry.locs = {}
        BY DEF entry, o
      <3>4. tables'[Gen'][x] = entry
        BY <1>2, <1>7
      <3>. HIDE DEF o, x, entry
      <3>. QED BY <3>1, <3>2, <3>3, <3>4
    <2>3. CASE k \in 1..Len(ops)
      <3>1. ops'[k] = ops[k] /\ HasEntry(k) /\ ops[k].table \in 1..Gen
        BY <1>5, <1>8, <2>3 DEF OpsGrow
      <3>2. CASE t <= Gen
        <4>1. t \in 1..Gen /\ ops[k].idx \in 1..Len(tables[t])
          BY <1>7, <2>3, <3>1, <3>2 DEF IInv, EntriesKept
        <4>2. tables[t][ops[k].idx].locs = LocationsOf(k, t)
          BY <2>3, <3>1, <4>1 DEF IInv, LocationsKept
        <4>. QED BY <1>2, <3>1, <4>1, <4>2
      <3>3. CASE t = Gen' /\ Gen' = Gen + 1
        <4>1. LocationsOf(k, t) = LocationsOf(k, Gen)
          <5>1. \A r \in 1..Len(sites) : sites[r].table <= t /\ sites[r].table <= Gen
            BY <1>7, <2>1, <3>3
          <5>. QED BY <5>1 DEF LocationsOf
        <4>2. pls[ops[k].idx].locs = LocationsOf(k, Gen)
          BY <1>7, <2>3, <3>1 DEF IInv, LocationsKept
        <4>. QED BY <1>2, <1>8, <2>3, <3>1, <3>3, <4>1, <4>2
      <3>. QED BY <1>2, <1>7, <3>1, <3>2, <3>3
    <2>. QED BY <1>5, <1>7, <2>2, <2>3 DEF OpsGrow
  <1>. QED BY <1>2, <1>3, <1>4, <1>5, <1>6, <1>7, <1>9, <1>10, <1>11, <1>12

\* A name whose pointer leads to an older table gets an operand without entry;
\* nothing else changes.
LEMMA StaleEntryKeeps ==
    ASSUME IInv, NEW n \in Names, NEW rva \in Nat, StaleEntry(n, rva), UNCHANGED <<sites, bytes>>
    PROVE  /\ \E o \in Op : OpsGrow(o) /\ o.name = n /\ o.rva = rva
           /\ EntriesKept' /\ PointersLead' /\ SitesFollow' /\ LocationsKept'
  <1>. DEFINE o == [name |-> n, rva |-> rva, table |-> Gen, idx |-> 0, patched |-> TRUE]
  <1>1. TypeOK /\ Gen \in Nat \ {0} /\ Len(ops) \in Nat
    BY TableTypes DEF IInv, OnlyOwnAddress
  <1>2. o \in Op /\ ops' = Append(ops, o)
    BY <1>1 DEF Op, StaleEntry
  <1>3. OpsGrow(o)
    BY <1>1, <1>2, OperandAppended
  <1>4. o.idx = 0 /\ o.table = Gen /\ o.name = n /\ o.rva = rva
    OBVIOUS
  <1>. HIDE DEF o
  <1>5. tables' = tables /\ Gen' = Gen /\ maps' = maps /\ sites' = sites /\ bytes' = bytes
    BY DEF StaleEntry, Gen
  <1>6. /\ Len(ops') = Len(ops) + 1
        /\ \A k \in 1..Len(ops') : k = Len(ops) + 1 \/ k \in 1..Len(ops)
        /\ \A k \in 1..Len(ops) : k \in 1..Len(ops')
        /\ ops'[Len(ops) + 1].idx = 0 /\ ops'[Len(ops) + 1].table = Gen
        /\ \A k \in 1..Len(ops') : HasEntry(k)' => k \in 1..Len(ops)
        /\ \A k \in 1..Len(ops) : ops'[k] = ops[k] /\ HasEntry(k)' = HasEntry(k)
    BY <1>1, <1>3, <1>4 DEF OpsGrow, HasEntry
  <1>7. EntriesKept'
    <2>1. \A k \in 1..Len(ops') : ops'[k].table \in 1..Gen
      BY <1>1, <1>6 DEF IInv, EntriesKept
    <2>2. \A k \in 1..Len(ops') : HasEntry(k)' => \A t \in ops'[k].table..Gen :
            ops'[k].idx \in 1..Len(tables[t]) /\ tables[t][ops'[k].idx].rva = ops'[k].rva
      BY <1>6 DEF IInv, EntriesKept
    <2>3. ASSUME NEW j \in 1..Len(ops'), NEW k \in 1..Len(ops'), HasEntry(k)', ops'[j].idx = ops'[k].idx
          PROVE  j = k
      <3>1. HasEntry(j)'
        BY <2>3 DEF HasEntry
      <3>. QED BY <1>6, <2>3, <3>1 DEF IInv, EntriesKept
    <2>. QED BY <1>5, <2>1, <2>2, <2>3 DEF EntriesKept
  <1>8. PointersLead'
    <2>. SUFFICES ASSUME NEW m \in Names, maps[m] # NoEntry
                  PROVE  \E k \in 1..Len(ops') :
                           /\ HasEntry(k)' /\ ops'[k].name = m
                           /\ maps[m] = [table |-> ops'[k].table, idx |-> ops'[k].idx]
      BY <1>5 DEF PointersLead, NoEntry
    <2>1. PICK k \in 1..Len(ops) : /\ HasEntry(k) /\ ops[k].name = m
                                   /\ maps[m] = [table |-> ops[k].table, idx |-> ops[k].idx]
      BY DEF IInv, PointersLead
    <2>. QED BY <1>6, <2>1
  <1>9. SitesFollow'
    <2>1. \A s \in 1..Len(sites) : sites[s].op \in 1..Len(ops) /\ Operand(s)' = Operand(s)
      BY <1>5, <1>6 DEF IInv, SitesFollow, Operand
    <2>. QED BY <1>5, <1>6, <2>1 DEF IInv, SitesFollow
  <1>10. LocationsKept'
    <2>. SUFFICES ASSUME NEW k \in 1..Len(ops'), HasEntry(k)', NEW t \in ops'[k].table..Gen
                  PROVE  tables[t][ops'[k].idx].locs = LocationsOf(k, t)
      BY <1>5 DEF LocationsKept, LocationsOf
    <2>. QED BY <1>6 DEF IInv, LocationsKept
  <1>. QED BY <1>2, <1>3, <1>4, <1>7, <1>8, <1>9, <1>10

-----------------------------------------------------------------------------
(* The literals *)

\* Counting the literals before an operand.
LEMMA LiteralsFinite ==
    ASSUME NEW k \in Nat
    PROVE  /\ IsFiniteSet(LiteralsBefore(k)) /\ Cardinality(LiteralsBefore(k)) \in Nat
           /\ LiteralsBefore(k) \subseteq 1..(k - 1)
  <1>1. IsFiniteSet(1..(k - 1))
    BY FS_Interval
  <1>2. LiteralsBefore(k) \in SUBSET (1..(k - 1))
    BY DEF LiteralsBefore
  <1>. QED BY <1>1, <1>2, FS_Subset, FS_CardinalityType

\* Another operand changes nothing before it.
LEMMA LiteralsBeforeSame ==
    ASSUME Len(ops) \in Nat, NEW o, OpsGrow(o), NEW k \in 1..(Len(ops) + 1)
    PROVE  LiteralsBefore(k)' = LiteralsBefore(k)
  <1>1. \A i \in 1..(k - 1) : ops'[i] = ops[i]
    BY DEF OpsGrow
  <1>. QED BY <1>1 DEF LiteralsBefore

\* An operand that is no literal leaves them where they are.
LEMMA OtherKeepsLiterals ==
    ASSUME IInv, NEW o \in Op, OpsGrow(o), o.name \notin Literals,
           UNCHANGED <<lits, datasize>>, pc' = pc
    PROVE  LiteralsInPlace' /\ NextBehind'
  <1>0. Len(ops) + 1 \in Nat
    BY TableTypes DEF IInv, OnlyOwnAddress
  <1>. PICK N \in Nat : N = Len(ops) + 1
    BY <1>0
  <1>1. Len(ops) \in Nat /\ N = Len(ops) + 1 /\ Len(ops') = N /\ LiteralsInPlace /\ NextBehind
    BY TableTypes DEF IInv, OnlyOwnAddress, OpsGrow
  <1>2. \A k \in 1..N : LiteralsBefore(k)' = LiteralsBefore(k)
    BY <1>1, LiteralsBeforeSame
  <1>3. LiteralsBefore(N + 1)' = LiteralsBefore(N)
    <2>1. \A i \in 1..Len(ops) : ops'[i] = ops[i]
      BY DEF OpsGrow
    <2>2. ops'[N].name \notin Literals
      BY DEF OpsGrow
    <2>. QED BY <1>1, <2>1, <2>2 DEF LiteralsBefore
  <1>4. /\ LiteralsInPlace' <=>
             /\ Cardinality(LiteralsBefore(N + 1)') = Len(lits')
             /\ Len(lits') > LitRoom => pc' = "overrun"
             /\ \A k \in LiteralsBefore(N + 1)' :
                  lits'[Cardinality(LiteralsBefore(k)') + 1] = ops'[k].name /\ BehindPrevious(k)'
        /\ NextBehind' <=>
             /\ LiteralsBefore(N + 1)' = {} => datasize' = 0
             /\ \A i \in LiteralsBefore(N + 1)' : LiteralsBefore(N + 1)' \subseteq 1..i =>
                  datasize' = ops'[i].rva + LitSize[ops'[i].name]
    BY <1>1 DEF LiteralsInPlace, NextBehind
  <1>5. \A k \in LiteralsBefore(N) : k \in 1..Len(ops) /\ ops'[k] = ops[k]
    BY <1>1 DEF LiteralsBefore, OpsGrow
  <1>6. \A k \in LiteralsBefore(N) : BehindPrevious(k)'
    <2>. TAKE k \in LiteralsBefore(N)
    <2>1. k \in 1..Len(ops) /\ ops'[k] = ops[k] /\ LiteralsBefore(k)' = LiteralsBefore(k)
      BY <1>1, <1>2, <1>5
    <2>2. \A i \in LiteralsBefore(k) : ops'[i] = ops[i]
      BY <1>1, <2>1 DEF LiteralsBefore, OpsGrow
    <2>3. BehindPrevious(k)
      BY <1>1 DEF LiteralsInPlace
    <2>. QED BY <2>1, <2>2, <2>3 DEF BehindPrevious
  <1>7. LiteralsInPlace'
    <2>1. Cardinality(LiteralsBefore(N + 1)') = Len(lits')
      BY <1>1, <1>3 DEF LiteralsInPlace
    <2>2. Len(lits') > LitRoom => pc' = "overrun"
      BY <1>1 DEF LiteralsInPlace
    <2>3. \A k \in LiteralsBefore(N) : lits'[Cardinality(LiteralsBefore(k)') + 1] = ops'[k].name
      BY <1>1, <1>2, <1>5 DEF LiteralsInPlace
    <2>. QED BY <1>3, <1>4, <1>6, <2>1, <2>2, <2>3
  <1>8. NextBehind'
    BY <1>1, <1>3, <1>4, <1>5 DEF NextBehind
  <1>. QED BY <1>7, <1>8

\* A literal's operand gets the place behind the last one, and the place behind
\* it is the next (e_lit).
LEMMA LiteralKeepsLiterals ==
    ASSUME IInv, NEW o \in Op, OpsGrow(o), o.name \in Literals, o.rva = datasize,
           lits' = Append(lits, o.name), datasize' = NextPlace(o.name), pc = "build",
           pc' = IF Len(lits) < LitRoom THEN pc ELSE "overrun"
    PROVE  LiteralsInPlace' /\ NextBehind'
  <1>0. Len(ops) + 1 \in Nat
    BY TableTypes DEF IInv, OnlyOwnAddress
  <1>. PICK N \in Nat : N = Len(ops) + 1
    BY <1>0
  <1>1. /\ Len(ops) \in Nat /\ N = Len(ops) + 1 /\ Len(ops') = N /\ LiteralsInPlace /\ NextBehind
        /\ lits \in Seq(Literals) /\ Len(lits) \in Nat /\ LitRoom \in Nat
    BY TableTypes, SizesAssumption DEF IInv, OnlyOwnAddress, OpsGrow, TypeOK
  <1>2. \A k \in 1..N : LiteralsBefore(k)' = LiteralsBefore(k)
    BY <1>1, LiteralsBeforeSame
  <1>3. ops'[N] = o /\ \A i \in 1..Len(ops) : ops'[i] = ops[i]
    BY DEF OpsGrow
  <1>4. LiteralsBefore(N + 1)' = LiteralsBefore(N) \union {N}
    BY <1>1, <1>3 DEF LiteralsBefore
  <1>5. /\ IsFiniteSet(LiteralsBefore(N)) /\ N \notin LiteralsBefore(N)
        /\ LiteralsBefore(N) \subseteq 1..Len(ops) /\ Cardinality(LiteralsBefore(N)) = Len(lits)
    <2>1. IsFiniteSet(LiteralsBefore(N)) /\ LiteralsBefore(N) \subseteq 1..(N - 1)
      BY LiteralsFinite
    <2>2. N - 1 = Len(ops) /\ N \notin 1..(N - 1)
      BY <1>1
    <2>3. Cardinality(LiteralsBefore(N)) = Len(lits)
      BY <1>1 DEF LiteralsInPlace
    <2>. QED BY <2>1, <2>2, <2>3
  <1>. DEFINE InPlaceNext ==
                /\ Cardinality(LiteralsBefore(N + 1)') = Len(lits')
                /\ Len(lits') > LitRoom => pc' = "overrun"
                /\ \A k \in LiteralsBefore(N + 1)' :
                     lits'[Cardinality(LiteralsBefore(k)') + 1] = ops'[k].name /\ BehindPrevious(k)'
              BehindNext ==
                /\ LiteralsBefore(N + 1)' = {} => datasize' = 0
                /\ \A i \in LiteralsBefore(N + 1)' : LiteralsBefore(N + 1)' \subseteq 1..i =>
                     datasize' = ops'[i].rva + LitSize[ops'[i].name]
  <1>next. (LiteralsInPlace' <=> InPlaceNext) /\ (NextBehind' <=> BehindNext)
    BY <1>1 DEF LiteralsInPlace, NextBehind
  <1>6. Cardinality(LiteralsBefore(N + 1)') = Len(lits) + 1
    <2>1. Cardinality(LiteralsBefore(N) \union {N}) = Cardinality(LiteralsBefore(N)) + 1
      BY <1>5, FS_AddElement
    <2>. QED BY <1>4, <1>5, <2>1
  <1>7. Len(lits') = Len(lits) + 1 /\ lits'[Len(lits) + 1] = o.name
        /\ \A j \in 1..Len(lits) : lits'[j] = lits[j]
    BY <1>1
  <1>8. \A k \in LiteralsBefore(N) : Cardinality(LiteralsBefore(k)) + 1 \in 1..Len(lits)
    <2>. TAKE k \in LiteralsBefore(N)
    <2>1. /\ LiteralsBefore(k) \in SUBSET LiteralsBefore(N) /\ k \notin LiteralsBefore(k)
          /\ k \in Nat
      BY <1>1, <1>5 DEF LiteralsBefore
    <2>2. Cardinality(LiteralsBefore(k)) <= Cardinality(LiteralsBefore(N))
          /\ Cardinality(LiteralsBefore(k)) # Cardinality(LiteralsBefore(N))
      BY <1>5, <2>1, FS_Subset
    <2>3. Cardinality(LiteralsBefore(k)) \in Nat
      BY <2>1, LiteralsFinite
    <2>. QED BY <1>1, <1>5, <2>2, <2>3
  <1>9. LiteralsInPlace'
    <2>1. Len(lits') > LitRoom => pc' = "overrun"
      BY <1>1, <1>7
    <2>2. ASSUME NEW k \in LiteralsBefore(N)
          PROVE  /\ lits'[Cardinality(LiteralsBefore(k)') + 1] = ops'[k].name
                 /\ BehindPrevious(k)'
      <3>1. k \in 1..Len(ops) /\ ops'[k] = ops[k] /\ LiteralsBefore(k)' = LiteralsBefore(k)
        BY <1>1, <1>2, <1>3, <1>5
      <3>2. \A i \in LiteralsBefore(k) : ops'[i] = ops[i]
        BY <1>1, <1>3, <3>1 DEF LiteralsBefore
      <3>3. BehindPrevious(k)
        BY <1>1 DEF LiteralsInPlace
      <3>4. BehindPrevious(k)'
        BY <3>1, <3>2, <3>3 DEF BehindPrevious
      <3>5. lits[Cardinality(LiteralsBefore(k)) + 1] = ops[k].name
        BY <1>1 DEF LiteralsInPlace
      <3>. QED BY <1>7, <1>8, <3>1, <3>4, <3>5
    <2>3. /\ lits'[Cardinality(LiteralsBefore(N)') + 1] = ops'[N].name
          /\ BehindPrevious(N)'
      <3>1. LiteralsBefore(N)' = LiteralsBefore(N)
        BY <1>1, <1>2
      <3>2. Cardinality(LiteralsBefore(N)) = Len(lits)
        BY <1>1 DEF LiteralsInPlace
      <3>3. BehindPrevious(N)'
        BY <1>1, <1>3, <1>5, <3>1 DEF BehindPrevious, NextBehind
      <3>. QED BY <1>3, <1>7, <3>1, <3>2, <3>3
    <2>. QED BY <1>4, <1>6, <1>7, <1>next, <2>1, <2>2, <2>3
  <1>10. NextBehind'
    <2>2. datasize' = ops'[N].rva + LitSize[ops'[N].name]
      BY <1>3 DEF NextPlace
    <2>3. \A i \in LiteralsBefore(N) : i < N
      BY <1>1, <1>5
    <2>4. N \in LiteralsBefore(N + 1)' /\ \A i \in LiteralsBefore(N) : ~(LiteralsBefore(N + 1)' \subseteq 1..i)
      BY <1>1, <1>4, <1>5, <2>3
    <2>. QED BY <1>4, <1>next, <2>2, <2>4
  <1>. QED BY <1>9, <1>10

-----------------------------------------------------------------------------
(* The steps that ask for an operand *)

\* Nothing is patched before the Builder's program ends.
LEMMA NothingPatched ==
    ASSUME PatchedSoFar, pc = "build"
    PROVE  \A s \in 1..Len(sites) : code[s] = NULL
  BY DEF PatchedSoFar, NamesPatched

LEMMA NothingPatchedYet ==
    ASSUME \A s \in 1..Len(sites') : code'[s] = NULL, pc' \in {"build", "overrun", "assert"}
    PROVE  PatchedSoFar' /\ \A s \in 1..Len(sites') : code'[s] # NULL => Means(s)'
  BY DEF PatchedSoFar, NamesPatched

\* What a request of any kind keeps.
LEMMA RequestKeeps ==
    ASSUME IInv, NEW n \in Names, NEW rva \in Nat, Request(n, rva),
           UNCHANGED <<bytes, sites, code>>, pc' \in {"build", "overrun"}
    PROVE  /\ tables' \in Seq(Seq(Entry)) /\ tables' # <<>> /\ room' \in Nat
           /\ maps' \in [Names -> Pointer]
           /\ \E o \in Op : OpsGrow(o) /\ o.name = n /\ o.rva = rva
           /\ EntriesKept' /\ PointersLead' /\ SitesFollow' /\ LocationsKept' /\ PatchedSoFar'
           /\ \A s \in 1..Len(sites') : code'[s] # NULL => Means(s)'
  <1>0. sites' = sites /\ code' = code /\ TypeOK /\ pc = "build"
    BY DEF IInv, OnlyOwnAddress, Request
  <1>1. PatchedSoFar' /\ \A s \in 1..Len(sites') : code'[s] # NULL => Means(s)'
    BY <1>0, NothingPatched, NothingPatchedYet DEF IInv
  <1>2. CASE AddEntry(n, rva)
    BY <1>1, <1>2, AddEntryKeeps
  <1>3. CASE StaleEntry(n, rva)
    <2>1. tables' = tables /\ room' = room /\ maps' = maps
      BY <1>3 DEF StaleEntry
    <2>. QED BY <1>0, <1>1, <1>3, <2>1, StaleEntryKeeps DEF TypeOK
  <1>. QED BY <1>2, <1>3 DEF Request

\* e_label, e_cfunction and e_lit keep the invariant.
LEMMA AskKeepsIInv ==
    ASSUME IInv, Ask
    PROVE  IInv'
  <1>0. /\ TypeOK /\ bytes \in Nat /\ datasize \in Nat /\ lits \in Seq(Literals) /\ 0 \in Nat
        /\ \A n \in Literals : n \in Names
        /\ \A n \in Labels \union Functions : n \in Names /\ n \notin Literals
    BY KindsApart DEF IInv, OnlyOwnAddress, TypeOK, Names
  <1>1. ASSUME NEW n \in Labels \union Functions, Label(n) \/ CFunction(n)
        PROVE  IInv'
    <2>0. n \in Names /\ n \notin Literals
      BY <1>0
    <2>1. PICK rva \in {bytes, 0} : Request(n, rva)
      BY <1>1 DEF Label, CFunction
    <2>2. UNCHANGED <<bytes, lits, datasize, sites, code, pc>> /\ last' \in BOOLEAN /\ pc = "build"
      BY <1>0, <1>1 DEF Label, CFunction, TypeOK, Request
    <2>3. rva \in Nat
      BY <1>0, <2>1
    <2>4. /\ tables' \in Seq(Seq(Entry)) /\ tables' # <<>> /\ room' \in Nat
          /\ maps' \in [Names -> Pointer]
          /\ EntriesKept' /\ PointersLead' /\ SitesFollow' /\ LocationsKept' /\ PatchedSoFar'
          /\ \A s \in 1..Len(sites') : code'[s] # NULL => Means(s)'
      BY <2>0, <2>1, <2>2, <2>3, RequestKeeps
    <2>5. PICK o \in Op : OpsGrow(o) /\ o.name = n /\ o.rva = rva
      BY <2>0, <2>1, <2>2, <2>3, RequestKeeps
    <2>6. LiteralsInPlace' /\ NextBehind'
      BY <2>0, <2>2, <2>5, OtherKeepsLiterals
    <2>7. TypeOK'
      BY <1>0, <2>2, <2>4, <2>5 DEF TypeOK, OpsGrow, Op
    <2>. QED BY <2>4, <2>6, <2>7 DEF IInv, OnlyOwnAddress
  <1>2. ASSUME NEW n \in Literals, Literal(n)
        PROVE  IInv'
    <2>1. /\ Request(n, datasize) /\ n \in Names /\ pc = "build"
          /\ UNCHANGED <<bytes, sites, code>> /\ last' \in BOOLEAN
          /\ lits' = Append(lits, n) /\ datasize' = NextPlace(n)
          /\ pc' = IF Len(lits) < LitRoom THEN pc ELSE "overrun"
      BY <1>0, <1>2 DEF Literal, Request, TypeOK
    <2>2. pc' \in {"build", "overrun"} /\ lits' \in Seq(Literals) /\ datasize' \in Nat
      BY <1>0, <2>1, LitSizeAssumption DEF NextPlace
    <2>3. /\ tables' \in Seq(Seq(Entry)) /\ tables' # <<>> /\ room' \in Nat
          /\ maps' \in [Names -> Pointer]
          /\ EntriesKept' /\ PointersLead' /\ SitesFollow' /\ LocationsKept' /\ PatchedSoFar'
          /\ \A s \in 1..Len(sites') : code'[s] # NULL => Means(s)'
      BY <1>0, <2>1, <2>2, RequestKeeps
    <2>4. PICK o \in Op : OpsGrow(o) /\ o.name = n /\ o.rva = datasize
      BY <1>0, <2>1, <2>2, RequestKeeps
    <2>5. LiteralsInPlace' /\ NextBehind'
      BY <2>1, <2>4, LiteralKeepsLiterals
    <2>6. TypeOK'
      BY <1>0, <2>1, <2>2, <2>3, <2>4 DEF TypeOK, OpsGrow, Op
    <2>. QED BY <2>3, <2>5, <2>6 DEF IInv, OnlyOwnAddress
  <1>. QED BY <1>1, <1>2 DEF Ask

-----------------------------------------------------------------------------
(* The steps that emit an instruction *)

\* An instruction changes nothing of the operands but that one becomes plain.
OpsSame == /\ ops' \in Seq(Op) /\ Len(ops') = Len(ops)
           /\ \A k \in 1..Len(ops) : /\ ops'[k].name = ops[k].name /\ ops'[k].rva = ops[k].rva
                                     /\ ops'[k].table = ops[k].table /\ ops'[k].idx = ops[k].idx

\* Then the literals stay where they are.
LEMMA OpsSameKeepsLiterals ==
    ASSUME IInv, OpsSame, UNCHANGED <<lits, datasize>>, pc' = pc
    PROVE  LiteralsInPlace' /\ NextBehind'
  <1>0. Len(ops) + 1 \in Nat
    BY TableTypes DEF IInv, OnlyOwnAddress
  <1>. PICK N \in Nat : N = Len(ops) + 1
    BY <1>0
  <1>1. /\ N = Len(ops) + 1 /\ N = Len(ops') + 1 /\ Len(ops) \in Nat
        /\ LiteralsInPlace /\ NextBehind
    BY <1>0 DEF OpsSame, IInv, OnlyOwnAddress
  <1>2. \A k \in 1..N : LiteralsBefore(k)' = LiteralsBefore(k)
    BY <1>1 DEF LiteralsBefore, OpsSame
  <1>3. \A k \in LiteralsBefore(N) : k \in 1..Len(ops)
    BY <1>1 DEF LiteralsBefore
  <1>4. \A k \in LiteralsBefore(N) : BehindPrevious(k)'
    <2>. TAKE k \in LiteralsBefore(N)
    <2>1. k \in 1..Len(ops) /\ LiteralsBefore(k)' = LiteralsBefore(k)
      BY <1>1, <1>2, <1>3
    <2>2. \A i \in LiteralsBefore(k) : i \in 1..Len(ops)
      BY <1>1, <2>1 DEF LiteralsBefore
    <2>3. BehindPrevious(k)
      BY <1>1 DEF LiteralsInPlace
    <2>. QED BY <2>1, <2>2, <2>3 DEF BehindPrevious, OpsSame
  <1>5. /\ Cardinality(LiteralsBefore(N)') = Len(lits')
        /\ Len(lits') > LitRoom => pc' = "overrun"
        /\ \A k \in LiteralsBefore(N)' :
             lits'[Cardinality(LiteralsBefore(k)') + 1] = ops'[k].name /\ BehindPrevious(k)'
    BY <1>1, <1>2, <1>3, <1>4 DEF LiteralsInPlace, OpsSame
  <1>6. NextBehind'
    BY <1>1, <1>2, <1>3 DEF NextBehind, OpsSame
  <1>. QED BY <1>1, <1>5, <1>6 DEF LiteralsInPlace

\* The tables keep their entries but for the locations.
TablesSame == /\ tables' \in Seq(Seq(Entry)) /\ Len(tables') = Gen
              /\ \A t \in 1..Gen : /\ Len(tables'[t]) = Len(tables[t])
                                   /\ \A i \in 1..Len(tables[t]) :
                                        tables'[t][i].rva = tables[t][i].rva

\* Then entries and pointers lead where they did.
LEMMA EntriesStay ==
    ASSUME IInv, OpsSame, TablesSame, maps' = maps
    PROVE  /\ EntriesKept' /\ PointersLead' /\ Gen' = Gen
           /\ \A k \in 1..Len(ops) : HasEntry(k)' = HasEntry(k)
  <1>1. Gen' = Gen /\ Len(ops') = Len(ops)
    BY DEF TablesSame, OpsSame, Gen
  <1>2. \A k \in 1..Len(ops) : HasEntry(k)' = HasEntry(k)
    BY DEF OpsSame, HasEntry
  <1>3. EntriesKept'
    <2>1. \A k \in 1..Len(ops) : ops'[k].table \in 1..Gen
      BY DEF OpsSame, IInv, EntriesKept
    <2>2. ASSUME NEW k \in 1..Len(ops), HasEntry(k), NEW t \in ops[k].table..Gen
          PROVE  ops[k].idx \in 1..Len(tables'[t]) /\ tables'[t][ops[k].idx].rva = ops[k].rva
      <3>1. t \in 1..Gen
        BY TableTypes DEF IInv, EntriesKept, OnlyOwnAddress
      <3>2. ops[k].idx \in 1..Len(tables[t]) /\ tables[t][ops[k].idx].rva = ops[k].rva
        BY <2>2 DEF IInv, EntriesKept
      <3>. QED BY <3>1, <3>2 DEF TablesSame
    <2>3. \A j, k \in 1..Len(ops) : HasEntry(k) /\ ops[j].idx = ops[k].idx => j = k
      BY DEF IInv, EntriesKept
    <2>. QED BY <1>1, <1>2, <2>1, <2>2, <2>3 DEF EntriesKept, OpsSame
  <1>4. PointersLead'
    <2>. SUFFICES ASSUME NEW n \in Names, maps[n] # NoEntry
                  PROVE  \E k \in 1..Len(ops) :
                           /\ HasEntry(k)' /\ ops'[k].name = n
                           /\ maps[n] = [table |-> ops'[k].table, idx |-> ops'[k].idx]
      BY <1>1 DEF PointersLead, NoEntry
    <2>1. PICK k \in 1..Len(ops) : /\ HasEntry(k) /\ ops[k].name = n
                                   /\ maps[n] = [table |-> ops[k].table, idx |-> ops[k].idx]
      BY DEF IInv, PointersLead
    <2>. QED BY <1>2, <2>1 DEF OpsSame
  <1>. QED BY <1>1, <1>2, <1>3, <1>4

\* The new instruction is behind the others, and its location is that of its
\* operand if it is recorded.
LEMMA EmitKeeps ==
    ASSUME IInv, NEW k \in 1..Len(ops), Emit(k), OpsSame, TablesSame, maps' = maps,
           ops[k].patched => HasEntry(k), pc = "build", pc' = pc
    PROVE  /\ bytes' \in Nat /\ Location \in Nat
           /\ sites' \in Seq([op : Nat, end : Nat, table : Nat, recorded : BOOLEAN])
           /\ code' \in Seq(Int \union Functions \union {NULL}) /\ Len(code') = Len(sites')
           /\ SitesFollow' /\ PatchedSoFar'
           /\ \A s \in 1..Len(sites') : code'[s] # NULL => Means(s)'
           /\ \A j \in 1..Len(ops), t \in 1..Gen :
                LocationsOf(j, t)' =
                  IF j = k /\ ops[k].patched /\ t = Gen
                    THEN LocationsOf(j, t) \union {Location} ELSE LocationsOf(j, t)
  <1>. DEFINE Site == [op : Nat, end : Nat, table : Nat, recorded : BOOLEAN]
              site == [op |-> k, end |-> bytes + InstSize, table |-> Gen, recorded |-> ops[k].patched]
  <1>0. /\ TypeOK /\ bytes \in Nat /\ InstSize \in Nat /\ InstSize >= 5
        /\ Gen \in Nat \ {0} /\ Len(ops) \in Nat /\ Len(sites) \in Nat
        /\ sites \in Seq(Site) /\ code \in Seq(Int \union Functions \union {NULL})
        /\ Len(code) = Len(sites)
    BY SizesAssumption, TableTypes DEF IInv, OnlyOwnAddress, TypeOK
  <1>1. ops[k].patched \in BOOLEAN /\ k \in Nat
    <2>1. ops \in Seq(Op)
      BY <1>0 DEF TypeOK, Op
    <2>2. ops[k] \in Op
      BY <2>1, ElementOfSeq
    <2>. QED BY <1>0, <2>2 DEF Op
  <1>2. site \in Site
    BY <1>0, <1>1
  <1>3. /\ bytes' = bytes + InstSize /\ sites' = Append(sites, site) /\ code' = Append(code, NULL)
        /\ Gen' = Gen
    BY EntriesStay DEF Emit
  <1>4. /\ site.op = k /\ site.end = bytes + InstSize /\ site.table = Gen
        /\ site.recorded = ops[k].patched /\ Location = bytes + InstSize - 4
    BY DEF Location
  <1>5. bytes' \in Nat /\ Location \in Nat /\ code' \in Seq(Int \union Functions \union {NULL})
    BY <1>0, <1>3, <1>4
  <1>. HIDE DEF site, Site
  <1>6. /\ sites' \in Seq(Site) /\ Len(sites') = Len(sites) + 1
        /\ sites'[Len(sites) + 1] = site
        /\ \A s \in 1..Len(sites) : sites'[s] = sites[s]
        /\ \A s \in 1..Len(sites') : s \in 1..Len(sites) \/ s = Len(sites) + 1
    BY <1>0, <1>2, <1>3
  <1>7. Len(code') = Len(sites') /\ \A s \in 1..Len(sites') : code'[s] = NULL
    <2>1. \A s \in 1..Len(sites) : code[s] = NULL
      BY NothingPatched DEF IInv
    <2>. QED BY <1>0, <1>3, <1>6, <2>1
  <1>8. /\ \A s \in 1..Len(sites) : /\ sites[s].op \in 1..Len(ops)
                                    /\ sites[s].table \in ops[sites[s].op].table..Gen
                                    /\ sites[s].recorded => HasEntry(sites[s].op)
                                    /\ sites[s].end - 4 \in Nat /\ sites[s].end <= bytes
        /\ \A r, s \in 1..Len(sites) : r < s => sites[r].end < sites[s].end
    BY DEF IInv, SitesFollow, Operand
  <1>9. \A s \in 1..Len(sites) : sites[s].end \in Int
    <2>1. \A s \in 1..Len(sites) : sites[s] \in Site
      BY <1>0, ElementOfSeq
    <2>. QED BY <2>1 DEF Site
  <1>10. SitesFollow'
    <2>1. ASSUME NEW s \in 1..Len(sites')
          PROVE  /\ sites'[s].op \in 1..Len(ops)
                 /\ sites'[s].table \in ops[sites'[s].op].table..Gen
                 /\ sites'[s].recorded => HasEntry(sites'[s].op)
                 /\ sites'[s].end - 4 \in Nat /\ sites'[s].end <= bytes'
      <3>1. CASE s = Len(sites) + 1
        <4>1. ops[k].table \in 1..Gen
          BY DEF IInv, EntriesKept
        <4>. QED BY <1>0, <1>3, <1>4, <1>6, <3>1, <4>1
      <3>2. CASE s \in 1..Len(sites)
        <4>1. sites[s].end \in Int
          BY <1>9, <3>2
        <4>. QED BY <1>0, <1>3, <1>6, <1>8, <3>2, <4>1
      <3>. QED BY <1>6, <3>1, <3>2
    <2>2. ASSUME NEW r \in 1..Len(sites'), NEW s \in 1..Len(sites'), r < s
          PROVE  sites'[r].end < sites'[s].end
      <3>1. r \in 1..Len(sites) /\ sites[r].end \in Int
        BY <1>0, <1>6, <1>9, <2>2
      <3>2. CASE s = Len(sites) + 1
        BY <1>0, <1>4, <1>6, <1>8, <3>1, <3>2
      <3>3. CASE s \in 1..Len(sites)
        BY <1>6, <1>8, <2>2, <3>1, <3>3
      <3>. QED BY <1>6, <3>2, <3>3
    <2>3. /\ Len(ops') = Len(ops) /\ \A j \in 1..Len(ops) : HasEntry(j)' = HasEntry(j)
          /\ \A j \in 1..Len(ops) : ops'[j].table = ops[j].table
      BY EntriesStay DEF OpsSame
    <2>. QED BY <1>3, <2>1, <2>2, <2>3 DEF SitesFollow, Operand
  <1>11. PatchedSoFar' /\ \A s \in 1..Len(sites') : code'[s] # NULL => Means(s)'
    BY <1>7, NothingPatchedYet
  <1>12. ASSUME NEW j \in 1..Len(ops), NEW t \in 1..Gen
         PROVE  LocationsOf(j, t)' =
                  IF j = k /\ ops[k].patched /\ t = Gen
                    THEN LocationsOf(j, t) \union {Location} ELSE LocationsOf(j, t)
    <2>1. Gen <= t <=> t = Gen
      BY <1>0
    <2>. DEFINE new == {s \in 1..Len(sites') : sites'[s].op = j /\ sites'[s].recorded /\ sites'[s].table <= t}
                old == {s \in 1..Len(sites) : sites[s].op = j /\ sites[s].recorded /\ sites[s].table <= t}
    <2>2. new = old \union {s \in {Len(sites) + 1} : k = j /\ ops[k].patched /\ t = Gen}
      BY <1>0, <1>4, <1>6, <2>1
    <2>3. /\ LocationsOf(j, t)' = {sites'[s].end - 4 : s \in new}
          /\ LocationsOf(j, t) = {sites[s].end - 4 : s \in old}
      BY DEF LocationsOf
    <2>4. {sites'[s].end - 4 : s \in old} = {sites[s].end - 4 : s \in old}
      BY <1>6
    <2>5. sites'[Len(sites) + 1].end - 4 = Location
      BY <1>0, <1>4, <1>6
    <2>. HIDE DEF new, old
    <2>. QED BY <2>2, <2>3, <2>4, <2>5
  <1>. QED BY <1>5, <1>6, <1>7, <1>10, <1>11, <1>12 DEF Site

\* What is said of operands, tables, pointers and instructions stays true when
\* only the code and the phase change; with the phase, the literals' limit.
LEMMA UnchangedKeeps ==
    ASSUME IInv, UNCHANGED <<bytes, tables, maps, lits, datasize, ops, sites>>,
           Len(lits) > LitRoom => pc' = "overrun"
    PROVE  /\ EntriesKept' /\ PointersLead' /\ SitesFollow' /\ LocationsKept'
           /\ LiteralsInPlace' /\ NextBehind'
  <1>1. /\ sites' = sites /\ ops' = ops /\ tables' = tables /\ maps' = maps
        /\ bytes' = bytes /\ lits' = lits /\ datasize' = datasize
    OBVIOUS
  <1>2. EntriesKept'
    BY <1>1 DEF IInv, EntriesKept, HasEntry, Gen
  <1>3. PointersLead'
    BY <1>1 DEF IInv, PointersLead, HasEntry, NoEntry
  <1>4. SitesFollow'
    BY <1>1 DEF IInv, SitesFollow, HasEntry, Gen, Operand
  <1>5. LocationsKept'
    <2>1. ASSUME NEW k \in 1..Len(ops), NEW t \in ops[k].table..Gen
          PROVE  LocationsOf(k, t)' = LocationsOf(k, t)
      BY <1>1 DEF LocationsOf
    <2>. QED BY <1>1, <2>1 DEF IInv, LocationsKept, HasEntry, Gen
  <1>6. LiteralsInPlace' /\ NextBehind'
    BY <1>1 DEF IInv, OnlyOwnAddress, LiteralsInPlace, LiteralsBefore, BehindPrevious, NextBehind
  <1>. QED BY <1>2, <1>3, <1>4, <1>5, <1>6

\* inst1 and inst2 keep the invariant.
LEMMA InstKeepsIInv ==
    ASSUME IInv, Inst
    PROVE  IInv'
  <1>0. /\ TypeOK /\ Gen \in Nat \ {0} /\ Len(ops) \in Nat /\ ops \in Seq(Op)
        /\ tables \in Seq(Seq(Entry)) /\ Len(tables) = Gen
        /\ pls = tables[Gen] /\ Len(pls) \in Nat
    BY TableTypes DEF IInv, OnlyOwnAddress, TypeOK, Op, Gen, pls
  <1>1. ASSUME NEW k \in 1..Len(ops), InstPatched(k)
        PROVE  IInv'
    <2>1. /\ pc = "build" /\ ops[k].patched /\ HasEntry(k) /\ Emit(k)
          /\ tables' = [tables EXCEPT ![Gen][ops[k].idx].locs = @ \union {Location}]
          /\ ops' = [ops EXCEPT ![k].patched = FALSE] /\ last' = FALSE
          /\ UNCHANGED <<room, maps, lits, datasize, pc>>
      BY <1>1 DEF InstPatched, HasEntry
    <2>2. OpsSame
      <3>1. ops[k] \in Op
        BY <1>0, ElementOfSeq
      <3>. DEFINE plain == [ops[k] EXCEPT !.patched = FALSE]
      <3>2. /\ plain \in Op /\ plain.name = ops[k].name /\ plain.rva = ops[k].rva
            /\ plain.table = ops[k].table /\ plain.idx = ops[k].idx
        BY <3>1 DEF Op
      <3>3. ops' = [ops EXCEPT ![k] = plain]
        BY <2>1
      <3>. HIDE DEF plain
      <3>4. /\ ops' \in Seq(Op) /\ Len(ops') = Len(ops)
            /\ \A j \in 1..Len(ops) : ops'[j] = IF j = k THEN plain ELSE ops[j]
        BY <1>0, <3>2, <3>3, ExceptSeq
      <3>. QED BY <3>2, <3>4 DEF OpsSame
    <2>3. Location \in Nat /\ ops[k].idx \in 1..Len(pls) /\ ops[k].table \in 1..Gen
      <3>1. ops[k].table \in 1..Gen
        BY DEF IInv, EntriesKept
      <3>2. ops[k].idx \in 1..Len(tables[Gen])
        BY <1>0, <2>1, <3>1 DEF IInv, EntriesKept
      <3>. QED BY <1>0, <3>1, <3>2, SizesAssumption DEF Location, TypeOK
    <2>4. /\ TablesSame
          /\ \A t \in 1..Gen : \A i \in 1..Len(tables[t]) :
               t # Gen \/ i # ops[k].idx => tables'[t][i] = tables[t][i]
          /\ tables'[Gen][ops[k].idx].locs = tables[Gen][ops[k].idx].locs \union {Location}
      <3>. DEFINE x == ops[k].idx
                  loc == Location
      <3>1. x \in 1..Len(pls) /\ loc \in Nat
        BY <2>3
      <3>2. tables' = [tables EXCEPT ![Gen][x].locs = @ \union {loc}]
        BY <2>1
      <3>. HIDE DEF x, loc
      <3>3. /\ tables' \in Seq(Seq(Entry)) /\ Len(tables') = Gen
            /\ \A t \in 1..Gen : /\ Len(tables'[t]) = Len(tables[t])
                                 /\ \A i \in 1..Len(tables[t]) :
                                      /\ tables'[t][i].rva = tables[t][i].rva
                                      /\ t # Gen \/ i # x => tables'[t][i] = tables[t][i]
            /\ tables'[Gen][x].locs = pls[x].locs \union {loc}
        BY <1>0, <3>1, <3>2, LocationAdded
      <3>. QED BY <1>0, <3>3 DEF TablesSame, x, loc
    <2>5. /\ EntriesKept' /\ PointersLead' /\ Gen' = Gen
          /\ \A j \in 1..Len(ops) : HasEntry(j)' = HasEntry(j)
      BY <2>1, <2>2, <2>4, EntriesStay
    <2>6. /\ bytes' \in Nat
          /\ sites' \in Seq([op : Nat, end : Nat, table : Nat, recorded : BOOLEAN])
          /\ code' \in Seq(Int \union Functions \union {NULL}) /\ Len(code') = Len(sites')
          /\ SitesFollow' /\ PatchedSoFar'
          /\ \A s \in 1..Len(sites') : code'[s] # NULL => Means(s)'
          /\ \A j \in 1..Len(ops), t \in 1..Gen :
               LocationsOf(j, t)' = IF j = k /\ t = Gen
                                      THEN LocationsOf(j, t) \union {Location} ELSE LocationsOf(j, t)
      BY <2>1, <2>2, <2>4, EmitKeeps
    <2>7. LocationsKept'
      <3>. SUFFICES ASSUME NEW j \in 1..Len(ops), HasEntry(j), NEW t \in ops[j].table..Gen
                    PROVE  tables'[t][ops[j].idx].locs = LocationsOf(j, t)'
        BY <2>2, <2>5 DEF LocationsKept, OpsSame
      <3>0. ops[j].table \in 1..Gen
        BY DEF IInv, EntriesKept
      <3>1. t \in 1..Gen /\ ops[j].idx \in 1..Len(tables[t])
        BY <1>0, <3>0 DEF IInv, EntriesKept
      <3>2. tables[t][ops[j].idx].locs = LocationsOf(j, t)
        BY DEF IInv, LocationsKept
      <3>3. ops[j].idx = ops[k].idx => j = k
        BY <2>1 DEF IInv, EntriesKept
      <3>4. CASE j = k /\ t = Gen
        BY <2>4, <2>6, <3>1, <3>2, <3>4
      <3>5. CASE ~(j = k /\ t = Gen)
        BY <2>4, <2>6, <3>1, <3>2, <3>3, <3>5
      <3>. QED BY <3>4, <3>5
    <2>8. LiteralsInPlace' /\ NextBehind'
      BY <2>1, <2>2, OpsSameKeepsLiterals
    <2>9. TypeOK'
      <3>1. tables' # <<>>
        BY <1>0, <2>4 DEF TablesSame
      <3>. QED BY <1>0, <2>1, <2>2, <2>4, <2>6, <3>1 DEF TypeOK, OpsSame, TablesSame, Op
    <2>. QED BY <2>5, <2>6, <2>7, <2>8, <2>9 DEF IInv, OnlyOwnAddress
  <1>2. ASSUME NEW k \in 1..Len(ops), InstPlain(k)
        PROVE  IInv'
    <2>1. /\ pc = "build" /\ ~ops[k].patched /\ Emit(k)
          /\ UNCHANGED <<tables, room, last, maps, lits, datasize, ops, pc>>
      BY <1>2 DEF InstPlain
    <2>2. OpsSame /\ TablesSame
      BY <1>0, <2>1 DEF OpsSame, TablesSame
    <2>3. /\ EntriesKept' /\ PointersLead' /\ Gen' = Gen
      BY <2>1, <2>2, EntriesStay
    <2>4. /\ bytes' \in Nat
          /\ sites' \in Seq([op : Nat, end : Nat, table : Nat, recorded : BOOLEAN])
          /\ code' \in Seq(Int \union Functions \union {NULL}) /\ Len(code') = Len(sites')
          /\ SitesFollow' /\ PatchedSoFar'
          /\ \A s \in 1..Len(sites') : code'[s] # NULL => Means(s)'
          /\ \A j \in 1..Len(ops), t \in 1..Gen : LocationsOf(j, t)' = LocationsOf(j, t)
      BY <2>1, <2>2, EmitKeeps
    <2>5. LocationsKept'
      <3>. SUFFICES ASSUME NEW j \in 1..Len(ops), HasEntry(j), NEW t \in ops[j].table..Gen
                    PROVE  tables[t][ops[j].idx].locs = LocationsOf(j, t)'
        BY <2>1, <2>3 DEF LocationsKept, HasEntry
      <3>1. t \in 1..Gen
        BY <1>0 DEF IInv, EntriesKept
      <3>. QED BY <2>4, <3>1 DEF IInv, LocationsKept
    <2>6. LiteralsInPlace' /\ NextBehind'
      BY <2>1, <2>2, OpsSameKeepsLiterals
    <2>7. TypeOK'
      BY <1>0, <2>1, <2>4 DEF TypeOK
    <2>. QED BY <2>3, <2>4, <2>5, <2>6, <2>7 DEF IInv, OnlyOwnAddress
  <1>3. ASSUME NEW k \in 1..Len(ops), InstStale(k)
        PROVE  IInv'
    <2>1. /\ pc = "build" /\ pc' = "assert"
          /\ UNCHANGED <<bytes, tables, room, last, maps, lits, datasize, ops, sites, code>>
      BY <1>3 DEF InstStale
    <2>2. PatchedSoFar' /\ \A s \in 1..Len(sites') : code'[s] # NULL => Means(s)'
      BY <2>1, NothingPatched, NothingPatchedYet DEF IInv
    <2>3. TypeOK'
      BY <1>0, <2>1 DEF TypeOK
    <2>4. Len(lits) <= LitRoom /\ Len(lits) \in Nat /\ LitRoom \in Nat
      BY <1>0, <2>1, SizesAssumption DEF IInv, OnlyOwnAddress, LiteralsInPlace, TypeOK
    <2>5. /\ EntriesKept' /\ PointersLead' /\ SitesFollow' /\ LocationsKept'
          /\ LiteralsInPlace' /\ NextBehind'
      BY <2>1, <2>4, UnchangedKeeps
    <2>. QED BY <2>2, <2>3, <2>5 DEF IInv, OnlyOwnAddress
  <1>. QED BY <1>1, <1>2, <1>3 DEF Inst

-----------------------------------------------------------------------------
(* The patching *)

\* An entry's locations lead to no instruction but those of its own operand: the
\* one that is patched with a name's address is the one kept for it.
LEMMA HitIsKept ==
    ASSUME IInv, NEW s \in 1..Len(sites), NEW n \in Names
    PROVE  /\ (maps[n] # NoEntry /\ sites[s].end - 4 \in At(maps[n]).locs)
                <=> (Kept(s) /\ Operand(s).name = n)
           /\ Kept(s) => At(maps[Operand(s).name]).rva = Operand(s).rva
  <1>. DEFINE k == sites[s].op
              loc == sites[s].end - 4
  <1>0. /\ Gen \in Nat \ {0} /\ Len(ops) \in Nat /\ Len(sites) \in Nat
        /\ \A r \in 1..Len(sites) : sites[r].end \in Nat
        /\ \A j \in 1..Len(ops) : ops[j].table \in 1..Gen /\ ops[j].name \in Names
    <2>1. \A r \in 1..Len(sites) : sites[r] \in [op : Nat, end : Nat, table : Nat, recorded : BOOLEAN]
      BY ElementOfSeq DEF IInv, OnlyOwnAddress, TypeOK
    <2>2. \A j \in 1..Len(ops) : ops[j] \in Op
      BY ElementOfSeq DEF IInv, OnlyOwnAddress, TypeOK, Op
    <2>. QED BY <2>1, <2>2, TableTypes DEF IInv, OnlyOwnAddress, EntriesKept, Op
  <1>1. /\ k \in 1..Len(ops) /\ sites[s].table \in ops[k].table..Gen
        /\ sites[s].recorded => HasEntry(k)
        /\ \A r \in 1..Len(sites) : sites[r].end = sites[s].end => r = s
    <2>1. /\ k \in 1..Len(ops) /\ sites[s].table \in ops[k].table..Gen
          /\ sites[s].recorded => HasEntry(k)
      BY DEF IInv, SitesFollow, Operand
    <2>2. \A q, r \in 1..Len(sites) : q < r => sites[q].end < sites[r].end
      BY DEF IInv, SitesFollow
    <2>3. ASSUME NEW r \in 1..Len(sites), sites[r].end = sites[s].end
          PROVE  r = s
      <3>1. ~(r < s) /\ ~(s < r)
        BY <1>0, <2>2, <2>3
      <3>. QED BY <1>0, <3>1
    <2>. QED BY <2>1, <2>3
  <1>2. ASSUME Kept(s)
        PROVE  /\ maps[ops[k].name] # NoEntry /\ loc \in At(maps[ops[k].name]).locs
               /\ At(maps[ops[k].name]).rva = ops[k].rva
    <2>1. /\ sites[s].recorded /\ sites[s].table = ops[k].table /\ HasEntry(k)
          /\ maps[ops[k].name] = [table |-> ops[k].table, idx |-> ops[k].idx]
      BY <1>1, <1>2 DEF Kept, Operand
    <2>2. At(maps[ops[k].name]) = tables[ops[k].table][ops[k].idx]
      BY <2>1 DEF At
    <2>3. ops[k].table \in ops[k].table..Gen
      BY <1>0, <1>1
    <2>4. loc \in LocationsOf(k, ops[k].table)
      BY <1>0, <1>1, <2>1 DEF LocationsOf
    <2>5. maps[ops[k].name] # NoEntry
      BY <2>1 DEF NoEntry, HasEntry
    <2>6. tables[ops[k].table][ops[k].idx].locs = LocationsOf(k, ops[k].table)
      BY <1>1, <2>1, <2>3 DEF IInv, LocationsKept
    <2>7. tables[ops[k].table][ops[k].idx].rva = ops[k].rva
      BY <1>1, <2>1, <2>3 DEF IInv, EntriesKept
    <2>. QED BY <2>2, <2>4, <2>5, <2>6, <2>7
  <1>3. ASSUME maps[n] # NoEntry, loc \in At(maps[n]).locs
        PROVE  Kept(s) /\ ops[k].name = n
    <2>1. PICK j \in 1..Len(ops) : /\ HasEntry(j) /\ ops[j].name = n
                                   /\ maps[n] = [table |-> ops[j].table, idx |-> ops[j].idx]
      BY <1>3 DEF IInv, PointersLead
    <2>2. At(maps[n]) = tables[ops[j].table][ops[j].idx] /\ ops[j].table \in ops[j].table..Gen
      BY <1>0, <2>1 DEF At
    <2>3. loc \in LocationsOf(j, ops[j].table)
      BY <1>3, <2>1, <2>2 DEF IInv, LocationsKept
    <2>4. PICK r \in 1..Len(sites) : /\ sites[r].op = j /\ sites[r].recorded
                                     /\ sites[r].table <= ops[j].table /\ loc = sites[r].end - 4
      BY <2>3 DEF LocationsOf
    <2>5. r = s
      <3>1. sites[r].end \in Nat /\ sites[s].end \in Nat /\ sites[s].end - 4 = sites[r].end - 4
        BY <1>0, <2>4
      <3>2. sites[r].end = sites[s].end
        BY <3>1
      <3>. QED BY <1>1, <3>2
    <2>6. sites[s].table = ops[j].table
      BY <1>0, <1>1, <2>4, <2>5
    <2>. QED BY <2>1, <2>4, <2>5, <2>6 DEF Kept, Operand
  <1>. QED BY <1>1, <1>2, <1>3 DEF Operand

\* Patching the locations of some names, once some others are patched, patches
\* the instructions kept for them, and each with its operand's address.
LEMMA PatchAllPatches ==
    ASSUME IInv, NEW names \in SUBSET Names, PatchAll(names),
           names = Labels \/ names = Literals \/ names = Functions,
           UNCHANGED <<bytes, tables, room, last, maps, lits, datasize, ops, sites>>
    PROVE  /\ code' \in Seq(Int \union Functions \union {NULL}) /\ Len(code') = Len(sites)
           /\ \A s \in 1..Len(sites) :
                /\ code'[s] # NULL <=>
                     Kept(s) /\ (Operand(s).name \in NamesPatched \/ Operand(s).name \in names)
                /\ code'[s] # NULL => Means(s)'
  <1>. DEFINE Value == Int \union Functions \union {NULL}
              new(s) == IF Hits(names, sites[s].end - 4) = {}
                          THEN code[s]
                          ELSE LET n == CHOOSE n \in Hits(names, sites[s].end - 4) : TRUE
                               IN  Address(n, At(maps[n]).rva, sites[s].end - 4)
  <1>0. /\ Len(sites) \in Nat /\ code \in Seq(Value) /\ Len(code) = Len(sites)
        /\ code' = [s \in 1..Len(sites) |-> new(s)] /\ DataBase \in Nat
        /\ sites' = sites /\ ops' = ops
    BY TableTypes, SizesAssumption DEF IInv, OnlyOwnAddress, TypeOK, PatchAll
  <1>. HIDE DEF new
  <1>1. \A s \in 1..Len(sites) : code'[s] = new(s) /\ code[s] \in Value
    BY <1>0, ElementOfSeq
  <1>2. ASSUME NEW s \in 1..Len(sites)
        PROVE  /\ code'[s] \in Value
               /\ code'[s] # NULL <=>
                     Kept(s) /\ (Operand(s).name \in NamesPatched \/ Operand(s).name \in names)
               /\ code'[s] # NULL => Means(s)'
    <2>. DEFINE nm == Operand(s).name
    <2>1. /\ Operand(s)' = Operand(s) /\ sites'[s] = sites[s]
          /\ nm \in Names /\ Operand(s).rva \in Nat /\ sites[s].end \in Nat
      <3>1. sites[s].op \in 1..Len(ops) /\ ops \in Seq(Op)
        BY DEF IInv, SitesFollow, OnlyOwnAddress, TypeOK, Op
      <3>2. ops[sites[s].op] \in Op
        BY <3>1, ElementOfSeq
      <3>3. sites[s] \in [op : Nat, end : Nat, table : Nat, recorded : BOOLEAN]
        BY ElementOfSeq DEF IInv, OnlyOwnAddress, TypeOK
      <3>. QED BY <1>0, <3>2, <3>3 DEF Operand, Op
    <2>2. \A n \in names : n \in Hits(names, sites[s].end - 4) <=> Kept(s) /\ nm = n
      BY HitIsKept DEF Hits
    <2>3. \A n \in Hits(names, sites[s].end - 4) : n \in names
      BY DEF Hits
    <2>4. CASE Kept(s) /\ nm \in names
      <3>1. Hits(names, sites[s].end - 4) = {nm}
        BY <2>2, <2>3, <2>4
      <3>2. At(maps[nm]).rva = Operand(s).rva
        BY <2>1, <2>4, HitIsKept
      <3>3. code'[s] = Address(nm, Operand(s).rva, sites[s].end - 4)
        BY <1>1, <3>1, <3>2 DEF new
      <3>4. CASE nm \in Labels
        <4>1. code'[s] = Operand(s).rva - sites[s].end
          <5>1. code'[s] = Operand(s).rva - (sites[s].end - 4 + 4)
            BY <3>3, <3>4, KindsApart DEF Address
          <5>. QED BY <2>1, <5>1
        <4>2. code'[s] \in Int /\ sites[s].end + code'[s] = Operand(s).rva /\ code'[s] # NULL
          BY <2>1, <4>1, NullAssumption
        <4>. QED BY <2>1, <2>4, <3>4, <4>2, KindsApart DEF Means
      <3>5. CASE nm \in Literals
        <4>1. code'[s] = Operand(s).rva + DataBase
          BY <3>3, <3>5, KindsApart DEF Address
        <4>2. code'[s] \in Int /\ code'[s] - DataBase = Operand(s).rva /\ code'[s] # NULL
          BY <1>0, <2>1, <4>1, NullAssumption
        <4>. QED BY <2>1, <2>4, <3>5, <4>2, KindsApart DEF Means
      <3>6. CASE nm \in Functions
        <4>1. code'[s] = nm /\ nm # NULL
          BY <3>3, <3>6, KindsApart, NullAssumption DEF Address
        <4>. QED BY <2>1, <2>4, <3>6, <4>1, KindsApart DEF Means
      <3>. QED BY <2>1, <3>4, <3>5, <3>6 DEF Names
    <2>5. CASE ~(Kept(s) /\ nm \in names)
      <3>1. Hits(names, sites[s].end - 4) = {}
        BY <2>2, <2>3, <2>5
      <3>2. code'[s] = code[s] /\ code[s] \in Value
        BY <1>1, <3>1 DEF new
      <3>3. code[s] # NULL <=> Kept(s) /\ nm \in NamesPatched
        BY DEF IInv, PatchedSoFar
      <3>4. code[s] # NULL => Means(s)
        BY DEF IInv, OnlyOwnAddress
      <3>5. Means(s)' <=> Means(s)
        BY <2>1, <3>2 DEF Means
      <3>. QED BY <2>5, <3>2, <3>3, <3>4, <3>5
    <2>. QED BY <2>4, <2>5
  <1>3. code' \in Seq(Value) /\ Len(code') = Len(sites)
    BY <1>0, <1>1, <1>2
  <1>. QED BY <1>2, <1>3

\* The three patching loops keep the invariant.
LEMMA PatchKeepsIInv ==
    ASSUME IInv, Patch
    PROVE  IInv'
  <1>1. PICK names \in {Labels, Literals, Functions} :
          /\ PatchAll(names)
          /\ \/ names = Labels /\ pc = "build" /\ pc' = "labels"
             \/ names = Literals /\ pc = "labels" /\ pc' = "literals"
             \/ names = Functions /\ pc = "literals" /\ pc' = "done"
    BY DEF Patch, PatchLabels, PatchLiterals, PatchFunctions
  <1>2. UNCHANGED <<bytes, tables, room, last, maps, lits, datasize, ops, sites>>
    BY DEF Patch, PatchLabels, PatchLiterals, PatchFunctions
  <1>3. names \in SUBSET Names
    BY DEF Names
  <1>4. /\ code' \in Seq(Int \union Functions \union {NULL}) /\ Len(code') = Len(sites)
        /\ \A s \in 1..Len(sites) :
             /\ code'[s] # NULL <=>
                  Kept(s) /\ (Operand(s).name \in NamesPatched \/ Operand(s).name \in names)
             /\ code'[s] # NULL => Means(s)'
    BY <1>1, <1>2, <1>3, PatchAllPatches
  <1>5. NamesPatched' = NamesPatched \union names
    BY <1>1 DEF NamesPatched, Names
  <1>6. PatchedSoFar'
    <2>1. sites' = sites /\ ops' = ops /\ maps' = maps
      BY <1>2
    <2>2. \A s \in 1..Len(sites) : Kept(s)' = Kept(s) /\ Operand(s)' = Operand(s)
      BY <2>1 DEF Kept, Operand
    <2>. QED BY <1>4, <1>5, <2>1, <2>2 DEF PatchedSoFar
  <1>7. TypeOK'
    BY <1>1, <1>2, <1>4 DEF IInv, OnlyOwnAddress, TypeOK
  <1>8. /\ EntriesKept' /\ PointersLead' /\ SitesFollow' /\ LocationsKept'
        /\ LiteralsInPlace' /\ NextBehind'
    <2>1. ~(Len(lits) > LitRoom)
      BY <1>1 DEF IInv, OnlyOwnAddress, LiteralsInPlace
    <2>. QED BY <1>2, <2>1, UnchangedKeeps
  <1>. QED BY <1>2, <1>4, <1>6, <1>7, <1>8 DEF IInv, OnlyOwnAddress

-----------------------------------------------------------------------------
(* The theorems *)

LEMMA InitIInv == Init => IInv
  <1>. SUFFICES ASSUME Init PROVE IInv
    OBVIOUS
  <1>1. /\ bytes = 0 /\ tables = << <<>> >> /\ room = 0 /\ last = TRUE
        /\ maps = [n \in Names |-> NoEntry] /\ lits = <<>> /\ datasize = 0
        /\ ops = <<>> /\ sites = <<>> /\ code = <<>> /\ pc = "build"
        /\ Len(ops) = 0 /\ Len(sites) = 0 /\ Len(lits) = 0
    BY DEF Init
  <1>2. TypeOK
    BY <1>1 DEF TypeOK, NoEntry, Pointer
  <1>3. LiteralsBefore(Len(ops) + 1) = {}
    BY <1>1 DEF LiteralsBefore
  <1>4. LiteralsInPlace /\ NextBehind
    <2>1. Cardinality(LiteralsBefore(Len(ops) + 1)) = Len(lits) /\ ~(Len(lits) > LitRoom)
      <3>1. Cardinality({}) = 0 /\ ~(0 > LitRoom)
        BY FS_EmptySet, SizesAssumption
      <3>. QED BY <1>1, <1>3, <3>1
    <2>. QED BY <1>1, <1>3, <2>1 DEF LiteralsInPlace, NextBehind
  <1>5. EntriesKept /\ PointersLead /\ SitesFollow /\ LocationsKept /\ PatchedSoFar
    BY <1>1 DEF EntriesKept, PointersLead, SitesFollow, LocationsKept, PatchedSoFar
  <1>. QED BY <1>1, <1>2, <1>4, <1>5 DEF IInv, OnlyOwnAddress

\* Every step keeps the invariant.
LEMMA NextKeepsIInv ==
    ASSUME IInv, [Next]_vars
    PROVE  IInv'
  <1>1. CASE Next
    BY <1>1, AskKeepsIInv, InstKeepsIInv, PatchKeepsIInv DEF Next
  <1>2. CASE UNCHANGED vars
    <2>1. /\ UNCHANGED <<bytes, tables, maps, lits, datasize, ops, sites>>
          /\ code' = code /\ pc' = pc /\ room' = room /\ last' = last
      BY <1>2 DEF vars
    <2>2. /\ EntriesKept' /\ PointersLead' /\ SitesFollow' /\ LocationsKept'
          /\ LiteralsInPlace' /\ NextBehind'
      BY <2>1, UnchangedKeeps DEF IInv, OnlyOwnAddress, LiteralsInPlace
    <2>3. TypeOK'
      BY <2>1 DEF IInv, OnlyOwnAddress, TypeOK
    <2>4. \A s \in 1..Len(sites) : /\ Kept(s)' = Kept(s) /\ Operand(s)' = Operand(s)
                                   /\ Means(s)' = Means(s)
      BY <2>1 DEF Kept, Operand, Means
    <2>5. PatchedSoFar' /\ \A s \in 1..Len(sites') : code'[s] # NULL => Means(s)'
      BY <2>1, <2>4 DEF IInv, OnlyOwnAddress, PatchedSoFar, NamesPatched
    <2>. QED BY <2>2, <2>3, <2>5 DEF IInv, OnlyOwnAddress
  <1>. QED BY <1>1, <1>2

\* The inductive invariant holds in every state of every run.
THEOREM Invariance == Spec => []IInv
  BY InitIInv, NextKeepsIInv, PTL DEF Spec

\* An instruction that is patched gets the address its own operand was asked
\* for, and a literal's address is where main.c puts its bytes (x64.c:141-188,
\* main.c:213-231, pe.c:442-458).
THEOREM AddressesAreTheirOwn == Spec => []OnlyOwnAddress
  <1>1. IInv => OnlyOwnAddress
    BY DEF IInv
  <1>. QED BY <1>1, Invariance, PTL

\* After patching, the instructions with an address are exactly those that were
\* the first use of their operand, before the table moved and with no later
\* request for the name (x64.c:129-188).
THEOREM PatchedExactlyIfKept == Spec => []PatchedIfKept
  <1>1. IInv => PatchedIfKept
    <2>. SUFFICES ASSUME IInv, pc = "done", NEW s \in 1..Len(sites)
                  PROVE  Kept(s) <=> code[s] # NULL
      BY DEF PatchedIfKept
    <2>1. sites[s].op \in 1..Len(ops) /\ ops \in Seq(Op)
      BY DEF IInv, SitesFollow, OnlyOwnAddress, TypeOK, Op
    <2>2. ops[sites[s].op] \in Op
      BY <2>1, ElementOfSeq
    <2>3. Operand(s).name \in Names /\ NamesPatched = Names
      BY <2>2 DEF Operand, Op, NamesPatched
    <2>. QED BY <2>3 DEF IInv, PatchedSoFar
  <1>. QED BY <1>1, Invariance, PTL
=============================================================================
