---------------------------- MODULE LayoutProofs ---------------------------
(***************************************************************************)
(* Proofs about the two passes over a function's blocks, for every         *)
(* program: the passes are at each statement in the same scope (InScope),  *)
(* the frame holds what is stored in it, and locals share bytes only where *)
(* an outer block declares one after an inner block.                       *)
(*                                                                         *)
(* Scopes: each statement is in the block that the one before it leaves    *)
(* (Nested), and the stack holds the blocks around that block, each the    *)
(* parent of the next (Around).  Both passes keep it, so a block that is   *)
(* closed is the one on top, and its parent is below it.                   *)
(*                                                                         *)
(* Sums: Bytes is a sum over a set of places (Weigh, with the table of     *)
(* statements as a parameter), so a recorded statement adds its size, a    *)
(* subset weighs no more, and disjoint sets add up.  Each is shown from a  *)
(* smallest set for which it would fail.  While sema runs, the totals of   *)
(* the open blocks that are in no branch cover what was declared outside   *)
(* branches (Summed); a closed block's total goes to its parent's.         *)
(*                                                                         *)
(* Addresses: what is before a local is a set of places whose weight is    *)
(* its address but for the block's offset, the weight of all declared      *)
(* before the block was opened.  Two locals have disjoint bytes unless the *)
(* earlier block's local was declared after the later block was opened,    *)
(* and then the later block is within the earlier.                         *)
(*                                                                         *)
(* And proofs about the executable file (module PEImage), for all imports, *)
(* sizes and alignments: sections and what is written to them do not       *)
(* overlap (SectionsApart, WritesInPlace), the loader finds the imports    *)
(* (LoaderFindsImports), and .data is where it is expected behind imports  *)
(* that fit a page (DataWhereExpected).                                    *)
(*                                                                         *)
(* Where something starts in .idata is a sum over what is before it: over  *)
(* the dlls before for the tables, over the functions before for names,    *)
(* each function having one dll (TableStart, ModuleStart, NameStart).  The *)
(* walk's pointers and offsets are these sums (WalkInv), though it adds    *)
(* them up side by side, and what it has written is what belongs there     *)
(* (TablesInv).  So every write is one of a few (WritesInv), each in the   *)
(* part of the file that is its own (Low, High), and within a part sums    *)
(* keep the writes apart; a slot after a table's last is no function's.    *)
(***************************************************************************)
EXTENDS Frame, PEImage, FiniteSetTheorems, FunctionTheorems, WellFoundedInduction,
        SequenceTheorems, TLAPS

-----------------------------------------------------------------------------
(* The inductive invariant of InScope *)

Block == [parent : Nat, branch : BOOLEAN, size : Nat, total : Nat, offset : Nat,
          locals : [Names -> Nat]]
Statement == [op : {"open", "close"}, block : Nat]
               \union [op : {"decl"}, block : Nat, name : Names, size : Nat, init : Inits]
               \union [op : {"call"}, block : Nat, arity : Nat, size : Nat]

\* the block that statement p leaves its pass in
After(p) == IF p = 0 THEN 1
            ELSE IF prog[p].op = "close" THEN blocks[prog[p].block].parent
            ELSE prog[p].block

\* Each statement is in the block that the one before it leaves.
Nested == \A p \in 1..Len(prog) :
            /\ prog[p].block \in 1..Len(blocks) /\ After(p) \in 1..Len(blocks)
            /\ IF prog[p].op = "open" THEN blocks[prog[p].block].parent = After(p - 1)
                                      ELSE prog[p].block = After(p - 1)

\* The stack holds the blocks around the one the pass is in.
Reached == IF pc = "sema" THEN Len(prog) ELSE at
Around == /\ scopes # <<>> /\ scopes[1] = 1 /\ Scope = After(Reached)
          /\ \A i \in 2..Len(scopes) : blocks[scopes[i]].parent = scopes[i - 1]

IInv == /\ blocks \in Seq(Block) /\ scopes \in Seq(1..Len(blocks))
        /\ prog \in Seq(Statement) /\ at \in 0..Len(prog) /\ offset \in Nat
        /\ blocks # <<>> /\ \A b \in 1..Len(blocks) : blocks[b].parent < b
        /\ Nested /\ Around
        /\ IF pc = "sema" THEN at = 0 ELSE After(Len(prog)) = 1
        /\ pc = "done" => at = Len(prog)

-----------------------------------------------------------------------------
(* The inductive invariant of the sums *)

Statements(op) == {p \in 1..Len(prog) : prog[p].op = op}

\* Blocks are opened in the order of their numbers, and all are.
OpenedInOrder ==
    /\ \A p, q \in Statements("open") : q < p => prog[q].block < prog[p].block
    /\ \A p \in Statements("open") : prog[p].block # 1
    /\ \A b \in 2..Len(blocks) : \E p \in 1..Len(prog) : prog[p] = Open(b)

\* A statement's block has been opened, and the blocks opened since then are in
\* it.
InOpened ==
    \A p \in 1..Len(prog) :
      /\ prog[p].block # 1 => \E q \in 1..p : prog[q] = Open(prog[p].block)
      /\ \A q \in 1..p : prog[q].op = "open" /\ prog[q].block > prog[p].block =>
           prog[p].block \in Ancestors(prog[q].block)

\* A block's local is its declaration's place.
LocalsDeclared ==
    /\ \A b \in 1..Len(blocks), n \in Names : blocks[b].locals[n] # 0 =>
         LET p == blocks[b].locals[n]
         IN  /\ p \in Statements("decl")
             /\ prog[p].block = b /\ prog[p].name = n
    /\ \A p \in Statements("decl") : prog[p].size \in 1..8

\* What sema has added up for an open block that is in no branch, and what the
\* frame was then made for
PlainScopes == {b \in {scopes[i] : i \in 1..Len(scopes)} : ~InBranch(b)}
Plain(op) == {p \in Statements(op) : ~InBranch(prog[p].block)}
Totals(B) == SumFunctionOnSet([b \in B |-> blocks[b].total], B)
Summed ==
    IF pc = "sema"
      THEN /\ \A i, j \in 1..Len(scopes) : i < j => scopes[i] < scopes[j]
           /\ \A i \in 1..Len(scopes), c \in 1..Len(blocks) :
                c >= scopes[i] => scopes[i] \in Ancestors(c)
           /\ Bytes(Plain("decl")) <= Totals(PlainScopes)
           /\ \A p \in Plain("call") : \E b \in PlainScopes :
                StackArguments(prog[p]) <= blocks[b].size + blocks[b].total
      ELSE \E size \in 0..frame : /\ frame = StackSize(size)
                                 /\ Bytes(Plain("decl")) <= size
                                 /\ \A p \in Plain("call") : StackArguments(prog[p]) <= size

\* A block's locals start after all that was declared before it.
Offsets ==
    /\ offset = IF pc = "gen" THEN Bytes(Done("decl")) ELSE 0
    /\ blocks[1].offset = 0
    /\ \A b \in Met \ {1} : blocks[b].offset = Bytes({p \in Done("decl") : p < OpenedAt(b)})

SumsIInv == /\ IInv /\ TypeOK
            /\ OpenedInOrder /\ InOpened /\ LocalsDeclared
            /\ Summed /\ Offsets

-----------------------------------------------------------------------------
\* What a step leaves of the blocks: their parents, and it may add blocks.
Extended == /\ blocks' \in Seq(Block)
            /\ Len(blocks) <= Len(blocks')
            /\ \A b \in 1..Len(blocks) : blocks'[b].parent = blocks[b].parent
            /\ \A b \in 1..Len(blocks') : blocks'[b].parent < b

\* A stack of blocks, each in the one below it, up to a block b
Leads(s, B, b) == /\ s \in Seq(1..Len(B)) /\ s # <<>>
                  /\ s[1] = 1 /\ s[Len(s)] = b
                  /\ \A i \in 2..Len(s) : B[s[i]].parent = s[i - 1]

-----------------------------------------------------------------------------

\* Changing fields of a block other than its parent leaves the parents.
LEMMA BlockChanged ==
  ASSUME NEW B \in Seq(Block), NEW b \in 1..Len(B), NEW v \in Block, v.parent = B[b].parent
  PROVE  /\ [B EXCEPT ![b] = v] \in Seq(Block)
         /\ Len([B EXCEPT ![b] = v]) = Len(B)
         /\ \A c \in 1..Len(B) : [B EXCEPT ![b] = v][c].parent = B[c].parent
  BY ExceptSeq

LEMMA StatementTypes ==
  ASSUME NEW b \in Nat
  PROVE  /\ Open(b) \in Statement /\ Open(b).op = "open" /\ Open(b).block = b
         /\ Close(b) \in Statement /\ Close(b).op = "close" /\ Close(b).block = b
         /\ \A n \in Names, size \in Sizes, i \in Inits :
              /\ Decl(b, n, size, i) \in Statement
              /\ Decl(b, n, size, i).op = "decl" /\ Decl(b, n, size, i).block = b
         /\ \A c \in Calls :
              /\ Call(b, c) \in Statement
              /\ Call(b, c).op = "call" /\ Call(b, c).block = b
<1>1. \A c \in Calls : c.arity \in Nat /\ c.size \in Nat
  BY CallsAssumption
<1>2. Sizes \subseteq Nat
  BY SizesAssumption
<1>3. /\ Open(b) \in Statement /\ Open(b).op = "open" /\ Open(b).block = b
      /\ Close(b) \in Statement /\ Close(b).op = "close" /\ Close(b).block = b
  BY DEF Open, Close, Statement
<1>4. ASSUME NEW n \in Names, NEW size \in Sizes, NEW i \in Inits
      PROVE  /\ Decl(b, n, size, i) \in Statement
             /\ Decl(b, n, size, i).op = "decl" /\ Decl(b, n, size, i).block = b
  BY <1>2 DEF Decl, Statement
<1>5. ASSUME NEW c \in Calls
      PROVE  Call(b, c) \in Statement /\ Call(b, c).op = "call" /\ Call(b, c).block = b
  <2>1. c.arity \in Nat /\ c.size \in Nat
    BY <1>1
  <2>. QED BY <2>1 DEF Call, Statement
<1>. QED BY <1>3, <1>4, <1>5

LEMMA Lengths ==
  ASSUME IInv
  PROVE  /\ Len(scopes) \in Nat /\ Len(scopes) >= 1
         /\ Len(blocks) \in Nat /\ Len(blocks) >= 1
         /\ Len(prog) \in Nat
  BY EmptySeq, LenProperties DEF IInv, Around

LEMMA Elements ==
  ASSUME IInv
  PROVE  /\ \A i \in 1..Len(scopes) : scopes[i] \in 1..Len(blocks)
         /\ \A p \in 1..Len(prog) : prog[p] \in Statement
         /\ \A b \in 1..Len(blocks) : blocks[b] \in Block
  BY ElementOfSeq DEF IInv

LEMMA Top ==
  ASSUME IInv
  PROVE  Scope \in 1..Len(blocks) /\ Leads(scopes, blocks, Scope)
  BY Lengths, Elements DEF IInv, Around, Scope, Leads

\* Only the function's body has nothing below it on the stack.
LEMMA OnlyBodyAlone ==
  ASSUME IInv
  PROVE  /\ Len(scopes) = 1 => Scope = 1
         /\ Scope = 1 => Len(scopes) = 1
<1>1. ASSUME Len(scopes) > 1 PROVE Scope # 1
  <2>1. Len(scopes) \in 2..Len(scopes) /\ Len(scopes) - 1 \in 1..Len(scopes)
    BY <1>1, Lengths
  <2>2. blocks[Scope].parent = scopes[Len(scopes) - 1]
    BY <2>1 DEF IInv, Around, Scope
  <2>3. scopes[Len(scopes) - 1] \in 1..Len(blocks)
    BY <2>1, Elements
  <2>4. blocks[Scope].parent < Scope
    BY Top DEF IInv
  <2>. QED BY <2>2, <2>3, <2>4, Lengths
<1>2. Len(scopes) = 1 => Scope = 1
  BY DEF IInv, Around, Scope
<1>3. PICK N \in Nat : N = Len(scopes)
  BY Lengths
<1>4. N >= 1
  BY <1>3, Lengths
<1>5. N = 1 \/ N > 1
  BY <1>3, <1>4
<1>. QED BY <1>1, <1>2, <1>3, <1>5

\* Popping leaves the stack of the block's parent.
LEMMA Popped ==
  ASSUME IInv, Len(scopes) > 1
  PROVE  Leads(Pop, blocks, blocks[Scope].parent)
<1>1. Len(scopes) \in Nat /\ Len(scopes) \in 2..Len(scopes)
  BY Lengths
<1>2. /\ Pop \in Seq(1..Len(blocks))
      /\ Len(Pop) = Len(scopes) - 1
      /\ \A i \in 1..(Len(scopes) - 1) : Pop[i] = scopes[i]
  BY <1>1, SubSeqProperties DEF IInv, Pop
<1>. DEFINE p == Pop
            N == Len(scopes)
<1>3. p[Len(p)] = scopes[N - 1] /\ p[1] = 1
  <2>1. Len(p) = N - 1 /\ N - 1 \in 1..(N - 1) /\ 1 \in 1..(N - 1)
    BY <1>1, <1>2
  <2>. QED BY <2>1, <1>2 DEF IInv, Around
<1>4. blocks[Scope].parent = scopes[Len(scopes) - 1]
  BY <1>1 DEF IInv, Around, Scope
<1>5. \A i \in 2..Len(Pop) : blocks[Pop[i]].parent = Pop[i - 1]
  <2>1. ASSUME NEW i \in 2..(N - 1)
        PROVE  blocks[p[i]].parent = p[i - 1]
    <3>1. i \in 1..(N - 1) /\ i - 1 \in 1..(N - 1) /\ i \in 2..N
      BY <1>1
    <3>2. p[i] = scopes[i] /\ p[i - 1] = scopes[i - 1]
      BY <3>1, <1>2
    <3>. QED BY <3>1, <3>2 DEF IInv, Around
  <2>. QED BY <2>1, <1>2
<1>6. Pop # <<>>
  BY <1>1, <1>2, EmptySeq
<1> QED
  BY <1>2, <1>3, <1>4, <1>5, <1>6 DEF Leads

\* Pushing a block whose parent is on top
LEMMA Pushed ==
  ASSUME NEW B \in Seq(Block), NEW s, NEW t, Leads(s, B, t),
         NEW b \in 1..Len(B), B[b].parent = t
  PROVE  Leads(Append(s, b), B, b)
<1>1. s \in Seq(1..Len(B)) /\ s # <<>> /\ Len(s) \in Nat
  BY LenProperties DEF Leads
<1>2. Len(s) >= 1
  BY <1>1, EmptySeq
<1>3. /\ Append(s, b) \in Seq(1..Len(B)) /\ Append(s, b) # <<>>
      /\ Len(Append(s, b)) = Len(s) + 1
      /\ \A i \in 1..Len(s) : Append(s, b)[i] = s[i]
      /\ Append(s, b)[Len(s) + 1] = b
  BY <1>1, AppendProperties
<1>. DEFINE a == Append(s, b)
<1>4. a[1] = 1 /\ a[Len(a)] = b
  BY <1>1, <1>2, <1>3 DEF Leads
<1>5. ASSUME NEW i \in 2..Len(a) PROVE B[a[i]].parent = a[i - 1]
  <2>1. CASE i = Len(s) + 1
    BY <2>1, <1>1, <1>2, <1>3 DEF Leads
  <2>2. CASE i \in 2..Len(s)
    <3>1. i \in 1..Len(s) /\ i - 1 \in 1..Len(s)
      BY <2>2, <1>1
    <3>2. a[i] = s[i] /\ a[i - 1] = s[i - 1]
      BY <3>1, <1>3
    <3>. HIDE DEF a
    <3>. QED BY <2>2, <3>2 DEF Leads
  <2>. QED BY <2>1, <2>2, <1>1, <1>3
<1>. QED BY <1>3, <1>4, <1>5 DEF Leads

\* A stack leads as before when blocks are added and keep their parents.
LEMMA LeadsStill ==
  ASSUME IInv, Extended, NEW s, NEW b, Leads(s, blocks, b)
  PROVE  Leads(s, blocks', b)
<1>1. Len(blocks) \in Nat /\ Len(blocks') \in Nat /\ s \in Seq(1..Len(blocks)) /\ Len(s) \in Nat
  BY Lengths, LenProperties DEF Extended, Leads
<1>2. \A i \in 1..Len(s) : s[i] \in 1..Len(blocks)
  BY <1>1, ElementOfSeq
<1>3. 1..Len(blocks) \subseteq 1..Len(blocks')
  BY <1>1 DEF Extended
<1>4. s \in Seq(1..Len(blocks'))
  BY <1>1, <1>2, <1>3, SeqDef
<1>5. \A i \in 2..Len(s) : blocks'[s[i]].parent = s[i - 1]
  BY <1>1, <1>2 DEF Leads, Extended
<1>. QED BY <1>4, <1>5 DEF Leads

-----------------------------------------------------------------------------
(* The steps of sema *)

\* What follows from a statement being recorded in the block the pass is in,
\* with the stack as that statement leaves it
LEMMA SemaKeeps ==
  ASSUME IInv, pc = "sema", Extended,
         NEW st \in Statement, Sema(st),
         st.block \in 1..Len(blocks'),
         IF st.op = "open" THEN blocks'[st.block].parent = Scope ELSE st.block = Scope,
         NEW t \in 1..Len(blocks'),
         t = IF st.op = "close" THEN blocks'[st.block].parent ELSE st.block,
         Leads(scopes', blocks', t)
  PROVE  IInv'
<1>0. PICK N \in Nat : N = Len(prog)
  BY Lengths
<1>1. Len(blocks) \in Nat /\ Len(blocks') \in Nat /\ Len(blocks) <= Len(blocks')
  BY Lengths, LenProperties DEF Extended
<1>2. /\ prog' \in Seq(Statement) /\ Len(prog') = N + 1 /\ prog'[N + 1] = st
      /\ \A p \in 1..N : prog'[p] = prog[p]
  BY <1>0, AppendProperties DEF Sema, IInv
<1>3. \A p \in 0..N : /\ After(p) \in 1..Len(blocks) /\ After(p)' = After(p)
  <2>1. 1 \in 1..Len(blocks)
    BY Lengths
  <2>2. ASSUME NEW p \in 1..N PROVE After(p) \in 1..Len(blocks) /\ After(p)' = After(p)
    <3>1. prog[p].block \in 1..Len(blocks) /\ After(p) \in 1..Len(blocks)
      BY <1>0 DEF IInv, Nested
    <3>2. blocks'[prog[p].block].parent = blocks[prog[p].block].parent
      BY <3>1 DEF Extended
    <3>. QED BY <3>1, <3>2, <1>1, <1>2 DEF After
  <2>. QED BY <2>1, <2>2, <1>1 DEF After
<1>4. Scope = After(N)
  BY <1>0 DEF IInv, Around, Reached
<1>5. After(N + 1)' = t
  BY <1>1, <1>2 DEF After
<1>6. Nested'
  <2>1. ASSUME NEW p \in 1..N
        PROVE  /\ prog'[p].block \in 1..Len(blocks') /\ After(p)' \in 1..Len(blocks')
               /\ IF prog'[p].op = "open" THEN blocks'[prog'[p].block].parent = After(p - 1)'
                                          ELSE prog'[p].block = After(p - 1)'
    <3>1. /\ prog[p].block \in 1..Len(blocks)
          /\ IF prog[p].op = "open" THEN blocks[prog[p].block].parent = After(p - 1)
                                    ELSE prog[p].block = After(p - 1)
      BY <1>0 DEF IInv, Nested
    <3>2. p \in 0..N /\ p - 1 \in 0..N
      BY <1>1
    <3>3. blocks'[prog[p].block].parent = blocks[prog[p].block].parent
      BY <3>1 DEF Extended
    <3>4. prog'[p] = prog[p] /\ After(p)' = After(p) /\ After(p) \in 1..Len(blocks)
      BY <3>2, <1>2, <1>3
    <3>5. After(p - 1)' = After(p - 1)
      <4>1. \A q \in 0..N : After(q)' = After(q)
        BY <1>3
      <4>. QED BY <4>1, <3>2
    <3>6. prog[p].block \in 1..Len(blocks') /\ After(p) \in 1..Len(blocks')
      BY <3>1, <3>4, <1>1
    <3>. QED BY <3>1, <3>3, <3>4, <3>5, <3>6
  <2>2. /\ prog'[N + 1].block \in 1..Len(blocks') /\ After(N + 1)' \in 1..Len(blocks')
        /\ IF prog'[N + 1].op = "open" THEN blocks'[prog'[N + 1].block].parent = After(N)'
                                       ELSE prog'[N + 1].block = After(N)'
    BY <1>1, <1>2, <1>3, <1>4, <1>5
  <2>3. \A p \in 1..(N + 1) : p \in 1..N \/ (p = N + 1 /\ p - 1 = N)
    BY <1>1
  <2>. QED BY <2>1, <2>2, <2>3, <1>2 DEF Nested
<1>7. Around'
  <2>1. Reached' = N + 1
    BY <1>2 DEF Reached, Sema
  <2>2. Scope' = t
    BY DEF Scope, Leads
  <2>. QED BY <1>2, <1>5, <2>1, <2>2 DEF Around, Leads
<1>8. /\ blocks' \in Seq(Block) /\ scopes' \in Seq(1..Len(blocks'))
      /\ at' \in 0..Len(prog') /\ offset' \in Nat /\ at' = 0 /\ pc' = "sema"
      /\ blocks' # <<>> /\ \A b \in 1..Len(blocks') : blocks'[b].parent < b
  <2>1. blocks' # <<>>
    BY <1>1, Lengths, EmptySeq
  <2>. QED BY <2>1, <1>1, <1>2 DEF IInv, Sema, Leads, Extended
<1>. QED BY <1>2, <1>6, <1>7, <1>8 DEF IInv

\* No step changes a block's parent, and if it adds none, that is all.
LEMMA UnchangedShape ==
  ASSUME IInv, blocks' \in Seq(Block), Len(blocks') = Len(blocks),
         \A c \in 1..Len(blocks) : blocks'[c].parent = blocks[c].parent
  PROVE  Extended
<1>1. Len(blocks) \in Nat
  BY Lengths
<1>2. ASSUME NEW c \in 1..Len(blocks') PROVE blocks'[c].parent < c
  BY <1>1 DEF IInv
<1>. QED BY <1>1, <1>2 DEF Extended

\* A block that closes keeps its parent, as every other.
LEMMA ClosedShape ==
  ASSUME IInv, NEW s \in 1..Len(blocks)
  PROVE  /\ Closed(s) \in Seq(Block) /\ Len(Closed(s)) = Len(blocks)
         /\ \A c \in 1..Len(blocks) : Closed(s)[c].parent = blocks[c].parent
<1>. DEFINE v == [blocks[s] EXCEPT !.size = @ + blocks[s].total]
<1>1. v \in Block /\ v.parent = blocks[s].parent
  BY Elements DEF Block
<1>2. Closed(s) = [blocks EXCEPT ![s] = v]
  BY DEF Closed
<1>. HIDE DEF v
<1>. QED BY <1>1, <1>2, BlockChanged DEF IInv

LEMMA SemaOpenKeeps ==
  ASSUME IInv, NEW branch \in BOOLEAN, SemaOpen(branch)
  PROVE  IInv'
<1>0. PICK b \in Nat : b = Len(blocks) + 1
  BY Lengths
<1>. DEFINE B == NewBlock(Scope, branch)
<1>1. /\ pc = "sema" /\ Sema(Open(b))
      /\ blocks' = Append(blocks, B)
      /\ scopes' = Append(scopes, b)
  BY <1>0 DEF SemaOpen, Sema
<1>2. Scope \in Nat /\ Scope \in 1..Len(blocks) /\ Scope < b
  BY <1>0, Top, Lengths
<1>3. B \in Block /\ B.parent = Scope
  BY <1>2 DEF NewBlock, Block
<1>. HIDE DEF B
<1>4. /\ blocks' \in Seq(Block) /\ Len(blocks') = b /\ blocks'[b] = B
      /\ \A c \in 1..Len(blocks) : blocks'[c] = blocks[c]
  BY <1>0, <1>1, <1>3, AppendProperties DEF IInv
<1>5. \A c \in 1..b : blocks'[c].parent < c
  <2>1. \A c \in 1..b : c = b \/ c \in 1..Len(blocks)
    BY <1>0, Lengths
  <2>. QED BY <2>1, <1>2, <1>3, <1>4 DEF IInv
<1>6. Extended
  BY <1>0, <1>4, <1>5, Lengths DEF Extended
<1>7. b \in 1..Len(blocks')
  BY <1>0, <1>4, Lengths
<1>8. Leads(scopes', blocks', b)
  BY <1>1, <1>3, <1>4, <1>6, <1>7, Top, LeadsStill, Pushed
<1>. QED BY <1>1, <1>3, <1>4, <1>6, <1>7, <1>8, StatementTypes, SemaKeeps

LEMMA SemaCloseKeeps ==
  ASSUME IInv, SemaClose
  PROVE  IInv'
<1>0. PICK s \in 1..Len(blocks) : s = Scope
  BY Top
<1>1. /\ pc = "sema" /\ Len(scopes) > 1 /\ Sema(Close(s))
      /\ blocks' = Counted(s)
      /\ scopes' = Pop
  BY <1>0 DEF SemaClose, Sema
<1>2. PICK q \in 1..Len(blocks) : q = blocks[s].parent
  <2>1. Leads(Pop, blocks, blocks[s].parent)
    BY <1>0, <1>1, Popped
  <2>2. Len(Pop) \in Nat /\ Len(Pop) >= 1 /\ Pop \in Seq(1..Len(blocks))
    BY <2>1, EmptySeq, LenProperties DEF Leads
  <2>. QED BY <2>1, <2>2, ElementOfSeq DEF Leads
<1>3. /\ Closed(s) \in Seq(Block) /\ Len(Closed(s)) = Len(blocks)
      /\ \A c \in 1..Len(blocks) : Closed(s)[c].parent = blocks[c].parent
  BY ClosedShape
<1>4. /\ blocks' \in Seq(Block) /\ Len(blocks') = Len(blocks)
      /\ \A c \in 1..Len(blocks) : blocks'[c].parent = blocks[c].parent
  <2>. DEFINE C == Closed(s)
              v == [C[q] EXCEPT !.total = @ + C[s].size]
  <2>1. CASE blocks[s].branch
    BY <2>1, <1>1, <1>3 DEF Counted
  <2>2. CASE ~blocks[s].branch
    <3>1. C[q] \in Block /\ C[s] \in Block
      BY <1>3, ElementOfSeq
    <3>2. v \in Block /\ v.parent = C[q].parent
      <4>1. PICK r \in Block, n \in Nat : r = C[q] /\ n = C[s].size
        BY <3>1 DEF Block
      <4>. HIDE DEF C
      <4>2. v = [r EXCEPT !.total = @ + n]
        BY <4>1
      <4>. QED BY <4>1, <4>2 DEF Block
    <3>3. blocks' = [C EXCEPT ![q] = v]
      BY <2>2, <1>1, <1>2 DEF Counted
    <3>. HIDE DEF C, v
    <3>4. C \in Seq(Block) /\ q \in 1..Len(C)
      BY <1>3 DEF C
    <3>5. /\ blocks' \in Seq(Block) /\ Len(blocks') = Len(C)
          /\ \A c \in 1..Len(C) : blocks'[c].parent = C[c].parent
      BY <3>2, <3>3, <3>4, BlockChanged
    <3>. QED BY <3>5, <1>3 DEF C
  <2>. QED BY <2>1, <2>2
<1>5. Extended
  BY <1>4, UnchangedShape
<1>6. Leads(scopes', blocks', q)
  BY <1>0, <1>1, <1>2, <1>5, Popped, LeadsStill
<1>. QED BY <1>0, <1>1, <1>2, <1>4, <1>5, <1>6, StatementTypes, SemaKeeps

LEMMA SemaDeclKeeps ==
  ASSUME IInv, NEW n \in Names, NEW size \in Sizes, NEW init \in Inits, SemaDecl(n, size, init)
  PROVE  IInv'
<1>0. PICK s \in 1..Len(blocks) : s = Scope
  BY Top
<1>. DEFINE add == IF init = "same type" THEN size ELSE 0
            r == blocks[s]
            v == [r EXCEPT !.size = @ + add, !.total = @ + size, !.locals[n] = Len(prog) + 1]
<1>1. /\ pc = "sema" /\ Sema(Decl(s, n, size, init))
      /\ blocks' = [blocks EXCEPT ![s] = v]
      /\ scopes' = scopes
  BY <1>0 DEF SemaDecl, Sema
<1>2. add \in Nat /\ size \in Nat /\ Len(prog) + 1 \in Nat
  <2>1. Sizes \subseteq Nat
    BY SizesAssumption
  <2>2. size \in Nat /\ add \in Nat
    BY <2>1
  <2>3. Len(prog) + 1 \in Nat
    <3>1. PICK N \in Nat : N = Len(prog)
      BY Lengths
    <3>2. N + 1 \in Nat
      OBVIOUS
    <3>. QED BY <3>1, <3>2
  <2>. QED BY <2>2, <2>3
<1>3. v \in Block /\ v.parent = r.parent
  <2>1. r \in Block
    BY Elements
  <2>2. PICK a \in Nat, b \in Nat, p \in Nat : a = add /\ b = size /\ p = Len(prog) + 1
    BY <1>2
  <2>. HIDE DEF add, r
  <2>3. v = [r EXCEPT !.size = @ + a, !.total = @ + b, !.locals[n] = p]
    BY <2>2
  <2>4. [r.locals EXCEPT ![n] = p] \in [Names -> Nat]
    BY <2>1 DEF Block
  <2>5. r.size + a \in Nat /\ r.total + b \in Nat
    BY <2>1 DEF Block
  <2>6. v = [r EXCEPT !.size = r.size + a, !.total = r.total + b,
                      !.locals = [r.locals EXCEPT ![n] = p]]
    BY <2>1, <2>3 DEF Block
  <2>. QED BY <2>1, <2>4, <2>5, <2>6 DEF Block
<1>. HIDE DEF add, r
<1>. HIDE DEF v
<1>4. Extended /\ Len(blocks') = Len(blocks) /\ s \in 1..Len(blocks')
  <2>1. /\ blocks' \in Seq(Block) /\ Len(blocks') = Len(blocks)
        /\ \A c \in 1..Len(blocks) : blocks'[c].parent = blocks[c].parent
    BY <1>1, <1>3, BlockChanged DEF IInv, r
  <2>. QED BY <2>1, UnchangedShape
<1>5. Leads(scopes', blocks', s)
  BY <1>0, <1>1, <1>4, Top, LeadsStill
<1>6. PICK st \in Statement : st = Decl(s, n, size, init) /\ st.op = "decl" /\ st.block = s
  BY StatementTypes
<1>. QED BY <1>0, <1>1, <1>4, <1>5, <1>6, SemaKeeps

LEMMA SemaCallKeeps ==
  ASSUME IInv, NEW c \in Calls, SemaCall(c)
  PROVE  IInv'
<1>0. PICK s \in 1..Len(blocks) : s = Scope
  BY Top
<1>. DEFINE r == blocks[s]
            v == [r EXCEPT !.size = @ + StackArguments(c)]
<1>1. /\ pc = "sema" /\ Sema(Call(s, c))
      /\ blocks' = [blocks EXCEPT ![s] = v]
      /\ scopes' = scopes
  BY <1>0 DEF SemaCall, Sema
<1>2. StackArguments(c) \in Nat
  <2>1. c.arity \in Nat /\ c.size \in Nat
    BY CallsAssumption
  <2>2. PICK x \in Nat, y \in Nat : x = c.size /\ y = c.arity
    BY <2>1
  <2>3. y > 5 => x * (y - 5) \in Nat
    <3>1. y > 5 => y - 5 \in Nat
      OBVIOUS
    <3>2. \A z \in Nat : x * z \in Nat
      OBVIOUS
    <3>. QED BY <3>1, <3>2
  <2>. QED BY <2>2, <2>3 DEF StackArguments
<1>3. r \in Block
  BY Elements
<1>. HIDE DEF r
<1>4. v \in Block /\ v.parent = r.parent
  BY <1>2, <1>3 DEF Block
<1>. HIDE DEF v
<1>5. Extended /\ Len(blocks') = Len(blocks) /\ s \in 1..Len(blocks')
  <2>1. /\ blocks' \in Seq(Block) /\ Len(blocks') = Len(blocks)
        /\ \A d \in 1..Len(blocks) : blocks'[d].parent = blocks[d].parent
    BY <1>1, <1>4, BlockChanged DEF IInv, r
  <2>. QED BY <2>1, UnchangedShape
<1>6. Leads(scopes', blocks', s)
  BY <1>0, <1>1, <1>5, Top, LeadsStill
<1>7. PICK st \in Statement : st = Call(s, c) /\ st.op = "call" /\ st.block = s
  BY StatementTypes
<1>. QED BY <1>0, <1>1, <1>5, <1>6, <1>7, SemaKeeps

-----------------------------------------------------------------------------
(* The steps of the code generator *)

\* What follows from statements being done, with the stack as they leave it
LEMMA GenKeeps ==
  ASSUME IInv, prog' = prog, Len(blocks') = Len(blocks), blocks' \in Seq(Block),
         \A c \in 1..Len(blocks) : blocks'[c].parent = blocks[c].parent,
         pc' # "sema", at' \in 0..Len(prog), offset' \in Nat,
         After(Len(prog)) = 1, pc' = "done" => at' = Len(prog),
         NEW n \in 0..Len(prog), n = at',
         Leads(scopes', blocks, After(n))
  PROVE  IInv'
<1>0. PICK N \in Nat : N = Len(prog)
  BY Lengths
<1>1. Extended
  BY UnchangedShape
<1>2. Len(blocks) \in Nat
  BY Lengths
<1>3. ASSUME NEW p \in 0..N PROVE After(p)' = After(p)
  <2>1. CASE p = 0
    BY <2>1 DEF After
  <2>2. CASE p \in 1..N
    <3>1. prog[p].block \in 1..Len(blocks)
      BY <2>2, <1>0 DEF IInv, Nested
    <3>. QED BY <3>1 DEF After
  <2>. QED BY <2>1, <2>2, <1>0
<1>4. Nested'
  <2>1. ASSUME NEW p \in 1..N
        PROVE  /\ prog'[p].block \in 1..Len(blocks') /\ After(p)' \in 1..Len(blocks')
               /\ IF prog'[p].op = "open" THEN blocks'[prog'[p].block].parent = After(p - 1)'
                                          ELSE prog'[p].block = After(p - 1)'
    <3>1. /\ prog[p].block \in 1..Len(blocks) /\ After(p) \in 1..Len(blocks)
          /\ IF prog[p].op = "open" THEN blocks[prog[p].block].parent = After(p - 1)
                                    ELSE prog[p].block = After(p - 1)
      BY <1>0 DEF IInv, Nested
    <3>2. p \in 0..N /\ p - 1 \in 0..N
      BY <1>0
    <3>3. After(p)' = After(p)
      BY <3>2, <1>3
    <3>4. After(p - 1)' = After(p - 1)
      <4>1. \A q \in 0..N : After(q)' = After(q)
        BY <1>3
      <4>. QED BY <4>1, <3>2
    <3>. QED BY <3>1, <3>3, <3>4
  <2>. QED BY <2>1, <1>0 DEF Nested
<1>5. Leads(scopes', blocks', After(n))
  BY <1>1, LeadsStill
<1>6. After(n)' = After(n) /\ After(N)' = 1
  BY <1>0, <1>3
<1>7. Around'
  <2>1. Reached' = n /\ Scope' = After(n)
    BY <1>5 DEF Reached, Scope, Leads
  <2>. QED BY <2>1, <1>5, <1>6 DEF Around, Leads
<1>8. /\ scopes' \in Seq(1..Len(blocks')) /\ blocks' # <<>>
      /\ \A b \in 1..Len(blocks') : blocks'[b].parent < b
  <2>1. blocks' # <<>>
    BY Lengths, EmptySeq
  <2>. QED BY <2>1, <1>1, <1>5 DEF Leads, Extended
<1>. QED BY <1>0, <1>4, <1>6, <1>7, <1>8 DEF IInv

LEMMA GenFunctionKeeps ==
  ASSUME IInv, GenFunction
  PROVE  IInv'
<1>1. 1 \in 1..Len(blocks)
  BY Lengths
<1>2. /\ blocks' \in Seq(Block) /\ Len(blocks') = Len(blocks)
      /\ \A c \in 1..Len(blocks) : blocks'[c].parent = blocks[c].parent
  BY <1>1, ClosedShape DEF GenFunction
<1>3. at' = 0 /\ 0 \in 0..Len(prog) /\ After(0) = 1
  BY Lengths DEF GenFunction, IInv, After
<1>4. Scope = 1 /\ After(Len(prog)) = 1
  BY OnlyBodyAlone DEF GenFunction, IInv, Around, Reached
<1>5. Leads(scopes', blocks, After(0))
  BY <1>3, <1>4, Top DEF GenFunction
<1>. QED BY <1>2, <1>3, <1>4, <1>5, GenKeeps DEF GenFunction, IInv

\* The statement that the generator does next, and the block it is in
LEMMA Next1 ==
  ASSUME IInv, NEW op, Gen(op)
  PROVE  \E n \in 1..Len(prog) :
           /\ n = at + 1 /\ at' = n /\ n \in 0..Len(prog) /\ pc' # "sema" /\ pc' # "done"
           /\ prog' = prog /\ After(Len(prog)) = 1
           /\ prog[n].op = op /\ prog[n] \in Statement
           /\ prog[n].block \in 1..Len(blocks) /\ After(n) \in 1..Len(blocks)
           /\ IF op = "open" THEN blocks[prog[n].block].parent = Scope
                             ELSE prog[n].block = Scope
<1>1. PICK n \in 1..Len(prog) : n = at + 1
  BY Lengths DEF IInv, Gen
<1>2. at' = n /\ pc' = "gen" /\ pc = "gen" /\ prog' = prog /\ prog[n].op = op
  BY <1>1 DEF Gen
<1>3. n - 1 = at /\ Reached = at
  BY <1>1, <1>2 DEF IInv, Reached
<1>4. Scope = After(n - 1)
  BY <1>3 DEF IInv, Around
<1>5. /\ prog[n].block \in 1..Len(blocks) /\ After(n) \in 1..Len(blocks)
      /\ IF prog[n].op = "open" THEN blocks[prog[n].block].parent = After(n - 1)
                                ELSE prog[n].block = After(n - 1)
  BY DEF IInv, Nested
<1>6. After(Len(prog)) = 1 /\ prog[n] \in Statement
  BY <1>2, Elements DEF IInv
<1>7. n \in 0..Len(prog)
  BY Lengths
<1>. QED BY <1>1, <1>2, <1>4, <1>5, <1>6, <1>7

LEMMA GenOpenKeeps ==
  ASSUME IInv, GenOpen
  PROVE  IInv'
<1>1. PICK n \in 1..Len(prog) :
           /\ n = at + 1 /\ at' = n /\ n \in 0..Len(prog) /\ pc' # "sema" /\ pc' # "done"
           /\ prog' = prog /\ After(Len(prog)) = 1
           /\ prog[n].op = "open" /\ prog[n] \in Statement
           /\ prog[n].block \in 1..Len(blocks) /\ After(n) \in 1..Len(blocks)
           /\ blocks[prog[n].block].parent = Scope
  BY Next1 DEF GenOpen
<1>. DEFINE b == prog[n].block
            v == [blocks[b] EXCEPT !.offset = offset]
<1>2. After(n) = b
  BY <1>1 DEF After
<1>3. v \in Block /\ v.parent = blocks[b].parent
  <2>1. blocks[b] \in Block /\ offset \in Nat
    BY <1>1, Elements DEF IInv
  <2>. QED BY <2>1 DEF Block
<1>4. blocks' = [blocks EXCEPT ![b] = v] /\ scopes' = Append(scopes, b) /\ offset' = offset
  BY <1>1 DEF GenOpen
<1>. HIDE DEF v
<1>5. /\ blocks' \in Seq(Block) /\ Len(blocks') = Len(blocks)
      /\ \A c \in 1..Len(blocks) : blocks'[c].parent = blocks[c].parent
  BY <1>1, <1>3, <1>4, BlockChanged DEF IInv
<1>6. Leads(scopes', blocks, b)
  BY <1>1, <1>4, Top, Pushed DEF IInv
<1>7. offset' \in Nat /\ at' \in 0..Len(prog)
  BY <1>1, <1>4 DEF IInv
<1>. QED BY <1>1, <1>2, <1>5, <1>6, <1>7, GenKeeps

LEMMA GenCloseKeeps ==
  ASSUME IInv, GenClose
  PROVE  IInv'
<1>1. PICK n \in 1..Len(prog) :
           /\ n = at + 1 /\ at' = n /\ n \in 0..Len(prog) /\ pc' # "sema" /\ pc' # "done"
           /\ prog' = prog /\ After(Len(prog)) = 1
           /\ prog[n].op = "close"
           /\ prog[n].block \in 1..Len(blocks) /\ After(n) \in 1..Len(blocks)
           /\ prog[n].block = Scope
  BY Next1 DEF GenClose
<1>2. After(n) = blocks[Scope].parent
  BY <1>1 DEF After
<1>3. Len(scopes) > 1
  <2>1. Scope # 1
    BY <1>1, <1>2, Lengths DEF IInv
  <2>2. PICK N \in Nat : N = Len(scopes) /\ N >= 1
    BY Lengths
  <2>3. N # 1
    BY <2>1, <2>2, OnlyBodyAlone
  <2>. QED BY <2>2, <2>3
<1>4. Leads(scopes', blocks, After(n))
  BY <1>2, <1>3, Popped DEF GenClose
<1>5. blocks' = blocks /\ offset' \in Nat /\ blocks' \in Seq(Block)
  BY DEF GenClose, IInv
<1>. QED BY <1>1, <1>4, <1>5, GenKeeps

\* A step that leaves the scopes, of a statement that is no open or close
LEMMA GenStays ==
  ASSUME IInv, NEW op \in {"decl", "call"}, Gen(op),
         blocks' = blocks, scopes' = scopes, offset' \in Nat
  PROVE  IInv'
<1>1. PICK n \in 1..Len(prog) :
           /\ n = at + 1 /\ at' = n /\ n \in 0..Len(prog) /\ pc' # "sema" /\ pc' # "done"
           /\ prog' = prog /\ After(Len(prog)) = 1
           /\ prog[n].op = op
           /\ prog[n].block \in 1..Len(blocks) /\ After(n) \in 1..Len(blocks)
           /\ prog[n].block = Scope
  BY Next1
<1>2. After(n) = Scope
  BY <1>1 DEF After
<1>3. Leads(scopes', blocks, After(n))
  BY <1>2, Top
<1>4. blocks' \in Seq(Block)
  BY DEF IInv
<1>. QED BY <1>1, <1>3, <1>4, GenKeeps

LEMMA GenDeclKeeps ==
  ASSUME IInv, GenDecl
  PROVE  IInv'
<1>1. PICK n \in 1..Len(prog) :
           n = at + 1 /\ prog[n].op = "decl" /\ prog[n] \in Statement
  BY Next1 DEF GenDecl
<1>2. prog[n].size \in Nat
  BY <1>1 DEF Statement
<1>3. offset' \in Nat
  BY <1>1, <1>2 DEF GenDecl, IInv
<1>. QED BY <1>3, GenStays DEF GenDecl

LEMMA GenCallKeeps ==
  ASSUME IInv, GenCall
  PROVE  IInv'
BY GenStays DEF GenCall, IInv

LEMMA GenEndKeeps ==
  ASSUME IInv, GenEnd
  PROVE  IInv'
<1>1. /\ pc = "gen" /\ at = Len(prog) /\ pc' = "done" /\ offset' = 0
      /\ prog' = prog /\ blocks' = blocks /\ scopes' = scopes /\ at' = at
  BY DEF GenEnd
<1>2. Len(prog) \in 0..Len(prog)
  BY Lengths
<1>3. Scope = After(Len(prog)) /\ After(Len(prog)) = 1
  BY <1>1 DEF IInv, Around, Reached
<1>4. Leads(scopes', blocks, After(Len(prog)))
  BY <1>1, <1>3, Top
<1>. QED BY <1>1, <1>2, <1>3, <1>4, GenKeeps DEF IInv

-----------------------------------------------------------------------------

LEMMA InitIInv == Init => IInv
<1>. SUFFICES ASSUME Init PROVE IInv
  OBVIOUS
<1>1. NewBlock(0, FALSE) \in Block /\ NewBlock(0, FALSE).parent = 0
  BY DEF NewBlock, Block
<1>2. /\ blocks \in Seq(Block) /\ Len(blocks) = 1 /\ blocks[1].parent = 0
      /\ blocks # <<>>
  <2>1. PICK r \in Block : r = NewBlock(0, FALSE) /\ r.parent = 0
    BY <1>1
  <2>2. blocks = <<r>>
    BY <2>1 DEF Init
  <2>3. <<r>> \in Seq(Block) /\ Len(<<r>>) = 1 /\ <<r>>[1] = r
    OBVIOUS
  <2>. QED BY <2>1, <2>2, <2>3, EmptySeq
<1>3. scopes \in Seq(1..1) /\ Len(scopes) = 1 /\ scopes # <<>> /\ scopes[1] = 1
  BY DEF Init
<1>4. prog \in Seq(Statement) /\ Len(prog) = 0 /\ at = 0 /\ offset = 0 /\ pc = "sema"
  BY DEF Init
<1>5. Nested
  BY <1>4 DEF Nested
<1>6. Around
  BY <1>3, <1>4 DEF Around, Scope, After, Reached
<1>. QED BY <1>2, <1>3, <1>4, <1>5, <1>6 DEF IInv

\* For every program, the scopes that the two passes push and pop are those
\* of the blocks the statements are in (sema.c:575-604, x86_asm.c:512-541).
THEOREM Invariance == Spec => []IInv
<1>1. Init => IInv
  BY InitIInv
<1>2. IInv /\ [Next]_vars => IInv'
  <2>. SUFFICES ASSUME IInv, [Next]_vars PROVE IInv'
    OBVIOUS
  <2>1. CASE SemaStep
    BY <2>1, SemaOpenKeeps, SemaCloseKeeps, SemaDeclKeeps, SemaCallKeeps DEF SemaStep
  <2>2. CASE GenStep
    BY <2>2, GenFunctionKeeps, GenOpenKeeps, GenCloseKeeps, GenDeclKeeps, GenCallKeeps,
       GenEndKeeps DEF GenStep
  <2>3. CASE UNCHANGED vars
    BY <2>3 DEF vars, IInv, Nested, Around, Reached, After, Scope
  <2>. QED BY <2>1, <2>2, <2>3 DEF Next
<1>. QED BY <1>1, <1>2, PTL DEF Spec

\* The code generator is at each statement in the scope that sema was in, and
\* back in the function's at its end (x86_asm.c:512-541).
THEOREM PassesInSameScope == Spec => []InScope
<1>1. IInv => InScope
  <2>. SUFFICES ASSUME IInv PROVE InScope
    OBVIOUS
  <2>1. ASSUME pc = "gen", at < Len(prog), prog[at + 1].op # "open"
        PROVE  Scope = prog[at + 1].block
    <3>1. PICK n \in 1..Len(prog) : n = at + 1 /\ n - 1 = at
      BY <2>1, Lengths DEF IInv
    <3>2. prog[n].block = After(n - 1)
      BY <2>1, <3>1 DEF IInv, Nested
    <3>. QED BY <2>1, <3>1, <3>2 DEF IInv, Around, Reached
  <2>2. ASSUME pc = "done" PROVE scopes = <<1>>
    <3>1. Scope = 1
      BY <2>2 DEF IInv, Around, Reached
    <3>2. Len(scopes) = 1 /\ scopes[1] = 1 /\ scopes \in Seq(1..Len(blocks))
      BY <3>1, OnlyBodyAlone DEF IInv, Around
    <3>. QED BY <3>2
  <2>. QED BY <2>1, <2>2 DEF InScope
<1>. QED BY <1>1, Invariance, PTL
-----------------------------------------------------------------------------
(* Sums over finite sets *)

\* A set of sets of a finite set has one that none of them is smaller than.
LEMMA Smallest ==
  ASSUME NEW S, IsFiniteSet(S), NEW Bad \in SUBSET (SUBSET S), Bad # {}
  PROVE  \E T \in Bad : \A U \in Bad : U \subseteq T => U = T
<1>. DEFINE R == StrictSubsetOrdering(S)
<1>1. Bad \in SUBSET FiniteSubsetsOf(S)
  BY FS_FiniteSubsetsOfFinite
<1>2. IsWellFoundedOn(R, FiniteSubsetsOf(S))
  BY FS_StrictSubsetOrderingWellFounded
<1>3. \A U, T \in SUBSET S : <<U, T>> \in R <=> (U \subseteq T /\ U # T)
  BY DEF StrictSubsetOrdering
<1>. HIDE DEF R
<1>4. PICK T \in Bad : \A U \in Bad : ~(<<U, T>> \in R)
  BY <1>1, <1>2, WFMin
<1>. QED BY <1>3, <1>4

Sum(f, S) == SumFunctionOnSet(f, S)
First(S) == CHOOSE x \in S : TRUE

\* g sums f over the subsets of S as the definition does.
Sums(g, f, S) ==
  g = [s \in SUBSET S |-> IF s = {} THEN 0 ELSE f[First(s)] + g[s \ {First(s)}]]

LEMMA SumsValue ==
  ASSUME NEW f, NEW S, NEW g, Sums(g, f, S), NEW s \in SUBSET S
  PROVE  g[s] = IF s = {} THEN 0 ELSE f[First(s)] + g[s \ {First(s)}]
BY Zenon DEF Sums

LEMMA FirstIn ==
  ASSUME NEW s, s # {}
  PROVE  First(s) \in s
BY DEF First

LEMMA SumsAgree ==
  ASSUME NEW f, NEW S, NEW T, NEW g, NEW h, Sums(g, f, S), Sums(h, f, T),
         NEW u \in SUBSET S, u \in SUBSET T, IsFiniteSet(u)
  PROVE  g[u] = h[u]
<1>. DEFINE Bad == {s \in SUBSET u : g[s] # h[s]}
<1>1. SUFFICES ASSUME Bad # {} PROVE FALSE
  OBVIOUS
<1>2. PICK s \in Bad : \A t \in Bad : t \subseteq s => t = s
  <2>1. Bad \in SUBSET (SUBSET u)
    OBVIOUS
  <2>. HIDE DEF Bad
  <2>. QED BY <1>1, <2>1, Smallest
<1>3. s \in SUBSET u /\ s \in SUBSET S /\ s \in SUBSET T /\ g[s] # h[s]
  BY <1>2
<1>. DEFINE x == First(s)
<1>4. /\ g[s] = IF s = {} THEN 0 ELSE f[x] + g[s \ {x}]
      /\ h[s] = IF s = {} THEN 0 ELSE f[x] + h[s \ {x}]
  BY <1>3, SumsValue
<1>5. s # {}
  BY <1>3, <1>4
<1>6. x \in s
  BY <1>5, FirstIn
<1>. HIDE DEF x
<1>7. g[s \ {x}] = h[s \ {x}]
  <2>1. s \ {x} \in SUBSET u /\ s \ {x} \subseteq s /\ s \ {x} # s
    BY <1>3, <1>6
  <2>. QED BY <1>2, <2>1
<1>. QED BY <1>3, <1>4, <1>5, <1>7

LEMMA SumsExists ==
  ASSUME NEW f, NEW S, IsFiniteSet(S)
  PROVE  \E g : Sums(g, f, S)
<1>. DEFINE Bad == {T \in SUBSET S : ~\E g : Sums(g, f, T)}
<1>1. SUFFICES ASSUME Bad # {} PROVE FALSE
  BY Zenon
<1>2. PICK T \in Bad : \A U \in Bad : U \subseteq T => U = T
  <2>1. Bad \in SUBSET (SUBSET S)
    OBVIOUS
  <2>. HIDE DEF Bad
  <2>. QED BY <1>1, <2>1, Smallest
<1>3. T \in SUBSET S /\ ~\E g : Sums(g, f, T)
  BY <1>2
<1>. DEFINE G(U) == CHOOSE g : Sums(g, f, U)
<1>4. ASSUME NEW U \in SUBSET T, U # T PROVE Sums(G(U), f, U)
  <2>1. U \notin Bad /\ U \in SUBSET S
    BY <1>2, <1>3, <1>4
  <2>2. \E g : Sums(g, f, U)
    BY <2>1, Zenon
  <2>. QED BY <2>2, Zenon
<1>. DEFINE W(s) == s \ {First(s)}
            h == [s \in SUBSET T |-> IF s = {} THEN 0 ELSE f[First(s)] + G(W(s))[W(s)]]
<1>. HIDE DEF G
<1>5. ASSUME NEW s \in SUBSET T, s # {}
      PROVE  h[W(s)] = G(W(s))[W(s)]
  <2>. DEFINE w == W(s)
  <2>1. w \in SUBSET T /\ w # T /\ w \subseteq s
    BY <1>5, FirstIn
  <2>2. Sums(G(w), f, w)
    BY <1>4, <2>1
  <2>. HIDE DEF w
  <2>3. CASE w = {}
    <3>1. G(w)[w] = 0
      BY <2>2, <2>3, SumsValue
    <3>2. h[w] = 0
      BY <2>1, <2>3
    <3>. QED BY <3>1, <3>2 DEF w
  <2>4. CASE w # {}
    <3>. DEFINE v == W(w)
    <3>1. v \in SUBSET T /\ v # T /\ v \subseteq w /\ IsFiniteSet(v)
      BY <2>1, <2>4, <1>3, FirstIn, FS_Subset
    <3>2. G(w)[w] = f[First(w)] + G(w)[v]
      BY <2>2, <2>4, SumsValue
    <3>3. h[w] = f[First(w)] + G(v)[v]
      BY <2>1, <2>4
    <3>. HIDE DEF v
    <3>4. G(w)[v] = G(v)[v]
      BY <1>4, <2>2, <3>1, SumsAgree
    <3>. HIDE DEF h
    <3>. QED BY <3>2, <3>3, <3>4 DEF w
  <2>. QED BY <2>3, <2>4
<1>6. Sums(h, f, T)
  <2>1. \A s \in SUBSET T : h[s] = IF s = {} THEN 0 ELSE f[First(s)] + h[W(s)]
    <3>1. ASSUME NEW s \in SUBSET T
          PROVE  h[s] = IF s = {} THEN 0 ELSE f[First(s)] + h[W(s)]
      <4>1. CASE s = {}
        BY <4>1
      <4>2. CASE s # {}
        <5>1. h[s] = f[First(s)] + G(W(s))[W(s)]
          BY <4>2
        <5>2. h[W(s)] = G(W(s))[W(s)]
          BY <1>5, <4>2
        <5>. HIDE DEF h, W
        <5>. QED BY <4>2, <5>1, <5>2
      <4>. QED BY <4>1, <4>2
    <3>. QED BY <3>1
  <2>2. h = [s \in SUBSET T |-> h[s]]
    OBVIOUS
  <2>. HIDE DEF h
  <2>. QED BY <2>1, <2>2, Zenon DEF Sums
<1>. QED BY <1>3, <1>6

\* What is left of a sum when the element it starts with is taken out
LEMMA SumFirst ==
  ASSUME NEW f, NEW S, IsFiniteSet(S)
  PROVE  /\ Sum(f, {}) = 0
         /\ S # {} => Sum(f, S) = f[First(S)] + Sum(f, S \ {First(S)})
<1>1. ASSUME NEW T, IsFiniteSet(T)
      PROVE  \E g : Sums(g, f, T) /\ Sum(f, T) = g[T]
  <2>. DEFINE g == CHOOSE h : h = [s \in SUBSET T |-> IF s = {} THEN 0 ELSE
                                      LET x == CHOOSE y \in s : TRUE IN f[x] + h[s \ {x}]]
  <2>1. Sums(g, f, T)
    <3>1. \E h : Sums(h, f, T)
      BY <1>1, SumsExists
    <3>. QED BY <3>1, Zenon DEF Sums, First
  <2>2. Sum(f, T) = g[T]
    BY Zenon DEF Sum, SumFunctionOnSet, FoldFunctionOnSet, MapThenFoldSet
  <2>. QED BY <2>1, <2>2
<1>2. Sum(f, {}) = 0
  BY <1>1, FS_EmptySet, SumsValue
<1>3. ASSUME S # {} PROVE Sum(f, S) = f[First(S)] + Sum(f, S \ {First(S)})
  <2>. DEFINE T == S \ {First(S)}
  <2>1. T \in SUBSET S /\ IsFiniteSet(T)
    BY FS_Subset
  <2>2. PICK g : Sums(g, f, S) /\ Sum(f, S) = g[S]
    BY <1>1
  <2>3. PICK h : Sums(h, f, T) /\ Sum(f, T) = h[T]
    BY <1>1, <2>1
  <2>4. g[S] = f[First(S)] + g[T]
    BY <1>3, <2>2, SumsValue
  <2>. HIDE DEF T
  <2>5. g[T] = h[T]
    BY <2>1, <2>2, <2>3, SumsAgree
  <2>. QED BY <2>2, <2>3, <2>4, <2>5 DEF T
<1>. QED BY <1>2, <1>3

\* A sum depends on what is summed.
LEMMA SumCongruent ==
  ASSUME NEW f, NEW g, NEW S, IsFiniteSet(S), \A x \in S : f[x] = g[x]
  PROVE  Sum(f, S) = Sum(g, S)
<1>. DEFINE Bad == {T \in SUBSET S : Sum(f, T) # Sum(g, T)}
<1>1. SUFFICES ASSUME Bad # {} PROVE FALSE
  OBVIOUS
<1>2. PICK T \in Bad : \A U \in Bad : U \subseteq T => U = T
  <2>1. Bad \in SUBSET (SUBSET S)
    OBVIOUS
  <2>. HIDE DEF Bad
  <2>. QED BY <1>1, <2>1, Smallest
<1>3. T \in SUBSET S /\ IsFiniteSet(T) /\ Sum(f, T) # Sum(g, T)
  BY <1>2, FS_Subset
<1>4. T # {}
  <2>1. Sum(f, {}) = 0 /\ Sum(g, {}) = 0
    BY FS_EmptySet, SumFirst
  <2>. QED BY <1>3, <2>1
<1>. DEFINE x == First(T)
<1>5. Sum(f, T) = f[x] + Sum(f, T \ {x}) /\ Sum(g, T) = g[x] + Sum(g, T \ {x})
  BY <1>3, <1>4, SumFirst
<1>6. x \in T
  BY <1>4, FirstIn
<1>. HIDE DEF x
<1>7. Sum(f, T \ {x}) = Sum(g, T \ {x})
  <2>1. T \ {x} \in SUBSET S /\ T \ {x} \subseteq T /\ T \ {x} # T
    BY <1>3, <1>6
  <2>. QED BY <1>2, <2>1
<1>. QED BY <1>3, <1>5, <1>6, <1>7

LEMMA SumType ==
  ASSUME NEW f, NEW S, IsFiniteSet(S), \A x \in S : f[x] \in Nat
  PROVE  Sum(f, S) \in Nat
<1>. DEFINE Bad == {T \in SUBSET S : Sum(f, T) \notin Nat}
<1>1. SUFFICES ASSUME Bad # {} PROVE FALSE
  OBVIOUS
<1>2. PICK T \in Bad : \A U \in Bad : U \subseteq T => U = T
  <2>1. Bad \in SUBSET (SUBSET S)
    OBVIOUS
  <2>. HIDE DEF Bad
  <2>. QED BY <1>1, <2>1, Smallest
<1>3. T \in SUBSET S /\ IsFiniteSet(T) /\ Sum(f, T) \notin Nat
  BY <1>2, FS_Subset
<1>4. T # {}
  <2>1. Sum(f, {}) = 0
    BY FS_EmptySet, SumFirst
  <2>. QED BY <1>3, <2>1
<1>. DEFINE x == First(T)
<1>5. Sum(f, T) = f[x] + Sum(f, T \ {x})
  BY <1>3, <1>4, SumFirst
<1>6. x \in T
  BY <1>4, FirstIn
<1>. HIDE DEF x
<1>7. Sum(f, T \ {x}) \in Nat
  <2>1. T \ {x} \in SUBSET S /\ T \ {x} \subseteq T /\ T \ {x} # T
    BY <1>3, <1>6
  <2>. QED BY <1>2, <2>1
<1>. QED BY <1>3, <1>5, <1>6, <1>7

\* Any element may be taken out first.
LEMMA SumWithout ==
  ASSUME NEW f, NEW S, IsFiniteSet(S), \A x \in S : f[x] \in Nat
  PROVE  \A x \in S : Sum(f, S) = f[x] + Sum(f, S \ {x})
<1>. DEFINE Bad == {T \in SUBSET S : \E x \in T : Sum(f, T) # f[x] + Sum(f, T \ {x})}
<1>1. SUFFICES ASSUME Bad # {} PROVE FALSE
  OBVIOUS
<1>2. PICK T \in Bad : \A U \in Bad : U \subseteq T => U = T
  <2>1. Bad \in SUBSET (SUBSET S)
    OBVIOUS
  <2>. HIDE DEF Bad
  <2>. QED BY <1>1, <2>1, Smallest
<1>3. PICK x \in T : Sum(f, T) # f[x] + Sum(f, T \ {x})
  BY <1>2
<1>4. T \in SUBSET S /\ IsFiniteSet(T)
  BY <1>2, FS_Subset
<1>. DEFINE y == First(T)
<1>5. y \in T /\ Sum(f, T) = f[y] + Sum(f, T \ {y})
  BY <1>4, SumFirst, FirstIn
<1>. HIDE DEF y
<1>6. x # y
  BY <1>3, <1>5
<1>7. ASSUME NEW u \in T, NEW v \in T, u # v
      PROVE  Sum(f, T \ {u}) = f[v] + Sum(f, T \ {u, v})
  <2>. DEFINE U == T \ {u}
  <2>1. U \in SUBSET S /\ U \subseteq T /\ U # T /\ v \in U /\ U \ {v} = T \ {u, v}
    BY <1>4, <1>7
  <2>2. U \notin Bad
    <3>. HIDE DEF U, Bad
    <3>. QED BY <1>2, <2>1
  <2>. QED BY <2>1, <2>2
<1>8. /\ Sum(f, T \ {y}) = f[x] + Sum(f, T \ {x, y})
      /\ Sum(f, T \ {x}) = f[y] + Sum(f, T \ {x, y})
  <2>1. T \ {x, y} = T \ {y, x}
    OBVIOUS
  <2>. QED BY <2>1, <1>5, <1>6, <1>7
<1>9. f[x] \in Nat /\ f[y] \in Nat /\ Sum(f, T \ {x, y}) \in Nat
  <2>1. T \ {x, y} \in SUBSET S /\ IsFiniteSet(T \ {x, y})
    BY <1>4, FS_Subset
  <2>. QED BY <1>4, <1>5, <2>1, SumType
<1>. QED BY <1>3, <1>5, <1>8, <1>9

LEMMA SumAdd ==
  ASSUME NEW f, NEW S, IsFiniteSet(S), NEW x, x \notin S, f[x] \in Nat,
         \A y \in S : f[y] \in Nat
  PROVE  Sum(f, S \union {x}) = f[x] + Sum(f, S)
<1>1. IsFiniteSet(S \union {x}) /\ (S \union {x}) \ {x} = S
  BY FS_AddElement
<1>. QED BY <1>1, SumWithout

LEMMA SumUnion ==
  ASSUME NEW f, NEW S, NEW T, IsFiniteSet(S), IsFiniteSet(T), S \intersect T = {},
         \A x \in S \union T : f[x] \in Nat
  PROVE  Sum(f, S \union T) = Sum(f, S) + Sum(f, T)
<1>. DEFINE Bad == {U \in SUBSET S : Sum(f, U \union T) # Sum(f, U) + Sum(f, T)}
<1>1. SUFFICES ASSUME Bad # {} PROVE FALSE
  OBVIOUS
<1>2. PICK U \in Bad : \A V \in Bad : V \subseteq U => V = U
  <2>1. Bad \in SUBSET (SUBSET S)
    OBVIOUS
  <2>. HIDE DEF Bad
  <2>. QED BY <1>1, <2>1, Smallest
<1>3. U \in SUBSET S /\ IsFiniteSet(U) /\ Sum(f, U \union T) # Sum(f, U) + Sum(f, T)
  BY <1>2, FS_Subset
<1>4. Sum(f, T) \in Nat
  BY SumType
<1>5. U # {}
  <2>1. {} \union T = T /\ Sum(f, {}) = 0
    BY <1>3, SumFirst
  <2>2. ASSUME U = {} PROVE FALSE
    <3>1. Sum(f, U \union T) = Sum(f, T) /\ Sum(f, U) = 0
      BY <2>1, <2>2, Zenon
    <3>. QED BY <1>3, <1>4, <3>1
  <2>. QED BY <2>2
<1>6. PICK x \in U : TRUE
  BY <1>5
<1>. DEFINE V == U \ {x}
<1>7. V \in SUBSET S /\ V \subseteq U /\ V # U /\ IsFiniteSet(V) /\ x \notin V
  BY <1>3, <1>6, FS_RemoveElement
<1>8. V \union {x} = U /\ (V \union T) \union {x} = U \union T /\ x \notin V \union T
  BY <1>3, <1>6
<1>9. Sum(f, V \union T) = Sum(f, V) + Sum(f, T)
  <2>. HIDE DEF V
  <2>. QED BY <1>2, <1>7
<1>10. IsFiniteSet(V \union T)
  BY <1>7, FS_Union
<1>11. f[x] \in Nat /\ \A y \in V \union T : f[y] \in Nat
  BY <1>3, <1>7
<1>. HIDE DEF V
<1>12. Sum(f, U) = f[x] + Sum(f, V)
  BY <1>7, <1>8, <1>11, SumAdd
<1>13. Sum(f, U \union T) = f[x] + Sum(f, V \union T)
  BY <1>8, <1>10, <1>11, SumAdd
<1>14. Sum(f, V) \in Nat
  BY <1>7, <1>11, SumType
<1>. QED BY <1>3, <1>4, <1>9, <1>11, <1>12, <1>13, <1>14

LEMMA SumSubset ==
  ASSUME NEW f, NEW S, IsFiniteSet(S), \A x \in S : f[x] \in Nat, NEW T \in SUBSET S
  PROVE  Sum(f, T) <= Sum(f, S)
<1>1. IsFiniteSet(T) /\ IsFiniteSet(S \ T)
  BY FS_Subset
<1>2. Sum(f, T) \in Nat /\ Sum(f, S \ T) \in Nat
  BY <1>1, SumType
<1>3. T \union (S \ T) = S /\ T \intersect (S \ T) = {}
  OBVIOUS
<1>4. Sum(f, S) = Sum(f, T) + Sum(f, S \ T)
  BY <1>1, <1>3, SumUnion
<1>. QED BY <1>2, <1>4

\* Bytes, of a program q
Weigh(q, P) == SumFunctionOnSet([p \in P |-> q[p].size], P)
Sized(q, P) == IsFiniteSet(P) /\ \A p \in P : q[p].size \in Nat

LEMMA WeighIsSum ==
  ASSUME NEW q, NEW S, Sized(q, S), NEW P \in SUBSET S
  PROVE  Weigh(q, P) = Sum([p \in S |-> q[p].size], P)
<1>1. IsFiniteSet(P)
  BY FS_Subset DEF Sized
<1>2. \A p \in P : [x \in P |-> q[x].size][p] = [x \in S |-> q[x].size][p]
  OBVIOUS
<1>. QED BY <1>1, <1>2, SumCongruent DEF Weigh, Sum

LEMMA WeighSame ==
  ASSUME NEW q, NEW r, NEW P, IsFiniteSet(P), \A p \in P : q[p].size = r[p].size
  PROVE  Weigh(q, P) = Weigh(r, P)
<1>1. \A p \in P : [x \in P |-> q[x].size][p] = [x \in P |-> r[x].size][p]
  OBVIOUS
<1>. QED BY <1>1, SumCongruent DEF Weigh, Sum

LEMMA WeighEmpty ==
  ASSUME NEW q
  PROVE  Weigh(q, {}) = 0
BY FS_EmptySet, SumFirst DEF Weigh, Sum

LEMMA WeighUnion ==
  ASSUME NEW q, NEW S, NEW T, Sized(q, S), Sized(q, T), S \intersect T = {}
  PROVE  /\ Sized(q, S \union T)
         /\ Weigh(q, S) \in Nat /\ Weigh(q, T) \in Nat
         /\ Weigh(q, S \union T) = Weigh(q, S) + Weigh(q, T)
<1>. DEFINE f == [p \in S \union T |-> q[p].size]
<1>1. Sized(q, S \union T) /\ IsFiniteSet(S) /\ IsFiniteSet(T)
  BY FS_Union DEF Sized
<1>2. \A p \in S \union T : f[p] \in Nat
  BY DEF Sized
<1>3. /\ Weigh(q, S) = Sum(f, S) /\ Weigh(q, T) = Sum(f, T)
      /\ Weigh(q, S \union T) = Sum(f, S \union T)
  BY <1>1, WeighIsSum
<1>. HIDE DEF f
<1>4. Sum(f, S) \in Nat /\ Sum(f, T) \in Nat
  BY <1>1, <1>2, SumType
<1>5. Sum(f, S \union T) = Sum(f, S) + Sum(f, T)
  BY <1>1, <1>2, SumUnion
<1>. QED BY <1>1, <1>3, <1>4, <1>5

LEMMA WeighAdd ==
  ASSUME NEW q, NEW S, Sized(q, S), NEW p, p \notin S, q[p].size \in Nat
  PROVE  /\ Sized(q, S \union {p})
         /\ Weigh(q, S) \in Nat
         /\ Weigh(q, S \union {p}) = Weigh(q, S) + q[p].size
<1>. DEFINE T == S \union {p}
            f == [x \in T |-> q[x].size]
<1>1. Sized(q, T) /\ S \in SUBSET T /\ IsFiniteSet(S)
  BY FS_AddElement DEF Sized
<1>2. /\ f[p] = q[p].size
      /\ \A x \in S : f[x] \in Nat
  BY DEF Sized
<1>3. Weigh(q, S) = Sum(f, S) /\ Weigh(q, T) = Sum(f, T)
  BY <1>1, WeighIsSum
<1>. HIDE DEF f
<1>4. Sum(f, S) \in Nat
  BY <1>1, <1>2, SumType
<1>5. Sum(f, T) = f[p] + Sum(f, S)
  BY <1>1, <1>2, SumAdd
<1>. QED BY <1>1, <1>2, <1>3, <1>4, <1>5

LEMMA WeighSubset ==
  ASSUME NEW q, NEW S, Sized(q, S), NEW P \in SUBSET S
  PROVE  /\ Sized(q, P)
         /\ Weigh(q, P) \in Nat /\ Weigh(q, S) \in Nat
         /\ Weigh(q, P) <= Weigh(q, S)
<1>. DEFINE f == [p \in S |-> q[p].size]
<1>1. Sized(q, P) /\ IsFiniteSet(S)
  BY FS_Subset DEF Sized
<1>2. \A p \in S : f[p] \in Nat
  BY DEF Sized
<1>3. Weigh(q, P) = Sum(f, P) /\ Weigh(q, S) = Sum(f, S)
  BY WeighIsSum
<1>. HIDE DEF f
<1>. QED BY <1>1, <1>2, <1>3, SumType, SumSubset DEF Sized

LEMMA WeighBytes ==
  /\ \A P : Bytes(P) = Weigh(prog, P)
  /\ \A P : Bytes(P)' = Weigh(prog', P)
<1>1. ASSUME NEW P PROVE Bytes(P) = Weigh(prog, P)
  BY DEF Bytes, Weigh
<1>. QED BY DEF Bytes, Weigh

\* The totals of some blocks B of C
TotalOf(C, B) == SumFunctionOnSet([b \in B |-> C[b].total], B)
Totalled(C, B) == IsFiniteSet(B) /\ \A b \in B : C[b].total \in Nat
SameTotals(C, D, B) == \A b \in B : D[b].total = C[b].total

LEMMA TotalsOf ==
  /\ \A B : Totals(B) = TotalOf(blocks, B)
  /\ \A B : Totals(B)' = TotalOf(blocks', B)
BY DEF Totals, TotalOf

LEMMA TotalSame ==
  ASSUME NEW C, NEW D, NEW B, IsFiniteSet(B), \A b \in B : D[b].total = C[b].total
  PROVE  TotalOf(D, B) = TotalOf(C, B)
<1>1. \A b \in B : [x \in B |-> D[x].total][b] = [x \in B |-> C[x].total][b]
  OBVIOUS
<1>. QED BY <1>1, SumCongruent DEF TotalOf, Sum

\* One block, alone and with the others
LEMMA TotalWithout ==
  ASSUME NEW C, NEW B, Totalled(C, B), NEW x \in B
  PROVE  /\ Totalled(C, B \ {x}) /\ TotalOf(C, B \ {x}) \in Nat /\ TotalOf(C, B) \in Nat
         /\ TotalOf(C, B) = C[x].total + TotalOf(C, B \ {x})
<1>. DEFINE f == [b \in B |-> C[b].total]
            R == B \ {x}
            g == [b \in R |-> C[b].total]
<1>1. IsFiniteSet(B) /\ IsFiniteSet(R) /\ Totalled(C, R)
  BY FS_RemoveElement DEF Totalled
<1>2. (\A b \in B : f[b] \in Nat) /\ f[x] = C[x].total /\ \A b \in R : f[b] = g[b] /\ f[b] \in Nat
  BY DEF Totalled
<1>3. TotalOf(C, B) = Sum(f, B) /\ TotalOf(C, R) = Sum(g, R)
  BY DEF TotalOf, Sum
<1>. HIDE DEF f, g
<1>4. Sum(f, B) = f[x] + Sum(f, R)
  BY <1>1, <1>2, SumWithout
<1>5. Sum(f, R) = Sum(g, R)
  BY <1>1, <1>2, SumCongruent
<1>6. Sum(f, R) \in Nat /\ Sum(f, B) \in Nat
  BY <1>1, <1>2, SumType
<1>. QED BY <1>1, <1>2, <1>3, <1>4, <1>5, <1>6

LEMMA TotalChanged ==
  ASSUME NEW C, NEW D, NEW B, Totalled(C, B), NEW x \in B, D[x].total \in Nat,
         SameTotals(C, D, B \ {x})
  PROVE  /\ TotalOf(C, B) \in Nat /\ TotalOf(D, B) \in Nat
         /\ TotalOf(D, B) + C[x].total = TotalOf(C, B) + D[x].total
<1>1. Totalled(D, B)
  BY DEF Totalled, SameTotals
<1>2. TotalOf(D, B \ {x}) = TotalOf(C, B \ {x})
  <2>1. IsFiniteSet(B \ {x})
    BY FS_RemoveElement DEF Totalled
  <2>. QED BY <2>1, TotalSame DEF SameTotals
<1>3. C[x].total \in Nat
  BY DEF Totalled
<1>4. /\ TotalOf(C, B \ {x}) \in Nat /\ TotalOf(C, B) \in Nat
      /\ TotalOf(C, B) = C[x].total + TotalOf(C, B \ {x})
  BY TotalWithout
<1>5. /\ TotalOf(D, B) \in Nat
      /\ TotalOf(D, B) = D[x].total + TotalOf(D, B \ {x})
  BY <1>1, TotalWithout
<1>. QED BY <1>2, <1>3, <1>4, <1>5

-----------------------------------------------------------------------------
(* Blocks around blocks *)

\* The parent of a block is one before it.
Tree(B) == /\ Len(B) \in Nat /\ Len(B) >= 1
           /\ \A b \in 2..Len(B) : B[b].parent \in 1..(b - 1)

LEMMA AncestorsClosed ==
  ASSUME NEW B, Tree(B), NEW b \in 1..Len(B)
  PROVE  /\ b \in AncestorsIn(B, b) /\ AncestorsIn(B, b) \subseteq 1..Len(B)
         /\ \A c \in AncestorsIn(B, b) \ {1} : B[c].parent \in AncestorsIn(B, b)
         /\ \A c \in AncestorsIn(B, b) : AncestorsIn(B, c) \subseteq AncestorsIn(B, b)
<1>1. b \in AncestorsIn(B, b) /\ AncestorsIn(B, b) \subseteq 1..Len(B)
  BY DEF AncestorsIn
<1>2. ASSUME NEW c \in AncestorsIn(B, b) \ {1} PROVE B[c].parent \in AncestorsIn(B, b)
  <2>1. c \in 2..Len(B)
    BY <1>1 DEF Tree
  <2>2. B[c].parent \in 1..Len(B)
    BY <2>1 DEF Tree
  <2>3. ASSUME NEW S \in SUBSET (1..Len(B)), b \in S,
               \A d \in S \ {1} : B[d].parent \in S
        PROVE  B[c].parent \in S
    BY <2>3 DEF AncestorsIn
  <2>. QED BY <2>2, <2>3 DEF AncestorsIn
<1>3. ASSUME NEW c \in AncestorsIn(B, b) PROVE AncestorsIn(B, c) \subseteq AncestorsIn(B, b)
  BY DEF AncestorsIn
<1>. QED BY <1>1, <1>2, <1>3

LEMMA AncestorsOf ==
  ASSUME NEW B, Tree(B), NEW b \in 2..Len(B)
  PROVE  AncestorsIn(B, b) = {b} \union AncestorsIn(B, B[b].parent)
<1>. DEFINE q == B[b].parent
<1>1. b \in 1..Len(B) /\ q \in 1..Len(B)
  BY DEF Tree
<1>2. {b} \union AncestorsIn(B, q) \subseteq AncestorsIn(B, b)
  BY <1>1, AncestorsClosed
<1>3. ASSUME NEW a \in AncestorsIn(B, b) PROVE a \in {b} \union AncestorsIn(B, q)
  <2>. DEFINE S == {b} \union AncestorsIn(B, q)
  <2>1. S \in SUBSET (1..Len(B)) /\ b \in S
    BY <1>1, AncestorsClosed
  <2>2. ASSUME NEW c \in S \ {1} PROVE B[c].parent \in S
    BY <1>1, AncestorsClosed
  <2>. QED BY <2>1, <2>2 DEF AncestorsIn
<1>. QED BY <1>2, <1>3

\* C has the blocks of B, where they were, and perhaps more.
Grown(C, B) == /\ Tree(C) /\ Len(B) <= Len(C)
               /\ \A b \in 1..Len(B) : C[b].parent = B[b].parent /\ C[b].branch = B[b].branch

\* What is around a block is not changed by those added.
LEMMA AncestorsKept ==
  ASSUME NEW B, NEW C, Tree(B), Grown(C, B), NEW b \in 1..Len(B)
  PROVE  AncestorsIn(C, b) = AncestorsIn(B, b)
<1>1. 1..Len(B) \subseteq 1..Len(C)
  BY DEF Tree, Grown
<1>2. ASSUME NEW a \in AncestorsIn(B, b) PROVE a \in AncestorsIn(C, b)
  <2>1. ASSUME NEW S \in SUBSET (1..Len(C)), b \in S, \A c \in S \ {1} : C[c].parent \in S
        PROVE  a \in S
    <3>. DEFINE T == S \intersect (1..Len(B))
    <3>1. T \in SUBSET (1..Len(B)) /\ b \in T
      BY <2>1
    <3>2. ASSUME NEW c \in T \ {1} PROVE B[c].parent \in T
      <4>1. c \in 2..Len(B)
        BY DEF Tree
      <4>2. B[c].parent \in 1..Len(B)
        BY <4>1 DEF Tree
      <4>. QED BY <2>1, <4>2 DEF Grown
    <3>. HIDE DEF T
    <3>3. a \in T
      BY <3>1, <3>2 DEF AncestorsIn
    <3>. QED BY <3>3 DEF T
  <2>2. a \in 1..Len(C)
    BY <1>1 DEF AncestorsIn
  <2>. QED BY <2>1, <2>2 DEF AncestorsIn
<1>3. ASSUME NEW a \in AncestorsIn(C, b) PROVE a \in AncestorsIn(B, b)
  <2>1. ASSUME NEW S \in SUBSET (1..Len(B)), b \in S, \A c \in S \ {1} : B[c].parent \in S
        PROVE  a \in S
    <3>1. S \in SUBSET (1..Len(C))
      BY <1>1
    <3>2. \A c \in S \ {1} : C[c].parent \in S
      BY <2>1 DEF Grown
    <3>. QED BY <2>1, <3>1, <3>2 DEF AncestorsIn
  <2>2. a \in 1..Len(B)
    <3>1. \A c \in (1..Len(B)) \ {1} : B[c].parent \in 1..Len(B)
      BY DEF Tree
    <3>2. \A c \in (1..Len(B)) \ {1} : C[c].parent \in 1..Len(B)
      BY <3>1 DEF Grown
    <3>. QED BY <1>1, <3>2 DEF AncestorsIn
  <2>. QED BY <2>1, <2>2 DEF AncestorsIn
<1>. QED BY <1>2, <1>3

LEMMA TreeOfBlocks == IInv /\ OpenedInOrder => Tree(blocks)
<1>. SUFFICES ASSUME IInv, OpenedInOrder PROVE Tree(blocks)
  OBVIOUS
<1>1. ASSUME NEW b \in 2..Len(blocks) PROVE blocks[b].parent \in 1..(b - 1)
  <2>1. PICK p \in 1..Len(prog) : prog[p] = Open(b)
    BY DEF OpenedInOrder
  <2>2. PICK k \in Nat : k = p - 1 /\ (k = 0 \/ k \in 1..Len(prog))
    BY Lengths
  <2>3. After(k) \in 1..Len(blocks)
    <3>1. CASE k = 0
      BY <3>1, Lengths DEF After
    <3>2. CASE k \in 1..Len(prog)
      BY <3>2 DEF IInv, Nested
    <3>. QED BY <2>2, <3>1, <3>2
  <2>4. prog[p].op = "open" /\ prog[p].block = b
    BY <2>1 DEF Open
  <2>5. blocks[b].parent = After(k)
    BY <2>2, <2>4 DEF IInv, Nested
  <2>6. b \in 1..Len(blocks)
    BY Lengths
  <2>7. blocks[b].parent < b
    BY <2>6 DEF IInv
  <2>. QED BY <2>3, <2>5, <2>7, Lengths
<1>. QED BY <1>1, Lengths DEF Tree

\* Neither is whether a block is in a branch.
LEMMA BranchKept ==
  ASSUME Tree(blocks), Grown(blocks', blocks), NEW b \in 1..Len(blocks)
  PROVE  /\ Ancestors(b)' = Ancestors(b)
         /\ InBranch(b)' <=> InBranch(b)
<1>1. AncestorsIn(blocks', b) = AncestorsIn(blocks, b)
  BY AncestorsKept
<1>2. AncestorsIn(blocks, b) \subseteq 1..Len(blocks)
  BY AncestorsClosed
<1>3. \A a \in AncestorsIn(blocks, b) : blocks'[a].branch = blocks[a].branch
  BY <1>2 DEF Grown
<1>. QED BY <1>1, <1>3 DEF InBranch, Ancestors

-----------------------------------------------------------------------------
(* What every step of sema does *)

\* The blocks there were keep what sema does not add up.
SameBlocks == \A b \in 1..Len(blocks) : /\ blocks'[b].parent = blocks[b].parent
                                        /\ blocks'[b].branch = blocks[b].branch

\* A statement is recorded in the block sema is in, or opens the next.
Recorded(st) ==
  /\ pc = "sema" /\ pc' = "sema" /\ at' = at /\ offset' = offset /\ frame' = frame
  /\ st \in Statement /\ prog' = Append(prog, st)
  /\ SameBlocks
  /\ \A b \in 1..Len(blocks) : blocks'[b].offset = blocks[b].offset
  /\ \/ st.op # "open" /\ st.block = Scope /\ Len(blocks') = Len(blocks)
     \/ st = Open(Len(blocks) + 1) /\ Len(blocks') = Len(blocks) + 1

LEMMA ProgramGrows ==
  ASSUME IInv, NEW st, Recorded(st)
  PROVE  \E N \in Nat :
           /\ N = Len(prog) /\ Len(prog') = N + 1
           /\ \A p \in 1..N : prog'[p] = prog[p] /\ p # N + 1 /\ p \in 1..(N + 1)
           /\ prog'[N + 1] = st /\ N + 1 \in 1..(N + 1)
           /\ \A p \in 1..(N + 1) : p \in 1..N \/ p = N + 1
<1>1. PICK N \in Nat : N = Len(prog)
  BY Lengths
<1>2. /\ Len(prog') = N + 1 /\ prog'[N + 1] = st
      /\ \A p \in 1..N : prog'[p] = prog[p]
  BY <1>1, AppendProperties DEF Recorded, IInv
<1>. QED BY <1>1, <1>2

\* The statements of a kind
LEMMA StatementsGrow ==
  ASSUME IInv, NEW st, Recorded(st), NEW op, NEW N, N = Len(prog)
  PROVE  /\ Statements(op)' = IF st.op = op THEN Statements(op) \union {N + 1}
                              ELSE Statements(op)
         /\ Statements(op) \subseteq 1..N /\ N + 1 \notin Statements(op)
         /\ \A p \in Statements(op) : prog'[p] = prog[p]
<1>1. /\ N \in Nat /\ Len(prog') = N + 1
      /\ \A p \in 1..N : prog'[p] = prog[p] /\ p # N + 1 /\ p \in 1..(N + 1)
      /\ prog'[N + 1] = st /\ N + 1 \in 1..(N + 1)
      /\ \A p \in 1..(N + 1) : p \in 1..N \/ p = N + 1
  BY ProgramGrows
<1>2. Statements(op) = {p \in 1..N : prog[p].op = op}
  BY DEF Statements
<1>3. Statements(op)' = {p \in 1..(N + 1) : prog'[p].op = op}
  BY <1>1 DEF Statements
<1>. QED BY <1>1, <1>2, <1>3

LEMMA BlockOfStatement ==
  ASSUME IInv, NEW p \in 1..Len(prog)
  PROVE  /\ prog[p].block \in 1..Len(blocks) /\ prog[p] \in Statement
         /\ prog[p].op = "open" => prog[p] = Open(prog[p].block)
<1>1. prog[p].block \in 1..Len(blocks) /\ prog[p] \in Statement
  BY Elements DEF IInv, Nested
<1>2. prog[p].op = "open" => prog[p] = Open(prog[p].block)
  BY <1>1 DEF Statement, Open
<1>. QED BY <1>1, <1>2

LEMMA OrderKept ==
  ASSUME IInv, OpenedInOrder, NEW st, Recorded(st)
  PROVE  OpenedInOrder'
<1>1. PICK N \in Nat :
           /\ N = Len(prog) /\ Len(prog') = N + 1
           /\ \A p \in 1..N : prog'[p] = prog[p] /\ p # N + 1 /\ p \in 1..(N + 1)
           /\ prog'[N + 1] = st /\ N + 1 \in 1..(N + 1)
           /\ \A p \in 1..(N + 1) : p \in 1..N \/ p = N + 1
  BY ProgramGrows
<1>. DEFINE S == Statements("open")
<1>2. S \subseteq 1..N /\ \A p \in S : prog'[p] = prog[p]
  BY <1>1, StatementsGrow
<1>3. \A p \in S : prog[p].block \in 1..Len(blocks)
  BY <1>1, <1>2, BlockOfStatement
<1>4. (\A p, q \in S : q < p => prog[q].block < prog[p].block)
      /\ \A p \in S : prog[p].block # 1
  BY DEF OpenedInOrder
<1>5. ASSUME NEW b \in 2..Len(blocks) PROVE \E p \in 1..(N + 1) : prog'[p] = Open(b)
  BY <1>1 DEF OpenedInOrder
<1>6. PICK n \in Nat : n = Len(blocks) /\ n >= 1
  BY Lengths
<1>7. CASE st.op # "open" /\ Len(blocks') = Len(blocks)
  <2>1. Statements("open")' = S
    BY <1>1, <1>7, StatementsGrow
  <2>. HIDE DEF S
  <2>2. \A p, q \in S : q < p => prog'[q].block < prog'[p].block
    BY <1>2, <1>4
  <2>3. \A p \in S : prog'[p].block # 1
    BY <1>2, <1>4
  <2>. QED BY <2>1, <2>2, <2>3, <1>1, <1>5, <1>7 DEF OpenedInOrder
<1>8. CASE st = Open(n + 1) /\ Len(blocks') = n + 1
  <2>1. st.op = "open" /\ st.block = n + 1
    BY <1>8 DEF Open
  <2>2. Statements("open")' = S \union {N + 1}
    BY <1>1, <2>1, StatementsGrow
  <2>. HIDE DEF S
  <2>3. ASSUME NEW p \in S \union {N + 1}, NEW q \in S \union {N + 1}, q < p
        PROVE  prog'[q].block < prog'[p].block
    <3>1. q \in S
      BY <2>3, <1>1, <1>2
    <3>2. CASE p \in S
      BY <3>1, <3>2, <2>3, <1>2, <1>4
    <3>3. CASE p = N + 1
      BY <3>1, <3>3, <2>1, <1>1, <1>2, <1>3, <1>6
    <3>. QED BY <3>2, <3>3
  <2>4. \A p \in S \union {N + 1} : prog'[p].block # 1
    BY <1>1, <1>2, <1>4, <1>6, <2>1
  <2>5. \A b \in 2..(n + 1) : \E p \in 1..(N + 1) : prog'[p] = Open(b)
    <3>1. \A b \in 2..(n + 1) : b \in 2..n \/ b = n + 1
      BY <1>6
    <3>. QED BY <3>1, <1>1, <1>5, <1>6, <1>8
  <2>. QED BY <2>2, <2>3, <2>4, <2>5, <1>1, <1>8 DEF OpenedInOrder
<1>. QED BY <1>6, <1>7, <1>8 DEF Recorded

LEMMA TreeGrows ==
  ASSUME IInv, OpenedInOrder, IInv', OpenedInOrder', SameBlocks, Len(blocks) <= Len(blocks')
  PROVE  Tree(blocks) /\ Grown(blocks', blocks)
<1>1. Tree(blocks)
  BY TreeOfBlocks
<1>2. IInv' /\ OpenedInOrder' => Tree(blocks)'
  BY TreeOfBlocks, PTL
<1>. QED BY <1>1, <1>2 DEF Grown, SameBlocks

\* The blocks opened since an open block was are in it.
LEMMA InScopeOnly ==
  ASSUME IInv, pc = "sema", Summed, NEW c \in 1..Len(blocks), c >= Scope
  PROVE  Scope \in Ancestors(c)
<1>1. Len(scopes) \in 1..Len(scopes)
  BY Lengths
<1>. QED BY <1>1 DEF Summed, Scope

LEMMA OpenedKept ==
  ASSUME IInv, OpenedInOrder, InOpened, Summed, NEW st, Recorded(st), IInv'
  PROVE  InOpened'
<1>1. PICK N \in Nat :
           /\ N = Len(prog) /\ Len(prog') = N + 1
           /\ \A p \in 1..N : prog'[p] = prog[p] /\ p # N + 1 /\ p \in 1..(N + 1)
           /\ prog'[N + 1] = st /\ N + 1 \in 1..(N + 1)
           /\ \A p \in 1..(N + 1) : p \in 1..N \/ p = N + 1
  BY ProgramGrows
<1>2. OpenedInOrder'
  BY OrderKept
<1>3. Len(blocks) <= Len(blocks')
  BY Lengths DEF Recorded
<1>4. Tree(blocks) /\ Grown(blocks', blocks)
  BY <1>2, <1>3, TreeGrows DEF Recorded
<1>5. \A b \in 1..Len(blocks) : AncestorsIn(blocks', b) = AncestorsIn(blocks, b)
  BY <1>4, AncestorsKept
<1>6. ASSUME NEW p \in 1..N
      PROVE  /\ prog'[p].block # 1 => \E q \in 1..p : prog'[q] = Open(prog'[p].block)
             /\ \A q \in 1..p : prog'[q].op = "open" /\ prog'[q].block > prog'[p].block =>
                  prog'[p].block \in AncestorsIn(blocks', prog'[q].block)
  <2>1. \A q \in 1..p : q \in 1..N /\ prog'[q] = prog[q] /\ prog[q].block \in 1..Len(blocks)
    BY <1>1, BlockOfStatement
  <2>2. /\ prog[p].block # 1 => \E q \in 1..p : prog[q] = Open(prog[p].block)
        /\ \A q \in 1..p : prog[q].op = "open" /\ prog[q].block > prog[p].block =>
             prog[p].block \in Ancestors(prog[q].block)
    BY <1>1 DEF InOpened
  <2>3. \A q \in 1..p : AncestorsIn(blocks', prog[q].block) = AncestorsIn(blocks, prog[q].block)
    BY <2>1, <1>5
  <2>. QED BY <1>1, <2>1, <2>2, <2>3 DEF Ancestors

<1>7. PICK n \in Nat : n = Len(blocks) /\ n >= 1
  BY Lengths
<1>8. /\ st.block # 1 => \E q \in 1..(N + 1) : prog'[q] = Open(st.block)
      /\ \A q \in 1..(N + 1) : prog'[q].op = "open" /\ prog'[q].block > st.block =>
           st.block \in AncestorsIn(blocks', prog'[q].block)
  <2>1. CASE st.op # "open" /\ st.block = Scope
    <3>1. Scope \in 1..n
      BY <1>7, Top
    <3>2. Scope # 1 => \E q \in 1..(N + 1) : prog'[q] = Open(Scope)
      BY <3>1, <1>1, <1>7 DEF OpenedInOrder
    <3>3. ASSUME NEW q \in 1..(N + 1), prog'[q].op = "open", prog'[q].block > Scope
          PROVE  Scope \in AncestorsIn(blocks', prog'[q].block)
      <4>1. q \in 1..N /\ prog'[q] = prog[q] /\ prog[q].block \in 1..n
        BY <1>1, <1>7, <2>1, <3>3, BlockOfStatement
      <4>2. Scope \in AncestorsIn(blocks, prog[q].block)
        BY <4>1, <3>1, <3>3, <1>7, InScopeOnly DEF Recorded, Ancestors
      <4>. QED BY <4>1, <4>2, <1>5, <1>7
    <3>. QED BY <2>1, <3>2, <3>3
  <2>2. CASE st = Open(n + 1)
    <3>1. st.block = n + 1
      BY <2>2 DEF Open
    <3>2. \A q \in 1..(N + 1) : prog'[q].block <= n + 1
      <4>1. \A q \in 1..N : prog[q].block \in 1..n
        BY <1>1, <1>7, BlockOfStatement
      <4>. QED BY <4>1, <3>1, <1>1, <1>7
    <3>3. \A q \in 1..(N + 1) : prog'[q].block \in Nat
      <4>1. \A q \in 1..N : prog[q].block \in 1..n
        BY <1>1, <1>7, BlockOfStatement
      <4>. QED BY <4>1, <3>1, <1>1, <1>7
    <3>. QED BY <2>2, <3>1, <3>2, <3>3, <1>1, <1>7
  <2>. QED BY <2>1, <2>2, <1>7 DEF Recorded
<1>9. \A p \in 1..(N + 1) :
        /\ prog'[p].block # 1 => \E q \in 1..p : prog'[q] = Open(prog'[p].block)
        /\ \A q \in 1..p : prog'[q].op = "open" /\ prog'[q].block > prog'[p].block =>
             prog'[p].block \in AncestorsIn(blocks', prog'[q].block)
  BY <1>1, <1>6, <1>8
<1>. QED BY <1>1, <1>9 DEF InOpened, Ancestors

\* Until the generator starts nothing is done, and no block has an offset.
LEMMA OffsetsKept ==
  ASSUME IInv, Offsets, NEW st, Recorded(st)
  PROVE  Offsets'
<1>1. at = 0 /\ at' = 0 /\ offset' = 0 /\ pc' = "sema"
  BY DEF IInv, Recorded, Offsets
<1>2. \A op : Done(op)' = {}
  <2>1. 1..0 = {}
    OBVIOUS
  <2>. QED BY <1>1, <2>1 DEF Done
<1>3. Met' = {1}
  <2>1. Done("open")' = {}
    BY <1>2
  <2>. QED BY <2>1 DEF Met
<1>4. blocks'[1].offset = 0
  <2>1. 1 \in 1..Len(blocks)
    BY Lengths
  <2>. QED BY <2>1 DEF Recorded, Offsets
<1>. QED BY <1>1, <1>3, <1>4 DEF Offsets

LEMMA LocalsKept ==
  ASSUME IInv, LocalsDeclared, NEW st, Recorded(st), st.op # "decl",
         \A b \in 1..Len(blocks) : blocks'[b].locals = blocks[b].locals,
         \A b \in 1..Len(blocks') : b > Len(blocks) => \A n \in Names : blocks'[b].locals[n] = 0
  PROVE  LocalsDeclared'
<1>1. PICK N \in Nat, k \in Nat : N = Len(prog) /\ k = Len(blocks)
  BY Lengths
<1>2. /\ Statements("decl")' = Statements("decl")
      /\ \A p \in Statements("decl") : prog'[p] = prog[p]
  BY <1>1, StatementsGrow
<1>3. PICK S : S = Statements("decl") /\ S = Statements("decl")'
  BY <1>2
<1>4. /\ \A b \in 1..k, n \in Names : blocks[b].locals[n] # 0 =>
           /\ blocks[b].locals[n] \in S
           /\ prog[blocks[b].locals[n]].block = b /\ prog[blocks[b].locals[n]].name = n
      /\ \A p \in S : prog[p].size \in 1..8
  BY <1>1, <1>3 DEF LocalsDeclared
<1>5. Len(blocks') \in Nat /\ \A b \in 1..Len(blocks') : b \in 1..k \/ b > k
  BY <1>1 DEF Recorded
<1>6. ASSUME NEW b \in 1..Len(blocks'), NEW n \in Names, blocks'[b].locals[n] # 0
      PROVE  /\ blocks'[b].locals[n] \in S
             /\ prog'[blocks'[b].locals[n]].block = b /\ prog'[blocks'[b].locals[n]].name = n
  <2>1. b \in 1..k /\ blocks'[b].locals[n] = blocks[b].locals[n]
    BY <1>1, <1>5, <1>6
  <2>2. PICK p : p = blocks[b].locals[n] /\ p = blocks'[b].locals[n]
    BY <2>1
  <2>3. p \in S /\ prog[p].block = b /\ prog[p].name = n
    BY <1>4, <1>6, <2>1, <2>2
  <2>. QED BY <1>2, <1>3, <2>2, <2>3
<1>7. \A p \in S : prog'[p].size \in 1..8
  BY <1>2, <1>3, <1>4
<1>. QED BY <1>3, <1>6, <1>7 DEF LocalsDeclared

\* The statements that are in no branch
LEMMA PlainGrows ==
  ASSUME IInv, OpenedInOrder, NEW st, Recorded(st), IInv', NEW op \in {"decl", "call"},
         NEW N, N = Len(prog)
  PROVE  /\ Plain(op)' = IF st.op = op /\ ~InBranch(Scope) THEN Plain(op) \union {N + 1}
                         ELSE Plain(op)
         /\ Plain(op) \subseteq 1..N /\ N + 1 \notin Plain(op)
         /\ \A p \in Plain(op) : prog'[p] = prog[p]
<1>1. /\ Statements(op)' = IF st.op = op THEN Statements(op) \union {N + 1} ELSE Statements(op)
      /\ Statements(op) \subseteq 1..N /\ N + 1 \notin Statements(op)
      /\ \A p \in Statements(op) : prog'[p] = prog[p]
  BY StatementsGrow
<1>2. OpenedInOrder'
  BY OrderKept
<1>3. Tree(blocks) /\ Grown(blocks', blocks)
  BY <1>2, TreeGrows, Lengths DEF Recorded
<1>. DEFINE In(B, b) == \E a \in AncestorsIn(B, b) : B[a].branch
<1>4. \A b \in 1..Len(blocks) : In(blocks', b) <=> In(blocks, b)
  BY <1>3, BranchKept DEF InBranch, Ancestors
<1>5. /\ \A b : InBranch(b) <=> In(blocks, b)
      /\ Plain(op) = {p \in Statements(op) : ~In(blocks, prog[p].block)}
      /\ Plain(op)' = {p \in Statements(op)' : ~In(blocks', prog'[p].block)}
  BY DEF Plain, InBranch, Ancestors
<1>. HIDE DEF In
<1>6. \A p \in Statements(op) : In(blocks', prog'[p].block) <=> In(blocks, prog[p].block)
  <2>1. \A p \in Statements(op) : prog[p].block \in 1..Len(blocks)
    BY <1>1, BlockOfStatement
  <2>. QED BY <1>1, <1>4, <2>1
<1>7. ASSUME st.op = op
      PROVE  In(blocks', prog'[N + 1].block) <=> In(blocks, Scope)
  <2>1. st.block = Scope
    BY <1>7 DEF Recorded, Open
  <2>2. prog'[N + 1] = st
    BY ProgramGrows
  <2>. QED BY <1>4, <2>1, <2>2, Top
<1>. QED BY <1>1, <1>5, <1>6, <1>7

\* The types of all variables follow.
LEMMA Typed ==
  IInv /\ LocalsDeclared /\ frame \in Nat /\ pc \in {"sema", "gen", "done"} => TypeOK
<1>. SUFFICES ASSUME IInv, LocalsDeclared, frame \in Nat, pc \in {"sema", "gen", "done"}
              PROVE  TypeOK
  OBVIOUS
<1>1. \A p \in 1..Len(prog) : prog[p].op \in {"open", "close", "decl", "call"}
  BY Elements DEF Statement
<1>2. ASSUME NEW b \in 1..Len(blocks)
      PROVE  /\ blocks[b].parent \in 0..(b - 1)
             /\ blocks[b].size \in Nat /\ blocks[b].total \in Nat /\ blocks[b].offset \in Nat
             /\ blocks[b].locals \in [Names -> 0..Len(prog)]
  <2>1. blocks[b] \in Block /\ blocks[b].parent < b
    BY Elements DEF IInv
  <2>2. \A n \in Names : blocks[b].locals[n] \in 0..Len(prog)
    <3>1. ASSUME NEW n \in Names, blocks[b].locals[n] # 0
          PROVE  blocks[b].locals[n] \in 1..Len(prog)
      BY <3>1 DEF LocalsDeclared, Statements
    <3>. QED BY <3>1, Lengths
  <2>3. /\ blocks[b].parent \in Nat /\ blocks[b].size \in Nat /\ blocks[b].total \in Nat
        /\ blocks[b].offset \in Nat /\ blocks[b].locals \in [Names -> Nat]
    BY <2>1 DEF Block
  <2>4. blocks[b].locals \in [Names -> 0..Len(prog)]
    BY <2>2, <2>3
  <2>5. blocks[b].parent \in 0..(b - 1)
    BY <2>1, <2>3, Lengths
  <2>. QED BY <2>3, <2>4, <2>5
<1>. QED BY <1>1, <1>2 DEF TypeOK, IInv

-----------------------------------------------------------------------------
(* The sums, while sema adds them up *)

LEMMA SemaSums ==
  ASSUME SumsIInv, IInv', NEW st, Recorded(st), LocalsDeclared', Summed'
  PROVE  SumsIInv'
<1>1. IInv /\ OpenedInOrder /\ InOpened /\ LocalsDeclared /\ Summed /\ Offsets /\ TypeOK
  BY DEF SumsIInv
<1>2. OpenedInOrder' /\ InOpened' /\ Offsets'
  BY <1>1, OrderKept, OpenedKept, OffsetsKept
<1>3. (frame \in Nat /\ pc \in {"sema", "gen", "done"})'
  BY <1>1 DEF TypeOK, Recorded
<1>4. (IInv /\ LocalsDeclared /\ frame \in Nat /\ pc \in {"sema", "gen", "done"} => TypeOK)'
  BY Typed, PTL
<1>. QED BY <1>2, <1>3, <1>4 DEF SumsIInv

\* Blocks on a stack, each opened after those below it, and nothing but the
\* last, while it is open, opened into another
Rising(s) == \A i, j \in 1..Len(s) : i < j => s[i] < s[j]
Holds(s, B) == \A i \in 1..Len(s), c \in 1..Len(B) :
                 c >= s[i] => s[i] \in AncestorsIn(B, c)
CallsCounted(q, P, B, S) ==
  \A p \in P : \E b \in S : StackArguments(q[p]) <= B[b].size + B[b].total

LEMMA SummedIs ==
  ASSUME pc = "sema"
  PROVE  Summed <=> /\ Rising(scopes) /\ Holds(scopes, blocks)
                    /\ Weigh(prog, Plain("decl")) <= TotalOf(blocks, PlainScopes)
                    /\ CallsCounted(prog, Plain("call"), blocks, PlainScopes)
BY DEF Summed, Rising, Holds, CallsCounted, Bytes, Weigh, Totals, TotalOf, Ancestors

LEMMA SummedNext ==
  ASSUME pc' = "sema",
         Rising(scopes'), Holds(scopes', blocks'),
         Weigh(prog', Plain("decl")') <= TotalOf(blocks', PlainScopes'),
         CallsCounted(prog', Plain("call")', blocks', PlainScopes')
  PROVE  Summed'
BY DEF Summed, Rising, Holds, CallsCounted, Bytes, Weigh, Totals, TotalOf, Ancestors

\* What there is to add to
LEMMA SemaBasics ==
  ASSUME SumsIInv, pc = "sema"
  PROVE  /\ IInv /\ Tree(blocks)
         /\ PlainScopes \subseteq 1..Len(blocks) /\ Totalled(blocks, PlainScopes)
         /\ Sized(prog, Plain("decl")) /\ Plain("call") \subseteq 1..Len(prog)
         /\ Scope \in PlainScopes <=> ~InBranch(Scope)
         /\ Rising(scopes) /\ Holds(scopes, blocks)
         /\ Weigh(prog, Plain("decl")) <= TotalOf(blocks, PlainScopes)
         /\ CallsCounted(prog, Plain("call"), blocks, PlainScopes)
<1>1. IInv /\ Tree(blocks) /\ LocalsDeclared /\ Summed
  BY TreeOfBlocks DEF SumsIInv
<1>2. PlainScopes \subseteq 1..Len(blocks) /\ IsFiniteSet(PlainScopes)
  <2>1. PlainScopes \subseteq 1..Len(blocks)
    BY <1>1, Elements DEF PlainScopes
  <2>2. IsFiniteSet(1..Len(blocks))
    BY <1>1, Lengths, FS_Interval
  <2>. QED BY <2>1, <2>2, FS_Subset
<1>3. Totalled(blocks, PlainScopes)
  <2>1. \A b \in 1..Len(blocks) : blocks[b].total \in Nat
    BY <1>1, Elements DEF Block
  <2>. QED BY <1>2, <2>1 DEF Totalled
<1>4. Sized(prog, Plain("decl"))
  <2>1. Plain("decl") \subseteq 1..Len(prog) /\ Plain("decl") \subseteq Statements("decl")
    BY DEF Plain, Statements
  <2>2. IsFiniteSet(1..Len(prog))
    BY <1>1, Lengths, FS_Interval
  <2>3. \A p \in Plain("decl") : prog[p].size \in Nat
    BY <1>1, <2>1 DEF LocalsDeclared
  <2>. QED BY <2>1, <2>2, <2>3, FS_Subset DEF Sized
<1>5. Scope \in PlainScopes <=> ~InBranch(Scope)
  <2>1. \E i \in 1..Len(scopes) : Scope = scopes[i]
    BY <1>1, Lengths DEF Scope
  <2>. QED BY <2>1 DEF PlainScopes
<1>6. Plain("call") \subseteq 1..Len(prog)
  BY DEF Plain, Statements
<1>. QED BY <1>1, <1>2, <1>3, <1>4, <1>5, <1>6, SummedIs

\* A step that leaves the stack leaves the blocks that count.
LEMMA ScopesSame ==
  ASSUME SumsIInv, IInv', NEW st, Recorded(st), scopes' = scopes, Len(blocks') = Len(blocks)
  PROVE  PlainScopes' = PlainScopes /\ Rising(scopes') /\ Holds(scopes', blocks')
<1>1. /\ IInv /\ PlainScopes \subseteq 1..Len(blocks)
      /\ Rising(scopes) /\ Holds(scopes, blocks)
  BY SemaBasics DEF Recorded
<1>2. Tree(blocks) /\ Grown(blocks', blocks)
  BY <1>1, OrderKept, TreeGrows, Lengths DEF Recorded, SumsIInv
<1>. DEFINE In(B, b) == \E a \in AncestorsIn(B, b) : B[a].branch
<1>3. \A b \in 1..Len(blocks) : AncestorsIn(blocks', b) = AncestorsIn(blocks, b)
  BY <1>2, AncestorsKept
<1>4. \A b \in 1..Len(blocks) : In(blocks', b) <=> In(blocks, b)
  BY <1>2, BranchKept DEF InBranch, Ancestors
<1>5. /\ PlainScopes = {b \in {scopes[i] : i \in 1..Len(scopes)} : ~In(blocks, b)}
      /\ PlainScopes' = {b \in {scopes'[i] : i \in 1..Len(scopes')} : ~In(blocks', b)}
  BY DEF PlainScopes, InBranch, Ancestors
<1>. HIDE DEF In
<1>6. \A i \in 1..Len(scopes) : scopes[i] \in 1..Len(blocks)
  BY <1>1, Elements
<1>7. PlainScopes' = PlainScopes
  BY <1>4, <1>5, <1>6
<1>8. Holds(scopes', blocks')
  BY <1>1, <1>3 DEF Holds
<1>. QED BY <1>1, <1>7, <1>8

\* Where a record replaces a block, and what that leaves
LEMMA BlockReplaced ==
  ASSUME NEW B \in Seq(Block), NEW s \in 1..Len(B), NEW v
  PROVE  /\ Len([B EXCEPT ![s] = v]) = Len(B)
         /\ [B EXCEPT ![s] = v][s] = v
         /\ \A c \in 1..Len(B) : c # s => [B EXCEPT ![s] = v][c] = B[c]
OBVIOUS

\* The bytes of stack arguments
LEMMA StackArgumentsType ==
  ASSUME NEW c, c.arity \in Nat, c.size \in Nat
  PROVE  StackArguments(c) \in Nat
<1>1. PICK x \in Nat, y \in Nat : x = c.size /\ y = c.arity
  OBVIOUS
<1>2. y > 5 => x * (y - 5) \in Nat
  <2>1. y > 5 => y - 5 \in Nat
    OBVIOUS
  <2>2. \A z \in Nat : x * z \in Nat
    OBVIOUS
  <2>. QED BY <2>1, <2>2
<1>. QED BY <1>1, <1>2 DEF StackArguments

LEMMA CallTypes ==
  ASSUME IInv
  PROVE  \A p \in Plain("call") : StackArguments(prog[p]) \in Nat
<1>1. ASSUME NEW p \in Plain("call") PROVE prog[p].arity \in Nat /\ prog[p].size \in Nat
  <2>1. prog[p] \in Statement /\ prog[p].op = "call"
    BY Elements DEF Plain, Statements
  <2>. QED BY <2>1 DEF Statement
<1>. QED BY <1>1, StackArgumentsType

\* What counts the calls still does when a block that counts has as much as
\* the one that did.
Counting(B, S) == \A b \in S : B[b].size \in Nat /\ B[b].total \in Nat
Covers(C, T, B, S) ==
  \A b \in S : \E d \in T : B[b].size + B[b].total <= C[d].size + C[d].total
SameCalls(q, r, P) == \A p \in P : r[p] = q[p] /\ StackArguments(q[p]) \in Nat

LEMMA CallsStillCounted ==
  ASSUME NEW q, NEW P, NEW B, NEW S, CallsCounted(q, P, B, S),
         NEW r, NEW C, NEW T, SameCalls(q, r, P),
         Counting(B, S), Counting(C, T), Covers(C, T, B, S)
  PROVE  CallsCounted(r, P, C, T)
<1>1. ASSUME NEW p \in P
      PROVE  \E d \in T : StackArguments(r[p]) <= C[d].size + C[d].total
  <2>1. PICK b \in S : StackArguments(q[p]) <= B[b].size + B[b].total
    BY DEF CallsCounted
  <2>2. PICK d \in T : B[b].size + B[b].total <= C[d].size + C[d].total
    BY DEF Covers
  <2>3. StackArguments(r[p]) = StackArguments(q[p]) /\ StackArguments(q[p]) \in Nat
    BY DEF SameCalls
  <2>. QED BY <2>1, <2>2, <2>3 DEF Counting
<1>. QED BY <1>1 DEF CallsCounted

LEMMA CallsStillSame ==
  ASSUME NEW q, NEW P, NEW B, NEW S, CallsCounted(q, P, B, S),
         \A p \in P : StackArguments(q[p]) \in Nat,
         NEW r, \A p \in P : r[p] = q[p],
         NEW C, \A b \in S : /\ B[b].size \in Nat /\ B[b].total \in Nat
                            /\ C[b].size \in Nat /\ C[b].total \in Nat
                            /\ B[b].size + B[b].total <= C[b].size + C[b].total
  PROVE  CallsCounted(r, P, C, S)
<1>1. \A b \in S : \E d \in S : B[b].size + B[b].total <= C[d].size + C[d].total
  OBVIOUS
<1>2. Counting(B, S) /\ Counting(C, S) /\ Covers(C, S, B, S) /\ SameCalls(q, r, P)
  BY <1>1 DEF Counting, Covers, SameCalls
<1>. QED BY <1>2, CallsStillCounted

\* A call raises what is counted for its block.
LEMMA SemaCallSums ==
  ASSUME SumsIInv, NEW c \in Calls, SemaCall(c)
  PROVE  SumsIInv'
<1>1. IInv /\ IInv' /\ pc = "sema"
  BY SemaCallKeeps DEF SumsIInv, SemaCall, Sema
<1>2. PICK s \in 1..Len(blocks) : s = Scope
  BY <1>1, Top
<1>. DEFINE r == blocks[s]
            v == [r EXCEPT !.size = @ + StackArguments(c)]
<1>3. blocks' = [blocks EXCEPT ![s] = v] /\ scopes' = scopes
  BY <1>2 DEF SemaCall
<1>4. StackArguments(c) \in Nat
  <2>1. c.arity \in Nat /\ c.size \in Nat
    BY CallsAssumption
  <2>. QED BY <2>1, StackArgumentsType
<1>5. r \in Block
  BY <1>1, Elements
<1>. HIDE DEF r
<1>6. /\ v.parent = r.parent /\ v.branch = r.branch /\ v.offset = r.offset
      /\ v.locals = r.locals /\ v.total = r.total /\ v.size = r.size + StackArguments(c)
      /\ r.size \in Nat /\ r.total \in Nat
  BY <1>5 DEF Block
<1>. HIDE DEF v
<1>7. /\ Len(blocks') = Len(blocks) /\ blocks'[s] = v
      /\ \A b \in 1..Len(blocks) : b # s => blocks'[b] = blocks[b]
  BY <1>1, <1>3, BlockReplaced DEF IInv
<1>8. PICK st \in Statement : st = Call(s, c) /\ st.op = "call" /\ st.block = s
  BY <1>2, StatementTypes
<1>9. Recorded(st)
  <2>1. \A b \in 1..Len(blocks) : /\ blocks'[b].parent = blocks[b].parent
                                  /\ blocks'[b].branch = blocks[b].branch
                                  /\ blocks'[b].offset = blocks[b].offset
    BY <1>6, <1>7 DEF r
  <2>. QED BY <1>2, <1>7, <1>8, <2>1 DEF Recorded, SameBlocks, SemaCall, Sema
<1>10. LocalsDeclared'
  <2>1. \A b \in 1..Len(blocks) : blocks'[b].locals = blocks[b].locals
    BY <1>6, <1>7 DEF r
  <2>2. \A b \in 1..Len(blocks') : ~(b > Len(blocks))
    BY <1>1, <1>7, Lengths
  <2>. QED BY <1>1, <1>8, <1>9, <2>1, <2>2, LocalsKept DEF SumsIInv
<1>11. /\ PlainScopes \subseteq 1..Len(blocks) /\ Totalled(blocks, PlainScopes)
       /\ Sized(prog, Plain("decl"))
       /\ s \in PlainScopes <=> ~InBranch(s)
       /\ Weigh(prog, Plain("decl")) <= TotalOf(blocks, PlainScopes)
       /\ CallsCounted(prog, Plain("call"), blocks, PlainScopes)
  BY <1>1, <1>2, SemaBasics
<1>12. PlainScopes' = PlainScopes /\ Rising(scopes') /\ Holds(scopes', blocks')
  BY <1>1, <1>3, <1>7, <1>9, ScopesSame
<1>13. PICK N \in Nat : N = Len(prog) /\ prog'[N + 1] = st
  BY <1>1, <1>9, ProgramGrows
<1>14. /\ Plain("decl")' = Plain("decl")
       /\ \A p \in Plain("decl") : prog'[p] = prog[p]
       /\ Plain("call")' = IF ~InBranch(s) THEN Plain("call") \union {N + 1} ELSE Plain("call")
       /\ \A p \in Plain("call") : prog'[p] = prog[p]
  BY <1>1, <1>2, <1>8, <1>9, <1>13, PlainGrows DEF SumsIInv
<1>15. Weigh(prog', Plain("decl")') <= TotalOf(blocks', PlainScopes')
  <2>1. \A b \in PlainScopes : blocks'[b].total = blocks[b].total
    BY <1>6, <1>7, <1>11 DEF r
  <2>2. TotalOf(blocks', PlainScopes) = TotalOf(blocks, PlainScopes)
    BY <1>11, <2>1, TotalSame DEF Totalled
  <2>3. Weigh(prog', Plain("decl")) = Weigh(prog, Plain("decl"))
    BY <1>11, <1>14, WeighSame DEF Sized
  <2>. QED BY <1>11, <1>12, <1>14, <2>2, <2>3
<1>16. CallsCounted(prog', Plain("call")', blocks', PlainScopes')
  <2>1. \A b \in PlainScopes : /\ blocks[b].size \in Nat /\ blocks[b].total \in Nat
                               /\ blocks'[b].size \in Nat /\ blocks'[b].total \in Nat
                               /\ blocks[b].size + blocks[b].total
                                    <= blocks'[b].size + blocks'[b].total
    <3>1. \A b \in 1..Len(blocks) : blocks[b].size \in Nat /\ blocks[b].total \in Nat
      BY <1>1, Elements DEF Block
    <3>2. ASSUME NEW b \in PlainScopes, b # s PROVE blocks'[b] = blocks[b]
      BY <3>2, <1>7, <1>11
    <3>3. /\ blocks'[s].size \in Nat /\ blocks'[s].total \in Nat
          /\ blocks[s].size + blocks[s].total <= blocks'[s].size + blocks'[s].total
      BY <1>4, <1>6, <1>7 DEF r
    <3>. QED BY <3>1, <3>2, <3>3, <1>11
  <2>2. CallsCounted(prog', Plain("call"), blocks', PlainScopes)
    BY <1>1, <1>11, <1>14, <2>1, CallTypes, CallsStillSame
  <2>3. ASSUME ~InBranch(s)
        PROVE  \E b \in PlainScopes :
                 StackArguments(prog'[N + 1]) <= blocks'[b].size + blocks'[b].total
    <3>1. s \in PlainScopes
      BY <2>3, <1>11
    <3>2. StackArguments(prog'[N + 1]) = StackArguments(c)
      BY <1>8, <1>13 DEF Call, StackArguments
    <3>3. StackArguments(c) <= blocks'[s].size + blocks'[s].total
      BY <1>4, <1>6, <1>7
    <3>. QED BY <3>1, <3>2, <3>3
  <2>. QED BY <1>12, <1>14, <2>2, <2>3 DEF CallsCounted
<1>17. Summed'
  BY <1>9, <1>12, <1>15, <1>16, SummedNext DEF Recorded
<1>. QED BY <1>1, <1>9, <1>10, <1>17, SemaSums


\* A declaration raises the total of its block by as much as the bytes of all
\* declarations.
LEMMA SemaDeclSums ==
  ASSUME SumsIInv, NEW n \in Names, NEW size \in Sizes, NEW init \in Inits,
         SemaDecl(n, size, init)
  PROVE  SumsIInv'
<1>1. IInv /\ IInv' /\ pc = "sema"
  BY SemaDeclKeeps DEF SumsIInv, SemaDecl, Sema
<1>2. PICK s \in 1..Len(blocks) : s = Scope
  BY <1>1, Top
<1>. DEFINE add == IF init = "same type" THEN size ELSE 0
            r == blocks[s]
            v == [r EXCEPT !.size = @ + add, !.total = @ + size, !.locals[n] = Len(prog) + 1]
<1>3. blocks' = [blocks EXCEPT ![s] = v] /\ scopes' = scopes
  BY <1>2 DEF SemaDecl
<1>4. size \in 1..8 /\ size \in Nat /\ add \in Nat
  <2>1. size \in 1..8
    BY SizesAssumption
  <2>2. size \in Nat
    BY <2>1
  <2>. QED BY <2>1, <2>2
<1>5. r \in Block
  BY <1>1, Elements
<1>. HIDE DEF r, add
<1>6. /\ v.parent = r.parent /\ v.branch = r.branch /\ v.offset = r.offset
      /\ v.locals = [r.locals EXCEPT ![n] = Len(prog) + 1]
      /\ v.total = r.total + size /\ v.size = r.size + add
      /\ r.size \in Nat /\ r.total \in Nat /\ r.locals \in [Names -> Nat]
  <2>1. v = [r EXCEPT !.size = r.size + add, !.total = r.total + size,
                      !.locals = [r.locals EXCEPT ![n] = Len(prog) + 1]]
    BY <1>5 DEF Block
  <2>. QED BY <1>5, <2>1 DEF Block
<1>. HIDE DEF v
<1>7. /\ Len(blocks') = Len(blocks) /\ blocks'[s] = v
      /\ \A b \in 1..Len(blocks) : b # s => blocks'[b] = blocks[b]
  BY <1>1, <1>3, BlockReplaced DEF IInv
<1>8. PICK st \in Statement : st = Decl(s, n, size, init) /\ st.op = "decl" /\ st.block = s
  BY <1>2, StatementTypes
<1>9. Recorded(st)
  <2>1. \A b \in 1..Len(blocks) : /\ blocks'[b].parent = blocks[b].parent
                                  /\ blocks'[b].branch = blocks[b].branch
                                  /\ blocks'[b].offset = blocks[b].offset
    BY <1>6, <1>7 DEF r
  <2>. QED BY <1>2, <1>7, <1>8, <2>1 DEF Recorded, SameBlocks, SemaDecl, Sema
<1>10. PICK N \in Nat : /\ N = Len(prog) /\ prog'[N + 1] = st
                        /\ \A p \in 1..N : prog'[p] = prog[p]
  BY <1>1, <1>9, ProgramGrows
<1>11. LocalsDeclared'
  <2>1. PICK S, D : /\ S = Statements("decl") /\ D = Statements("decl")'
                    /\ D = S \union {N + 1} /\ S \subseteq 1..N
                    /\ \A p \in S : prog'[p] = prog[p]
    BY <1>1, <1>8, <1>9, <1>10, StatementsGrow
  <2>2. /\ \A b \in 1..Len(blocks), m \in Names : blocks[b].locals[m] # 0 =>
             /\ blocks[b].locals[m] \in S
             /\ prog[blocks[b].locals[m]].block = b /\ prog[blocks[b].locals[m]].name = m
        /\ \A p \in S : prog[p].size \in 1..8
    BY <2>1 DEF SumsIInv, LocalsDeclared
  <2>3. st.block = s /\ st.name = n /\ st.size = size
    BY <1>8 DEF Decl
  <2>4. ASSUME NEW b \in 1..Len(blocks), NEW m \in Names, blocks'[b].locals[m] # 0
        PROVE  /\ blocks'[b].locals[m] \in D
               /\ prog'[blocks'[b].locals[m]].block = b /\ prog'[blocks'[b].locals[m]].name = m
    <3>1. CASE b = s /\ m = n
      <4>1. blocks'[b].locals[m] = N + 1
        BY <3>1, <1>6, <1>7, <1>10
      <4>. QED BY <4>1, <3>1, <1>10, <2>1, <2>3
    <3>2. CASE ~(b = s /\ m = n)
      <4>1. blocks'[b].locals[m] = blocks[b].locals[m]
        BY <3>2, <1>6, <1>7 DEF r
      <4>2. PICK p : p = blocks[b].locals[m] /\ p = blocks'[b].locals[m]
        BY <4>1
      <4>3. p \in S /\ prog[p].block = b /\ prog[p].name = m
        <5>1. blocks[b].locals[m] # 0
          BY <2>4, <4>1
        <5>2. blocks[b].locals[m] \in S /\ prog[blocks[b].locals[m]].block = b
              /\ prog[blocks[b].locals[m]].name = m
          BY <2>2, <5>1
        <5>. QED BY <4>2, <5>2
      <4>. QED BY <2>1, <4>2, <4>3
    <3>. QED BY <3>1, <3>2
  <2>5. \A p \in D : prog'[p].size \in 1..8
    BY <1>4, <1>10, <2>1, <2>2, <2>3
  <2>. QED BY <1>7, <2>1, <2>4, <2>5 DEF LocalsDeclared
<1>12. /\ PlainScopes \subseteq 1..Len(blocks) /\ Totalled(blocks, PlainScopes)
       /\ Sized(prog, Plain("decl"))
       /\ s \in PlainScopes <=> ~InBranch(s)
       /\ Weigh(prog, Plain("decl")) <= TotalOf(blocks, PlainScopes)
       /\ CallsCounted(prog, Plain("call"), blocks, PlainScopes)
  BY <1>1, <1>2, SemaBasics
<1>13. PlainScopes' = PlainScopes /\ Rising(scopes') /\ Holds(scopes', blocks')
  BY <1>1, <1>3, <1>7, <1>9, ScopesSame
<1>14. /\ Plain("call")' = Plain("call")
       /\ \A p \in Plain("call") : prog'[p] = prog[p]
       /\ Plain("decl")' = IF ~InBranch(s) THEN Plain("decl") \union {N + 1} ELSE Plain("decl")
       /\ \A p \in Plain("decl") : prog'[p] = prog[p]
       /\ N + 1 \notin Plain("decl")
  BY <1>1, <1>2, <1>8, <1>9, <1>10, PlainGrows DEF SumsIInv
<1>15. Weigh(prog', Plain("decl")') <= TotalOf(blocks', PlainScopes')
  <2>1. Weigh(prog', Plain("decl")) = Weigh(prog, Plain("decl")) /\ Sized(prog', Plain("decl"))
    BY <1>12, <1>14, WeighSame DEF Sized
  <2>2. CASE InBranch(s)
    <3>1. \A b \in PlainScopes : blocks'[b].total = blocks[b].total
      BY <2>2, <1>7, <1>12
    <3>2. TotalOf(blocks', PlainScopes) = TotalOf(blocks, PlainScopes)
      BY <1>12, <3>1, TotalSame DEF Totalled
    <3>. QED BY <1>12, <1>13, <1>14, <2>1, <2>2, <3>2
  <2>3. CASE ~InBranch(s)
    <3>1. prog'[N + 1].size = size
      BY <1>8, <1>10 DEF Decl
    <3>2. /\ Weigh(prog', Plain("decl")) \in Nat
          /\ Weigh(prog', Plain("decl") \union {N + 1}) = Weigh(prog', Plain("decl")) + size
      BY <1>4, <1>14, <2>1, <3>1, WeighAdd
    <3>3. blocks'[s].total = blocks[s].total + size /\ blocks[s].total \in Nat
      BY <1>6, <1>7 DEF r
    <3>4. \A b \in PlainScopes \ {s} : blocks'[b].total = blocks[b].total
      BY <1>7, <1>12
    <3>5. s \in PlainScopes /\ blocks'[s].total \in Nat
      BY <1>4, <1>12, <2>3, <3>3
    <3>6. /\ TotalOf(blocks, PlainScopes) \in Nat /\ TotalOf(blocks', PlainScopes) \in Nat
          /\ TotalOf(blocks', PlainScopes) + blocks[s].total
               = TotalOf(blocks, PlainScopes) + blocks'[s].total
      <4>1. Totalled(blocks, PlainScopes)
        BY <1>12
      <4>2. SameTotals(blocks, blocks', PlainScopes \ {s})
        BY <3>4 DEF SameTotals
      <4>. QED BY <3>5, <4>1, <4>2, TotalChanged
    <3>7. Weigh(prog', Plain("decl") \union {N + 1}) <= TotalOf(blocks', PlainScopes)
      BY <1>4, <1>12, <2>1, <3>2, <3>3, <3>6
    <3>. QED BY <1>13, <1>14, <2>3, <3>7
  <2>. QED BY <2>2, <2>3
<1>16. CallsCounted(prog', Plain("call")', blocks', PlainScopes')
  <2>1. \A b \in PlainScopes : /\ blocks[b].size \in Nat /\ blocks[b].total \in Nat
                               /\ blocks'[b].size \in Nat /\ blocks'[b].total \in Nat
                               /\ blocks[b].size + blocks[b].total
                                    <= blocks'[b].size + blocks'[b].total
    <3>1. \A b \in 1..Len(blocks) : blocks[b].size \in Nat /\ blocks[b].total \in Nat
      BY <1>1, Elements DEF Block
    <3>2. ASSUME NEW b \in PlainScopes, b # s PROVE blocks'[b] = blocks[b]
      BY <3>2, <1>7, <1>12
    <3>3. PICK a \in Nat, b \in Nat :
               /\ a = blocks[s].size /\ b = blocks[s].total
               /\ blocks'[s].size = a + add /\ blocks'[s].total = b + size
      BY <1>6, <1>7 DEF r
    <3>4. /\ blocks'[s].size \in Nat /\ blocks'[s].total \in Nat
          /\ blocks[s].size + blocks[s].total <= blocks'[s].size + blocks'[s].total
      <4>1. PICK k \in Nat, m \in Nat : k = size /\ m = add
        BY <1>4
      <4>2. a + b <= (a + m) + (b + k) /\ a + m \in Nat /\ b + k \in Nat
        BY <4>1
      <4>. QED BY <3>3, <4>1, <4>2
    <3>. QED BY <3>1, <3>2, <3>4, <1>12
  <2>2. CallsCounted(prog', Plain("call"), blocks', PlainScopes)
    BY <1>1, <1>12, <1>14, <2>1, CallTypes, CallsStillSame
  <2>. QED BY <1>13, <1>14, <2>2
<1>17. Summed'
  BY <1>9, <1>13, <1>15, <1>16, SummedNext DEF Recorded
<1>. QED BY <1>1, <1>9, <1>11, <1>17, SemaSums

\* A block that opens has nothing to count yet.
LEMMA SemaOpenSums ==
  ASSUME SumsIInv, NEW branch \in BOOLEAN, SemaOpen(branch)
  PROVE  SumsIInv'
<1>1. IInv /\ IInv' /\ pc = "sema"
  BY SemaOpenKeeps DEF SumsIInv, SemaOpen, Sema
<1>2. PICK n \in Nat : n = Len(blocks) /\ n >= 1
  BY <1>1, Lengths
<1>. DEFINE B == NewBlock(Scope, branch)
<1>3. blocks' = Append(blocks, B) /\ scopes' = Append(scopes, n + 1)
  BY <1>2 DEF SemaOpen
<1>4. Scope \in 1..n
  BY <1>1, <1>2, Top
<1>5. /\ B \in Block /\ B.size = 0 /\ B.total = 0 /\ B.parent = Scope
      /\ \A m \in Names : B.locals[m] = 0
  BY <1>4 DEF NewBlock, Block
<1>. HIDE DEF B
<1>6. /\ Len(blocks') = n + 1 /\ blocks'[n + 1] = B
      /\ \A b \in 1..n : blocks'[b] = blocks[b]
  BY <1>1, <1>2, <1>3, <1>5, AppendProperties DEF IInv
<1>7. PICK st \in Statement : st = Open(n + 1) /\ st.op = "open" /\ st.block = n + 1
  BY <1>2, StatementTypes
<1>8. Recorded(st)
  BY <1>2, <1>6, <1>7 DEF Recorded, SameBlocks, SemaOpen, Sema
<1>9. LocalsDeclared'
  <2>1. \A b \in 1..Len(blocks) : blocks'[b].locals = blocks[b].locals
    BY <1>2, <1>6
  <2>2. \A b \in 1..Len(blocks') : b > Len(blocks) => \A m \in Names : blocks'[b].locals[m] = 0
    <3>1. \A b \in 1..(n + 1) : b > n => b = n + 1
      BY <1>2
    <3>. QED BY <3>1, <1>2, <1>5, <1>6
  <2>. QED BY <1>1, <1>7, <1>8, <2>1, <2>2, LocalsKept DEF SumsIInv
<1>10. /\ PlainScopes \subseteq 1..n /\ Totalled(blocks, PlainScopes)
       /\ Sized(prog, Plain("decl"))
       /\ Rising(scopes) /\ Holds(scopes, blocks)
       /\ Weigh(prog, Plain("decl")) <= TotalOf(blocks, PlainScopes)
       /\ CallsCounted(prog, Plain("call"), blocks, PlainScopes)
  BY <1>1, <1>2, SemaBasics
<1>11. Tree(blocks) /\ Grown(blocks', blocks)
  BY <1>1, <1>2, <1>6, <1>8, OrderKept, TreeGrows DEF Recorded, SumsIInv
<1>12. PICK k \in Nat : /\ k = Len(scopes) /\ k >= 1 /\ Len(scopes') = k + 1
                        /\ \A i \in 1..k : scopes'[i] = scopes[i] /\ scopes[i] \in 1..n
                        /\ scopes'[k + 1] = n + 1
                        /\ \A i \in 1..(k + 1) : i \in 1..k \/ i = k + 1
  <2>1. PICK k \in Nat : k = Len(scopes) /\ k >= 1 /\ \A i \in 1..k : scopes[i] \in 1..n
    BY <1>1, <1>2, Lengths, Elements
  <2>2. scopes \in Seq(Nat)
    <3>1. 1..Len(blocks) \subseteq Nat
      BY <1>2
    <3>. QED BY <3>1, <1>1, SeqDef, <2>1 DEF IInv
  <2>3. /\ Len(scopes') = k + 1 /\ scopes'[k + 1] = n + 1
        /\ \A i \in 1..k : scopes'[i] = scopes[i]
    BY <1>2, <1>3, <2>1, <2>2, AppendProperties
  <2>4. \A i \in 1..(k + 1) : i \in 1..k \/ i = k + 1
    BY <2>1
  <2>. QED BY <2>1, <2>3, <2>4
<1>13. Rising(scopes')
  <2>1. ASSUME NEW i \in 1..(k + 1), NEW j \in 1..(k + 1), i < j PROVE scopes'[i] < scopes'[j]
    <3>1. i \in 1..k
      BY <2>1
    <3>2. CASE j \in 1..k
      BY <2>1, <3>1, <3>2, <1>10, <1>12 DEF Rising
    <3>3. CASE j = k + 1
      BY <3>1, <3>3, <1>2, <1>12
    <3>. QED BY <3>2, <3>3, <1>12
  <2>. QED BY <2>1, <1>12 DEF Rising
<1>14. Holds(scopes', blocks')
  <2>1. \A c \in 1..n : AncestorsIn(blocks', c) = AncestorsIn(blocks, c)
    BY <1>2, <1>11, AncestorsKept
  <2>2. AncestorsIn(blocks', n + 1) = {n + 1} \union AncestorsIn(blocks', Scope)
    <3>1. n + 1 \in 2..Len(blocks') /\ blocks'[n + 1].parent = Scope
      BY <1>2, <1>5, <1>6
    <3>. QED BY <3>1, <1>11, AncestorsOf DEF Grown
  <2>3. \A i \in 1..k : scopes[i] <= Scope
    <3>1. Scope = scopes[k] /\ \A i \in 1..k : i < k \/ i = k
      BY <1>12 DEF Scope
    <3>2. \A i \in 1..k : i < k => scopes[i] < scopes[k]
      BY <1>10, <1>12 DEF Rising
    <3>. QED BY <3>1, <3>2, <1>4, <1>12
  <2>4. ASSUME NEW i \in 1..(k + 1), NEW c \in 1..(n + 1), c >= scopes'[i]
        PROVE  scopes'[i] \in AncestorsIn(blocks', c)
    <3>1. CASE i = k + 1
      <4>1. c = n + 1
        BY <2>4, <3>1, <1>2, <1>12
      <4>. QED BY <3>1, <4>1, <2>2, <1>12
    <3>2. CASE i \in 1..k /\ c \in 1..n
      BY <3>2, <2>1, <2>4, <1>2, <1>10, <1>12 DEF Holds
    <3>3. CASE i \in 1..k /\ c = n + 1
      <4>1. scopes[i] \in AncestorsIn(blocks, Scope)
        BY <3>3, <2>3, <1>2, <1>4, <1>10, <1>12 DEF Holds
      <4>. QED BY <3>3, <4>1, <2>1, <2>2, <1>4, <1>12
    <3>. QED BY <3>1, <3>2, <3>3, <1>2, <1>12
  <2>. QED BY <2>4, <1>6, <1>12 DEF Holds
<1>15. PlainScopes' = PlainScopes \/ PlainScopes' = PlainScopes \union {n + 1}
  <2>. DEFINE In(C, b) == \E a \in AncestorsIn(C, b) : C[a].branch
              S == {scopes[i] : i \in 1..k}
  <2>1. \A b \in 1..n : In(blocks', b) <=> In(blocks, b)
    BY <1>2, <1>11, BranchKept DEF InBranch, Ancestors
  <2>2. /\ PlainScopes = {b \in S : ~In(blocks, b)}
        /\ PlainScopes' = {b \in {scopes'[i] : i \in 1..(k + 1)} : ~In(blocks', b)}
    BY <1>12 DEF PlainScopes, InBranch, Ancestors
  <2>. HIDE DEF In
  <2>3. {scopes'[i] : i \in 1..(k + 1)} = S \union {n + 1}
    <3>1. ASSUME NEW i \in 1..(k + 1) PROVE scopes'[i] \in S \union {n + 1}
      BY <1>12
    <3>2. ASSUME NEW i \in 1..k PROVE \E j \in 1..(k + 1) : scopes[i] = scopes'[j]
      BY <1>12
    <3>3. \E j \in 1..(k + 1) : n + 1 = scopes'[j]
      BY <1>12
    <3>. QED BY <3>1, <3>2, <3>3
  <2>4. S \subseteq 1..n
    BY <1>12
  <2>. HIDE DEF S
  <2>5. \A b \in S : In(blocks', b) <=> In(blocks, b)
    BY <2>1, <2>4
  <2>. QED BY <2>2, <2>3, <2>5
<1>16. PICK N \in Nat : N = Len(prog)
  BY <1>1, Lengths
<1>17. /\ Plain("decl")' = Plain("decl")
       /\ \A p \in Plain("decl") : prog'[p] = prog[p]
       /\ Plain("call")' = Plain("call")
       /\ \A p \in Plain("call") : prog'[p] = prog[p]
  BY <1>1, <1>7, <1>8, <1>16, PlainGrows DEF SumsIInv
<1>18. Weigh(prog', Plain("decl")') <= TotalOf(blocks', PlainScopes')
  <2>1. \A b \in PlainScopes : blocks'[b].total = blocks[b].total
    BY <1>6, <1>10
  <2>2. TotalOf(blocks', PlainScopes) = TotalOf(blocks, PlainScopes)
    BY <1>10, <2>1, TotalSame DEF Totalled
  <2>3. Weigh(prog', Plain("decl")) = Weigh(prog, Plain("decl"))
    BY <1>10, <1>17, WeighSame DEF Sized
  <2>4. TotalOf(blocks', PlainScopes \union {n + 1}) = TotalOf(blocks', PlainScopes)
    <3>. DEFINE R == PlainScopes \union {n + 1}
    <3>1. IsFiniteSet(R) /\ n + 1 \in R
      BY <1>10, FS_AddElement DEF Totalled
    <3>2. \A b \in R : blocks'[b].total \in Nat
      BY <2>1, <1>5, <1>6, <1>10 DEF Totalled
    <3>3. Totalled(blocks', R)
      BY <3>1, <3>2 DEF Totalled
    <3>4. R \ {n + 1} = PlainScopes
      <4>1. n + 1 \notin 1..n
        BY <1>2
      <4>. QED BY <4>1, <1>10
    <3>. HIDE DEF R
    <3>5. /\ TotalOf(blocks', R \ {n + 1}) \in Nat
          /\ TotalOf(blocks', R) = blocks'[n + 1].total + TotalOf(blocks', R \ {n + 1})
      BY <3>1, <3>3, TotalWithout
    <3>6. blocks'[n + 1].total = 0
      BY <1>5, <1>6
    <3>7. TotalOf(blocks', R) = TotalOf(blocks', PlainScopes)
      <4>1. PICK t \in Nat : t = TotalOf(blocks', R \ {n + 1})
        BY <3>5
      <4>2. TotalOf(blocks', R) = 0 + t
        BY <3>5, <3>6, <4>1
      <4>. QED BY <3>4, <4>1, <4>2
    <3>. QED BY <3>7 DEF R
  <2>. QED BY <1>10, <1>15, <1>17, <2>2, <2>3, <2>4
<1>19. CallsCounted(prog', Plain("call")', blocks', PlainScopes')
  <2>1. \A b \in 1..n : blocks[b].size \in Nat /\ blocks[b].total \in Nat
    BY <1>1, <1>2, Elements DEF Block
  <2>2. \A b \in PlainScopes : /\ blocks[b].size \in Nat /\ blocks[b].total \in Nat
                               /\ blocks'[b].size \in Nat /\ blocks'[b].total \in Nat
                               /\ blocks[b].size + blocks[b].total
                                    <= blocks'[b].size + blocks'[b].total
    BY <2>1, <1>6, <1>10
  <2>3. CallsCounted(prog', Plain("call"), blocks', PlainScopes)
    BY <1>1, <1>10, <1>17, <2>2, CallTypes, CallsStillSame
  <2>. QED BY <2>3, <1>15, <1>17 DEF CallsCounted
<1>20. Summed'
  BY <1>8, <1>13, <1>14, <1>18, <1>19, SummedNext DEF Recorded
<1>. QED BY <1>1, <1>8, <1>9, <1>20, SemaSums

\* What closing a block changes: the block, and its parent if it counts there
LEMMA CloseChanges ==
  ASSUME IInv, NEW s \in 1..Len(blocks), NEW q \in 1..Len(blocks), q = blocks[s].parent,
         blocks' = Counted(s)
  PROVE  /\ Len(blocks') = Len(blocks) /\ q # s
         /\ \A b \in 1..Len(blocks) :
              /\ blocks'[b].parent = blocks[b].parent /\ blocks'[b].branch = blocks[b].branch
              /\ blocks'[b].offset = blocks[b].offset /\ blocks'[b].locals = blocks[b].locals
              /\ b # s /\ b # q => blocks'[b] = blocks[b]
         /\ blocks[s].branch => blocks'[q] = blocks[q]
         /\ ~blocks[s].branch =>
              /\ blocks'[q].size = blocks[q].size
              /\ blocks'[q].total = blocks[q].total + (blocks[s].size + blocks[s].total)
<1>1. q # s
  <2>1. blocks[s].parent < s
    BY DEF IInv
  <2>. QED BY <2>1, Lengths
<1>. DEFINE r == blocks[s]
            v == [r EXCEPT !.size = @ + r.total]
            C == Closed(s)
<1>2. r \in Block /\ blocks[q] \in Block
  BY Elements
<1>3. C = [blocks EXCEPT ![s] = v]
  BY DEF Closed
<1>4. /\ v.parent = r.parent /\ v.branch = r.branch /\ v.offset = r.offset
      /\ v.locals = r.locals /\ v.size = r.size + r.total
  <2>. HIDE DEF r
  <2>. QED BY <1>2 DEF Block
<1>. HIDE DEF v
<1>5. /\ Len(C) = Len(blocks) /\ C[s] = v
      /\ \A b \in 1..Len(blocks) : b # s => C[b] = blocks[b]
  BY <1>3, BlockReplaced DEF IInv
<1>6. C \in Seq(Block)
  BY ClosedShape
<1>. HIDE DEF C
<1>7. CASE r.branch
  <2>1. blocks' = C
    BY <1>7 DEF Counted, C
  <2>2. \A b \in 1..Len(blocks) :
              /\ blocks'[b].parent = blocks[b].parent /\ blocks'[b].branch = blocks[b].branch
              /\ blocks'[b].offset = blocks[b].offset /\ blocks'[b].locals = blocks[b].locals
    BY <2>1, <1>4, <1>5
  <2>. QED BY <2>1, <2>2, <1>1, <1>5, <1>7
<1>8. CASE ~r.branch
  <2>. DEFINE t == blocks[q]
              w == [t EXCEPT !.total = @ + (r.size + r.total)]
  <2>1. blocks' = [C EXCEPT ![q] = w]
    <3>1. C[q] = t /\ C[s].size = r.size + r.total
      BY <1>1, <1>4, <1>5
    <3>2. blocks' = [C EXCEPT ![q].total = @ + C[s].size]
      BY <1>8 DEF Counted, C
    <3>. HIDE DEF r, t
    <3>. QED BY <3>1, <3>2 DEF r
  <2>2. /\ w.parent = t.parent /\ w.branch = t.branch /\ w.offset = t.offset
        /\ w.locals = t.locals /\ w.size = t.size
        /\ w.total = t.total + (r.size + r.total)
    <3>. HIDE DEF t, r
    <3>. QED BY <1>2 DEF Block, t
  <2>. HIDE DEF w
  <2>3. /\ Len(blocks') = Len(C) /\ blocks'[q] = w
        /\ \A b \in 1..Len(C) : b # q => blocks'[b] = C[b]
    BY <2>1, <1>5, <1>6, BlockReplaced
  <2>4. ASSUME NEW b \in 1..Len(blocks)
        PROVE  /\ blocks'[b].parent = blocks[b].parent /\ blocks'[b].branch = blocks[b].branch
               /\ blocks'[b].offset = blocks[b].offset /\ blocks'[b].locals = blocks[b].locals
               /\ b # s /\ b # q => blocks'[b] = blocks[b]
    <3>1. CASE b = q
      BY <3>1, <2>2, <2>3
    <3>2. CASE b = s
      BY <3>2, <2>3, <1>1, <1>4, <1>5
    <3>3. CASE b # s /\ b # q
      BY <3>3, <2>3, <1>5
    <3>. QED BY <3>1, <3>2, <3>3
  <2>. QED BY <1>1, <1>5, <1>8, <2>2, <2>3, <2>4
<1>. QED BY <1>7, <1>8

\* A block that closes is counted for its parent, or in a branch.
LEMMA SemaCloseSums ==
  ASSUME SumsIInv, SemaClose
  PROVE  SumsIInv'
<1>1. IInv /\ IInv' /\ pc = "sema"
  BY SemaCloseKeeps DEF SumsIInv, SemaClose, Sema
<1>2. PICK n \in Nat : n = Len(blocks) /\ n >= 1
  BY <1>1, Lengths
<1>3. PICK k \in Nat : k = Len(scopes) /\ k > 1 /\ \A i \in 1..k : scopes[i] \in 1..n
  BY <1>1, <1>2, Lengths, Elements DEF SemaClose
<1>4. PICK s \in 1..n : s = Scope /\ s = scopes[k]
  BY <1>1, <1>2, <1>3, Top DEF Scope
<1>5. PICK q \in 1..n : q = blocks[s].parent /\ q = scopes[k - 1]
  <2>1. k \in 2..Len(scopes) /\ k - 1 \in 1..k
    BY <1>3
  <2>2. blocks[scopes[k]].parent = scopes[k - 1]
    BY <1>1, <2>1 DEF IInv, Around
  <2>. QED BY <1>3, <1>4, <2>1, <2>2
<1>6. blocks' = Counted(s) /\ scopes' = Pop
  BY <1>4 DEF SemaClose
<1>7. /\ Len(blocks') = n /\ q # s
      /\ \A b \in 1..n :
           /\ blocks'[b].parent = blocks[b].parent /\ blocks'[b].branch = blocks[b].branch
           /\ blocks'[b].offset = blocks[b].offset /\ blocks'[b].locals = blocks[b].locals
           /\ b # s /\ b # q => blocks'[b] = blocks[b]
      /\ blocks[s].branch => blocks'[q] = blocks[q]
      /\ ~blocks[s].branch =>
           /\ blocks'[q].size = blocks[q].size
           /\ blocks'[q].total = blocks[q].total + (blocks[s].size + blocks[s].total)
  BY <1>1, <1>2, <1>5, <1>6, CloseChanges
<1>8. PICK st \in Statement : st = Close(s) /\ st.op = "close" /\ st.block = s
  BY StatementTypes
<1>9. Recorded(st)
  BY <1>2, <1>4, <1>7, <1>8 DEF Recorded, SameBlocks, SemaClose, Sema
<1>10. LocalsDeclared'
  <2>1. \A b \in 1..Len(blocks) : blocks'[b].locals = blocks[b].locals
    BY <1>2, <1>7
  <2>2. \A b \in 1..Len(blocks') : ~(b > Len(blocks))
    BY <1>2, <1>7
  <2>. QED BY <1>1, <1>8, <1>9, <2>1, <2>2, LocalsKept DEF SumsIInv
<1>11. /\ PlainScopes \subseteq 1..n /\ Totalled(blocks, PlainScopes)
       /\ Sized(prog, Plain("decl"))
       /\ s \in PlainScopes <=> ~InBranch(s)
       /\ Rising(scopes) /\ Holds(scopes, blocks)
       /\ Weigh(prog, Plain("decl")) <= TotalOf(blocks, PlainScopes)
       /\ CallsCounted(prog, Plain("call"), blocks, PlainScopes)
  BY <1>1, <1>2, <1>4, SemaBasics
<1>12. Tree(blocks) /\ Grown(blocks', blocks)
  BY <1>1, <1>2, <1>7, <1>9, OrderKept, TreeGrows DEF Recorded, SumsIInv
<1>13. Len(scopes') = k - 1 /\ \A i \in 1..(k - 1) : scopes'[i] = scopes[i] /\ i \in 1..k
  <2>1. 1 \in Int /\ k - 1 \in 0..k
    BY <1>3
  <2>. QED BY <1>1, <1>3, <1>6, SubSeqProperties DEF IInv, Pop
<1>14. Rising(scopes')
  BY <1>3, <1>11, <1>13 DEF Rising
<1>15. \A c \in 1..n : AncestorsIn(blocks', c) = AncestorsIn(blocks, c)
  BY <1>2, <1>12, AncestorsKept
<1>16. Holds(scopes', blocks')
  BY <1>2, <1>3, <1>7, <1>11, <1>13, <1>15 DEF Holds
<1>17. PlainScopes' = PlainScopes \ {s}
  <2>. DEFINE In(C, b) == \E a \in AncestorsIn(C, b) : C[a].branch
              S == {scopes[i] : i \in 1..k}
  <2>1. \A b \in 1..n : In(blocks', b) <=> In(blocks, b)
    BY <1>2, <1>12, BranchKept DEF InBranch, Ancestors
  <2>2. /\ PlainScopes = {b \in S : ~In(blocks, b)}
        /\ PlainScopes' = {b \in {scopes'[i] : i \in 1..(k - 1)} : ~In(blocks', b)}
    BY <1>3, <1>13 DEF PlainScopes, InBranch, Ancestors
  <2>. HIDE DEF In
  <2>3. {scopes'[i] : i \in 1..(k - 1)} = S \ {s}
    <3>1. ASSUME NEW i \in 1..(k - 1) PROVE scopes'[i] \in S \ {s}
      <4>1. scopes[i] < scopes[k]
        BY <1>3, <1>11, <1>13 DEF Rising
      <4>. QED BY <4>1, <1>3, <1>4, <1>13
    <3>2. ASSUME NEW i \in 1..k, scopes[i] # s PROVE \E j \in 1..(k - 1) : scopes[i] = scopes'[j]
      <4>1. i \in 1..(k - 1)
        BY <3>2, <1>3, <1>4
      <4>. QED BY <4>1, <1>13
    <3>. QED BY <3>1, <3>2
  <2>4. S \subseteq 1..n
    BY <1>3
  <2>. HIDE DEF S
  <2>5. \A b \in S : In(blocks', b) <=> In(blocks, b)
    BY <2>1, <2>4
  <2>. QED BY <2>2, <2>3, <2>5
<1>18. PICK N \in Nat : N = Len(prog)
  BY <1>1, Lengths
<1>19. /\ Plain("decl")' = Plain("decl")
       /\ \A p \in Plain("decl") : prog'[p] = prog[p]
       /\ Plain("call")' = Plain("call")
       /\ \A p \in Plain("call") : prog'[p] = prog[p]
  BY <1>1, <1>8, <1>9, <1>18, PlainGrows DEF SumsIInv
<1>20. Weigh(prog', Plain("decl")) = Weigh(prog, Plain("decl"))
       /\ Weigh(prog, Plain("decl")) \in Nat
  <2>1. Weigh(prog', Plain("decl")) = Weigh(prog, Plain("decl"))
    BY <1>11, <1>19, WeighSame DEF Sized
  <2>. QED BY <2>1, <1>11, WeighSubset
<1>21. \A b \in 1..n : blocks[b].size \in Nat /\ blocks[b].total \in Nat
  BY <1>1, <1>2, Elements DEF Block
<1>22. AncestorsIn(blocks, s) = {s} \union AncestorsIn(blocks, q)
  <2>1. s \in 2..n
    <3>1. s # 1
      BY <1>1, <1>3, <1>4, OnlyBodyAlone
    <3>. QED BY <3>1, <1>2
  <2>2. AncestorsIn(blocks, s) = {s} \union AncestorsIn(blocks, blocks[s].parent)
    BY <1>2, <1>12, <2>1, AncestorsOf
  <2>. QED BY <1>5, <2>2
<1>23. CASE s \notin PlainScopes
  <2>1. blocks[s].branch \/ q \notin PlainScopes
    BY <1>11, <1>22, <1>23 DEF InBranch, Ancestors, PlainScopes
  <2>2. \A b \in PlainScopes : blocks'[b] = blocks[b]
    BY <1>7, <1>11, <1>23, <2>1
  <2>3. PlainScopes' = PlainScopes
    BY <1>17, <1>23
  <2>4. TotalOf(blocks', PlainScopes) = TotalOf(blocks, PlainScopes)
    BY <1>11, <2>2, TotalSame DEF Totalled
  <2>5. Weigh(prog', Plain("decl")') <= TotalOf(blocks', PlainScopes')
    BY <1>11, <1>19, <1>20, <2>3, <2>4
  <2>6. CallsCounted(prog', Plain("call")', blocks', PlainScopes')
    <3>1. \A b \in PlainScopes : /\ blocks[b].size \in Nat /\ blocks[b].total \in Nat
                                 /\ blocks'[b].size \in Nat /\ blocks'[b].total \in Nat
                                 /\ blocks[b].size + blocks[b].total
                                      <= blocks'[b].size + blocks'[b].total
      BY <1>11, <1>21, <2>2
    <3>2. CallsCounted(prog', Plain("call"), blocks', PlainScopes)
      BY <1>1, <1>11, <1>19, <3>1, CallTypes, CallsStillSame
    <3>. QED BY <3>2, <2>3, <1>19
  <2>7. Summed'
    BY <1>9, <1>14, <1>16, <2>5, <2>6, SummedNext DEF Recorded
  <2>. QED BY <1>1, <1>9, <1>10, <2>7, SemaSums
<1>24. CASE s \in PlainScopes
  <2>1. ~blocks[s].branch /\ q \in PlainScopes \ {s}
    <3>1. ~InBranch(s)
      BY <1>11, <1>24
    <3>2. ~InBranch(q) /\ ~blocks[s].branch
      BY <3>1, <1>22 DEF InBranch, Ancestors
    <3>3. \E i \in 1..k : q = scopes[i]
      <4>1. k - 1 \in 1..k
        BY <1>3
      <4>. QED BY <4>1, <1>5
    <3>. QED BY <3>2, <3>3, <1>3, <1>7 DEF PlainScopes
  <2>. DEFINE P == PlainScopes \ {s}
  <2>2. /\ Totalled(blocks, P) /\ TotalOf(blocks, P) \in Nat
        /\ TotalOf(blocks, PlainScopes) = blocks[s].total + TotalOf(blocks, P)
    BY <1>11, <1>24, TotalWithout
  <2>3. SameTotals(blocks, blocks', P \ {q})
    BY <1>7, <1>11 DEF SameTotals
  <2>4. PICK a \in Nat, b \in Nat, c \in Nat, d \in Nat :
             /\ a = blocks[s].size /\ b = blocks[s].total
             /\ c = blocks[q].size /\ d = blocks[q].total
    BY <1>21
  <2>5. blocks'[q].size = c /\ blocks'[q].total = d + (a + b) /\ blocks'[q].total \in Nat
    <3>1. /\ blocks'[q].size = blocks[q].size
          /\ blocks'[q].total = blocks[q].total + (blocks[s].size + blocks[s].total)
      BY <1>7, <2>1, Zenon
    <3>2. blocks'[q].size = c /\ blocks'[q].total = d + (a + b)
      BY <2>4, <3>1, Zenon
    <3>. QED BY <3>2
  <2>. HIDE DEF P
  <2>6. /\ TotalOf(blocks', P) \in Nat
        /\ TotalOf(blocks', P) + blocks[q].total = TotalOf(blocks, P) + blocks'[q].total
    BY <2>1, <2>2, <2>3, <2>5, TotalChanged DEF P
  <2>7. TotalOf(blocks, PlainScopes) <= TotalOf(blocks', P)
    BY <2>2, <2>4, <2>5, <2>6
  <2>8. Weigh(prog', Plain("decl")') <= TotalOf(blocks', PlainScopes')
    <3>1. PICK x \in Nat, y \in Nat, z \in Nat :
               /\ x = Weigh(prog, Plain("decl")) /\ y = TotalOf(blocks, PlainScopes)
               /\ z = TotalOf(blocks', P)
      BY <1>20, <1>21, <2>2, <2>4, <2>6
    <3>2. x <= z
      BY <3>1, <1>11, <2>7
    <3>. QED BY <3>1, <3>2, <1>17, <1>19, <1>20 DEF P
  <2>9. CallsCounted(prog', Plain("call")', blocks', PlainScopes')
    <3>1. \A e \in P : blocks'[e].size \in Nat /\ blocks'[e].total \in Nat
      <4>1. ASSUME NEW e \in P, e # q PROVE blocks'[e] = blocks[e] /\ e \in 1..n
        BY <4>1, <1>7, <1>11 DEF P
      <4>. QED BY <4>1, <1>21, <2>4, <2>5
    <3>2. ASSUME NEW e \in PlainScopes
          PROVE  \E f \in P : blocks[e].size + blocks[e].total
                                <= blocks'[f].size + blocks'[f].total
      <4>1. CASE e = s \/ e = q
        <5>1. blocks[e].size + blocks[e].total <= blocks'[q].size + blocks'[q].total
          BY <4>1, <2>4, <2>5
        <5>. QED BY <5>1, <2>1 DEF P
      <4>2. CASE e # s /\ e # q
        <5>1. e \in P /\ blocks'[e] = blocks[e] /\ e \in 1..n
          BY <4>2, <1>7, <1>11 DEF P
        <5>. QED BY <5>1, <1>21
      <4>. QED BY <4>1, <4>2
    <3>3. \A e \in PlainScopes : blocks[e].size \in Nat /\ blocks[e].total \in Nat
      BY <1>11, <1>21
    <3>4. SameCalls(prog, prog', Plain("call"))
      BY <1>1, <1>19, CallTypes DEF SameCalls
    <3>5. Counting(blocks, PlainScopes) /\ Counting(blocks', P)
          /\ Covers(blocks', P, blocks, PlainScopes)
      BY <3>1, <3>2, <3>3 DEF Counting, Covers
    <3>6. CallsCounted(prog', Plain("call"), blocks', P)
      BY <1>11, <3>4, <3>5, CallsStillCounted
    <3>. QED BY <3>6, <1>17, <1>19 DEF P
  <2>10. Summed'
    BY <1>9, <1>14, <1>16, <2>8, <2>9, SummedNext DEF Recorded
  <2>. QED BY <1>1, <1>9, <1>10, <2>10, SemaSums
<1>. QED BY <1>23, <1>24

-----------------------------------------------------------------------------
(* The sums, while the generator uses them *)

\* The program stays, and each block but for its offset and sums.
Walked == /\ prog' = prog /\ SameBlocks /\ Len(blocks') = Len(blocks)
          /\ \A b \in 1..Len(blocks) : blocks'[b].locals = blocks[b].locals

LEMMA WalkKeeps ==
  ASSUME SumsIInv, IInv', Walked
  PROVE  /\ OpenedInOrder' /\ InOpened' /\ LocalsDeclared'
         /\ Plain("decl")' = Plain("decl") /\ Plain("call")' = Plain("call")
<1>1. IInv /\ OpenedInOrder /\ InOpened /\ LocalsDeclared
  BY DEF SumsIInv
<1>2. OpenedInOrder'
  BY <1>1 DEF OpenedInOrder, Statements, Walked
<1>3. Tree(blocks) /\ Grown(blocks', blocks)
  BY <1>1, <1>2, TreeGrows, Lengths DEF Walked
<1>4. \A b \in 1..Len(blocks) : AncestorsIn(blocks', b) = AncestorsIn(blocks, b)
  BY <1>3, AncestorsKept
<1>5. \A p \in 1..Len(prog) : prog[p].block \in 1..Len(blocks)
  BY <1>1, BlockOfStatement
<1>6. InOpened'
  <2>1. \A p \in 1..Len(prog), q \in 1..Len(prog) : q \in 1..p =>
          AncestorsIn(blocks', prog[q].block) = AncestorsIn(blocks, prog[q].block)
    BY <1>4, <1>5
  <2>2. \A p \in 1..Len(prog) : \A q \in 1..p : q \in 1..Len(prog)
    BY <1>1, Lengths
  <2>. QED BY <1>1, <2>1, <2>2 DEF InOpened, Ancestors, Walked
<1>7. LocalsDeclared'
  BY <1>1 DEF LocalsDeclared, Statements, Walked
<1>. DEFINE In(B, b) == \E a \in AncestorsIn(B, b) : B[a].branch
<1>8. \A b \in 1..Len(blocks) : In(blocks', b) <=> In(blocks, b)
  BY <1>3, BranchKept DEF InBranch, Ancestors
<1>9. ASSUME NEW op
      PROVE  /\ Plain(op) = {p \in Statements(op) : ~In(blocks, prog[p].block)}
             /\ Plain(op)' = {p \in Statements(op) : ~In(blocks', prog[p].block)}
             /\ Statements(op) \subseteq 1..Len(prog)
  BY DEF Plain, InBranch, Ancestors, Statements, Walked
<1>. HIDE DEF In
<1>10. ASSUME NEW op PROVE Plain(op)' = Plain(op)
  <2>1. \A p \in Statements(op) : In(blocks', prog[p].block) <=> In(blocks, prog[p].block)
    BY <1>5, <1>8, <1>9
  <2>. QED BY <1>9, <2>1
<1>. QED BY <1>2, <1>6, <1>7, <1>10

\* The frame is for what sema counted, and the program stays.
LEMMA GenSums ==
  ASSUME SumsIInv, IInv', Walked, pc # "sema", pc' \in {"gen", "done"}, frame' = frame, Offsets'
  PROVE  SumsIInv'
<1>1. /\ OpenedInOrder' /\ InOpened' /\ LocalsDeclared'
      /\ Plain("decl")' = Plain("decl") /\ Plain("call")' = Plain("call")
  BY WalkKeeps
<1>2. PICK D, C : /\ D = Plain("decl") /\ D = Plain("decl")'
                  /\ C = Plain("call") /\ C = Plain("call")'
  BY <1>1
<1>3. \E size \in 0..frame : /\ frame = StackSize(size)
                            /\ Weigh(prog, D) <= size
                            /\ \A p \in C : StackArguments(prog[p]) <= size
  BY <1>2 DEF SumsIInv, Summed, Bytes, Weigh
<1>4. Summed'
  BY <1>2, <1>3 DEF Summed, Bytes, Weigh, Walked
<1>5. frame' \in Nat /\ pc' \in {"sema", "gen", "done"}
  BY DEF SumsIInv, TypeOK
<1>6. (IInv /\ LocalsDeclared /\ frame \in Nat /\ pc \in {"sema", "gen", "done"} => TypeOK)'
  BY Typed, PTL
<1>. QED BY <1>1, <1>4, <1>5, <1>6 DEF SumsIInv

\* Every block but the function's body is opened by one statement.
LEMMA Opening ==
  ASSUME IInv, OpenedInOrder, NEW b \in 2..Len(blocks)
  PROVE  /\ OpenedAt(b) \in 1..Len(prog) /\ prog[OpenedAt(b)] = Open(b)
         /\ \A p \in 1..Len(prog) : prog[p] = Open(b) => p = OpenedAt(b)
<1>1. PICK p \in 1..Len(prog) : prog[p] = Open(b)
  BY DEF OpenedInOrder
<1>2. OpenedAt(b) \in 1..Len(prog) /\ prog[OpenedAt(b)] = Open(b)
  BY <1>1 DEF OpenedAt
<1>3. ASSUME NEW q \in 1..Len(prog), prog[q] = Open(b) PROVE q = OpenedAt(b)
  <2>1. PICK m \in 1..Len(prog) : m = OpenedAt(b) /\ prog[m] = Open(b)
    BY <1>2
  <2>2. /\ q \in Statements("open") /\ m \in Statements("open")
        /\ prog[q].block = b /\ prog[m].block = b
    BY <1>3, <2>1 DEF Statements, Open
  <2>3. ~(q < m) /\ ~(m < q)
    BY <2>2, Lengths DEF OpenedInOrder
  <2>. QED BY <2>1, <2>3, Lengths
<1>. QED BY <1>2, <1>3

\* The blocks met have been opened before.
LEMMA MetOpened ==
  ASSUME IInv, OpenedInOrder, NEW b \in Met
  PROVE  /\ b \in 1..Len(blocks)
         /\ b # 1 => b \in 2..Len(blocks) /\ OpenedAt(b) \in 1..at
<1>1. CASE b = 1
  BY <1>1, Lengths
<1>2. CASE b # 1
  <2>1. PICK p \in Done("open") : prog[p].block = b
    BY <1>2 DEF Met
  <2>2. p \in 1..at /\ p \in 1..Len(prog) /\ prog[p].op = "open"
    BY <2>1, Lengths DEF Done, IInv
  <2>3. b \in 1..Len(blocks) /\ prog[p] = Open(b)
    BY <2>1, <2>2, BlockOfStatement
  <2>4. b \in 2..Len(blocks)
    BY <1>2, <2>3, Lengths
  <2>. QED BY <2>2, <2>3, <2>4, Opening
<1>. QED BY <1>1, <1>2

\* What is declared before a place
Earlier(p) == {d \in Done("decl") : d < p}

Starts == /\ offset = IF pc = "gen" THEN Weigh(prog, Done("decl")) ELSE 0
          /\ blocks[1].offset = 0
          /\ \A b \in Met \ {1} : blocks[b].offset = Weigh(prog, Earlier(OpenedAt(b)))

LEMMA OffsetsAre == Offsets <=> Starts
BY DEF Starts, Offsets, Bytes, Weigh, Earlier

LEMMA OffsetsNext ==
  ASSUME offset' = IF pc' = "gen" THEN Weigh(prog', Done("decl")') ELSE 0,
         blocks'[1].offset = 0,
         \A b \in Met' \ {1} : blocks'[b].offset = Weigh(prog', Earlier(OpenedAt(b))')
  PROVE  Offsets'
<1>1. (Offsets <=> Starts)'
  BY OffsetsAre, PTL
<1>. QED BY <1>1 DEF Starts

LEMMA DoneSized ==
  ASSUME IInv, LocalsDeclared
  PROVE  Sized(prog, Done("decl")) /\ Done("decl") \subseteq Statements("decl")
<1>1. Done("decl") \subseteq 1..Len(prog) /\ Done("decl") \subseteq Statements("decl")
  BY Lengths DEF Done, Statements, IInv
<1>2. IsFiniteSet(1..Len(prog))
  BY Lengths, FS_Interval
<1>3. \A p \in Done("decl") : prog[p].size \in Nat
  BY <1>1 DEF LocalsDeclared
<1>. QED BY <1>1, <1>2, <1>3, FS_Subset DEF Sized

\* The statement done is one more of its kind, and nothing is earlier than it
\* that was not.
LEMMA DoneGrows ==
  ASSUME IInv, OpenedInOrder, NEW op, Gen(op)
  PROVE  \E n \in 1..Len(prog) :
           /\ n = at + 1 /\ at' = n /\ prog[n].op = op /\ prog' = prog
           /\ prog[n].block \in 1..Len(blocks)
           /\ \A o : Done(o)' = IF o = op THEN Done(o) \union {n} ELSE Done(o)
           /\ n \notin Done(op)
           /\ \A p \in 1..n : Earlier(p)' = Earlier(p)
           /\ Earlier(n) = Done("decl")
<1>1. PICK n \in 1..Len(prog) :
           /\ n = at + 1 /\ at' = n /\ prog' = prog /\ prog[n].op = op
           /\ prog[n].block \in 1..Len(blocks)
  BY Next1
<1>2. /\ \A p \in 1..n : p \in 1..at \/ p = n
      /\ \A p \in 1..at : p \in 1..n /\ p < n
      /\ n \in 1..n
  BY <1>1, Lengths DEF IInv
<1>3. \A o : Done(o)' = IF o = op THEN Done(o) \union {n} ELSE Done(o)
  <2>1. \A o : /\ Done(o)' = {p \in 1..n : prog[p].op = o}
               /\ Done(o) = {p \in 1..at : prog[p].op = o}
    BY <1>1 DEF Done
  <2>. QED BY <2>1, <1>1, <1>2
<1>4. \A o : Done(o) \subseteq 1..at
  BY DEF Done
<1>5. n \notin Done(op)
  BY <1>2, <1>4
<1>6. ASSUME NEW p \in 1..n PROVE Earlier(p)' = Earlier(p)
  <2>1. Done("decl")' = Done("decl") \/ Done("decl")' = Done("decl") \union {n}
    BY <1>3
  <2>2. ~(n < p)
    OBVIOUS
  <2>3. Earlier(p)' = {d \in Done("decl")' : d < p}
    BY DEF Earlier
  <2>. QED BY <2>1, <2>2, <2>3 DEF Earlier
<1>7. Earlier(n) = Done("decl")
  <2>1. \A d \in Done("decl") : d < n
    BY <1>2, <1>4
  <2>. QED BY <2>1 DEF Earlier
<1>. QED BY <1>1, <1>3, <1>5, <1>6, <1>7

\* No statement but an open meets a block.
LEMMA OffsetsStay ==
  ASSUME SumsIInv, NEW op \in {"close", "decl", "call"}, Gen(op), blocks' = blocks,
         offset' = Weigh(prog', Done("decl")')
  PROVE  Offsets'
<1>1. IInv /\ OpenedInOrder
  BY DEF SumsIInv
<1>2. PICK n \in 1..Len(prog) :
           /\ n = at + 1 /\ at' = n /\ prog' = prog
           /\ \A o : Done(o)' = IF o = op THEN Done(o) \union {n} ELSE Done(o)
           /\ \A p \in 1..n : Earlier(p)' = Earlier(p)
  BY <1>1, DoneGrows
<1>3. Met' = Met
  <2>1. Done("open")' = Done("open")
    BY <1>2
  <2>. QED BY <1>2, <2>1 DEF Met
<1>4. blocks[1].offset = 0
      /\ \A b \in Met \ {1} : blocks[b].offset = Weigh(prog, Earlier(OpenedAt(b)))
  BY OffsetsAre DEF SumsIInv, Starts
<1>5. ASSUME NEW b \in Met \ {1}
      PROVE  blocks'[b].offset = Weigh(prog', Earlier(OpenedAt(b))')
  <2>1. PICK m : m = OpenedAt(b) /\ m = OpenedAt(b)'
    BY <1>2 DEF OpenedAt
  <2>2. m \in 1..n
    <3>1. OpenedAt(b) \in 1..at
      <4>1. b \in Met /\ b # 1
        OBVIOUS
      <4>. QED BY <1>1, <4>1, MetOpened
    <3>2. at \in Nat
      BY <1>1, Lengths DEF IInv
    <3>. QED BY <1>2, <2>1, <3>1, <3>2
  <2>3. Earlier(m)' = Earlier(m)
    BY <1>2, <2>2
  <2>4. Earlier(OpenedAt(b))' = Earlier(OpenedAt(b))
    BY <2>1, <2>3 DEF Earlier
  <2>. QED BY <1>2, <1>4, <2>4
<1>6. pc' = "gen"
  BY DEF Gen
<1>. QED BY <1>3, <1>4, <1>5, <1>6, OffsetsNext

LEMMA GenFrame ==
  ASSUME NEW op, Gen(op)
  PROVE  pc = "gen" /\ pc' = "gen" /\ prog' = prog /\ frame' = frame
BY DEF Gen

LEMMA GenOpenSums ==
  ASSUME SumsIInv, GenOpen
  PROVE  SumsIInv'
<1>1. IInv /\ IInv' /\ OpenedInOrder
  BY GenOpenKeeps DEF SumsIInv
<1>2. PICK n \in 1..Len(prog) :
           /\ n = at + 1 /\ at' = n /\ prog[n].op = "open" /\ prog' = prog
           /\ prog[n].block \in 1..Len(blocks)
           /\ \A o : Done(o)' = IF o = "open" THEN Done(o) \union {n} ELSE Done(o)
           /\ \A p \in 1..n : Earlier(p)' = Earlier(p)
           /\ Earlier(n) = Done("decl")
  BY <1>1, DoneGrows DEF GenOpen
<1>3. PICK b \in 1..Len(blocks) : b = prog[n].block
  BY <1>2
<1>4. prog[n] = Open(b) /\ b # 1
  <2>1. n \in Statements("open")
    BY <1>2 DEF Statements
  <2>. QED BY <2>1, <1>1, <1>2, <1>3, BlockOfStatement DEF OpenedInOrder
<1>. DEFINE v == [blocks[b] EXCEPT !.offset = offset]
<1>5. blocks' = [blocks EXCEPT ![b] = v] /\ offset' = offset
  BY <1>2, <1>3 DEF GenOpen
<1>6. /\ v.parent = blocks[b].parent /\ v.branch = blocks[b].branch
      /\ v.locals = blocks[b].locals /\ v.offset = offset
  <2>1. blocks[b] \in Block
    BY <1>1, Elements
  <2>. QED BY <2>1 DEF Block
<1>. HIDE DEF v
<1>7. /\ Len(blocks') = Len(blocks) /\ blocks'[b] = v
      /\ \A c \in 1..Len(blocks) : c # b => blocks'[c] = blocks[c]
  BY <1>1, <1>5, BlockReplaced DEF IInv
<1>8. Walked
  BY <1>2, <1>6, <1>7 DEF Walked, SameBlocks
<1>9. /\ offset = Weigh(prog, Done("decl")) /\ blocks[1].offset = 0
      /\ \A c \in Met \ {1} : blocks[c].offset = Weigh(prog, Earlier(OpenedAt(c)))
  BY OffsetsAre, GenFrame DEF SumsIInv, GenOpen, Starts
<1>10. Done("decl")' = Done("decl") /\ Met' = Met \union {b}
  <2>1. Done("decl")' = Done("decl") /\ Done("open")' = Done("open") \union {n}
    BY <1>2
  <2>. QED BY <2>1, <1>2, <1>3 DEF Met
<1>11. ASSUME NEW c \in Met' \ {1}
       PROVE  blocks'[c].offset = Weigh(prog', Earlier(OpenedAt(c))')
  <2>1. c \in 2..Len(blocks) /\ (c # b => c \in Met)
    <3>1. CASE c = b
      BY <3>1, <1>4
    <3>2. CASE c # b
      <4>1. c \in Met /\ c # 1
        BY <3>2, <1>10
      <4>. QED BY <4>1, <1>1, MetOpened
    <3>. QED BY <3>1, <3>2
  <2>2. PICK m : m = OpenedAt(c) /\ m = OpenedAt(c)'
    BY <1>2 DEF OpenedAt
  <2>3. m \in 1..n /\ (c = b => m = n)
    <3>1. CASE c = b
      <4>1. n = OpenedAt(c)
        BY <3>1, <2>1, <1>1, <1>4, Opening
      <4>. QED BY <4>1, <2>2, <1>2, Lengths
    <3>2. CASE c # b
      <4>1. c \in Met /\ c # 1
        BY <3>2, <2>1
      <4>2. OpenedAt(c) \in 1..at
        BY <4>1, <1>1, MetOpened
      <4>3. at \in Nat
        BY <1>1, Lengths DEF IInv
      <4>. QED BY <3>2, <4>2, <4>3, <1>2, <2>2
    <3>. QED BY <3>1, <3>2
  <2>4. Earlier(m)' = Earlier(m)
    BY <1>2, <2>3
  <2>5. Earlier(OpenedAt(c))' = Earlier(m)
    BY <2>2, <2>4 DEF Earlier
  <2>6. CASE c = b
    BY <2>3, <2>5, <2>6, <1>2, <1>6, <1>7, <1>9
  <2>7. CASE c # b
    <3>1. blocks'[c] = blocks[c] /\ c \in Met \ {1}
      BY <2>1, <2>7, <1>7
    <3>. QED BY <3>1, <2>2, <2>5, <1>2, <1>9
  <2>. QED BY <2>6, <2>7
<1>12. blocks'[1].offset = 0
  <2>1. 1 \in 1..Len(blocks)
    BY <1>1, Lengths
  <2>. QED BY <2>1, <1>4, <1>7, <1>9
<1>13. pc = "gen" /\ pc' = "gen" /\ frame' = frame
  BY GenFrame DEF GenOpen
<1>14. Offsets'
  BY <1>2, <1>5, <1>9, <1>10, <1>11, <1>12, <1>13, OffsetsNext
<1>. QED BY <1>1, <1>8, <1>13, <1>14, GenSums

\* A step of the generator that meets no block
LEMMA GenStaysSums ==
  ASSUME SumsIInv, IInv', NEW op \in {"close", "decl", "call"}, Gen(op), blocks' = blocks,
         offset' = Weigh(prog', Done("decl")')
  PROVE  SumsIInv'
<1>1. pc = "gen" /\ pc' = "gen" /\ prog' = prog /\ frame' = frame
  BY GenFrame
<1>2. Walked
  BY <1>1 DEF Walked, SameBlocks
<1>3. Offsets'
  BY OffsetsStay
<1>. QED BY <1>1, <1>2, <1>3, GenSums

LEMMA GenOtherSums ==
  ASSUME SumsIInv, GenClose \/ GenCall
  PROVE  SumsIInv'
<1>1. IInv /\ IInv' /\ OpenedInOrder
  BY GenCloseKeeps, GenCallKeeps DEF SumsIInv
<1>2. PICK op \in {"close", "call"} : Gen(op) /\ blocks' = blocks /\ offset' = offset
  BY DEF GenClose, GenCall
<1>3. prog' = prog /\ Done("decl")' = Done("decl")
  BY <1>1, <1>2, DoneGrows
<1>4. offset = Weigh(prog, Done("decl"))
  BY <1>2, OffsetsAre, GenFrame DEF SumsIInv, Starts
<1>. QED BY <1>1, <1>2, <1>3, <1>4, GenStaysSums

LEMMA GenDeclSums ==
  ASSUME SumsIInv, GenDecl
  PROVE  SumsIInv'
<1>1. IInv /\ IInv' /\ OpenedInOrder /\ LocalsDeclared
  BY GenDeclKeeps DEF SumsIInv
<1>2. Gen("decl") /\ blocks' = blocks /\ offset' = offset + prog[at + 1].size
  BY DEF GenDecl
<1>3. PICK n \in 1..Len(prog) :
           /\ n = at + 1 /\ prog[n].op = "decl" /\ prog' = prog
           /\ \A o : Done(o)' = IF o = "decl" THEN Done(o) \union {n} ELSE Done(o)
           /\ n \notin Done("decl")
  BY <1>1, <1>2, DoneGrows
<1>4. offset = Weigh(prog, Done("decl"))
  BY <1>2, OffsetsAre, GenFrame DEF SumsIInv, Starts
<1>5. prog[n].size \in Nat
  <2>1. n \in Statements("decl")
    BY <1>3 DEF Statements
  <2>2. prog[n].size \in 1..8
    BY <1>1, <2>1 DEF LocalsDeclared
  <2>. QED BY <2>2
<1>6. Sized(prog, Done("decl"))
  BY <1>1, DoneSized
<1>7. Weigh(prog, Done("decl") \union {n}) = Weigh(prog, Done("decl")) + prog[n].size
  BY <1>3, <1>5, <1>6, WeighAdd
<1>8. offset' = Weigh(prog', Done("decl")')
  BY <1>2, <1>3, <1>4, <1>7
<1>. QED BY <1>1, <1>2, <1>8, GenStaysSums

\* At the end of the function tu->offset is reset.
LEMMA GenEndSums ==
  ASSUME SumsIInv, GenEnd
  PROVE  SumsIInv'
<1>1. IInv'
  BY GenEndKeeps DEF SumsIInv
<1>2. /\ pc = "gen" /\ pc' = "done" /\ offset' = 0 /\ at' = at
      /\ prog' = prog /\ blocks' = blocks /\ frame' = frame
  BY DEF GenEnd
<1>3. Walked
  BY <1>2 DEF Walked, SameBlocks
<1>4. Offsets'
  <2>1. /\ blocks[1].offset = 0
        /\ \A b \in Met \ {1} : blocks[b].offset = Weigh(prog, Earlier(OpenedAt(b)))
    BY OffsetsAre DEF SumsIInv, Starts
  <2>2. \A o : Done(o)' = Done(o)
    BY <1>2 DEF Done
  <2>3. Met' = Met
    BY <1>2, <2>2 DEF Met
  <2>4. ASSUME NEW b \in Met PROVE Earlier(OpenedAt(b))' = Earlier(OpenedAt(b))
    <3>1. OpenedAt(b)' = OpenedAt(b) /\ Done("decl")' = Done("decl")
      BY <1>2, <2>2 DEF OpenedAt
    <3>. QED BY <3>1 DEF Earlier
  <2>. QED BY <1>2, <2>1, <2>3, <2>4, OffsetsNext
<1>. QED BY <1>1, <1>2, <1>3, <1>4, GenSums

\* The frame is made for the sums of the function's body.
LEMMA FrameRoom ==
  ASSUME NEW size \in Nat
  PROVE  /\ StackSize(size) \in Nat /\ size <= StackSize(size) /\ StackSize(size) >= 32
         /\ size > 0 => StackSize(size) >= size + 41
BY DEF StackSize

LEMMA GenFunctionSums ==
  ASSUME SumsIInv, GenFunction
  PROVE  SumsIInv'
<1>1. IInv /\ IInv' /\ pc = "sema" /\ at = 0 /\ at' = 0
  BY GenFunctionKeeps DEF SumsIInv, GenFunction, IInv
<1>2. /\ blocks' = Closed(1) /\ frame' = StackSize(Closed(1)[1].size) /\ pc' = "gen"
      /\ prog' = prog /\ scopes' = scopes /\ offset' = offset /\ Len(scopes) = 1
  BY DEF GenFunction
<1>. DEFINE r == blocks[1]
            v == [r EXCEPT !.size = @ + r.total]
<1>3. 1 \in 1..Len(blocks) /\ r \in Block
  BY <1>1, Lengths, Elements
<1>4. blocks' = [blocks EXCEPT ![1] = v]
  BY <1>2 DEF Closed
<1>. HIDE DEF r
<1>5. /\ v.parent = r.parent /\ v.branch = r.branch /\ v.offset = r.offset
      /\ v.locals = r.locals /\ v.size = r.size + r.total
  BY <1>3 DEF Block
<1>. HIDE DEF v
<1>6. /\ Len(blocks') = Len(blocks) /\ blocks'[1] = v
      /\ \A c \in 1..Len(blocks) : c # 1 => blocks'[c] = blocks[c]
  BY <1>1, <1>3, <1>4, BlockReplaced DEF IInv
<1>7. Walked
  BY <1>2, <1>5, <1>6 DEF Walked, SameBlocks, r
<1>8. Offsets'
  <2>1. \A o : Done(o)' = {}
    <3>1. 1..0 = {}
      OBVIOUS
    <3>. QED BY <3>1, <1>1 DEF Done
  <2>2. Met' = {1}
    <3>1. Done("open")' = {}
      BY <2>1
    <3>. QED BY <3>1 DEF Met
  <2>3. offset' = 0 /\ blocks'[1].offset = 0
    BY <1>1, <1>2, <1>5, <1>6 DEF SumsIInv, Offsets, r
  <2>4. Weigh(prog', Done("decl")') = 0
    <3>1. Done("decl")' = {}
      BY <2>1
    <3>. QED BY <3>1, WeighEmpty
  <2>. QED BY <2>2, <2>3, <2>4, <1>2, OffsetsNext
<1>9. PICK a \in Nat, t \in Nat : a = r.size /\ t = r.total
  BY <1>3 DEF Block
<1>10. frame' = StackSize(a + t)
  BY <1>2, <1>5, <1>6, <1>9
<1>11. frame' \in Nat /\ a + t \in 0..frame'
  BY <1>9, <1>10, FrameRoom
<1>12. /\ Totalled(blocks, PlainScopes) /\ Sized(prog, Plain("decl"))
       /\ Weigh(prog, Plain("decl")) <= TotalOf(blocks, PlainScopes)
       /\ CallsCounted(prog, Plain("call"), blocks, PlainScopes)
  BY <1>1, SemaBasics
<1>13. PlainScopes \subseteq {1}
  BY <1>1, <1>2 DEF PlainScopes, IInv, Around
<1>14. TotalOf(blocks, PlainScopes) \in Nat /\ TotalOf(blocks, PlainScopes) <= t
  <2>1. CASE PlainScopes = {}
    <3>1. TotalOf(blocks, {}) = 0
      BY FS_EmptySet, SumFirst DEF TotalOf, Sum
    <3>. QED BY <2>1, <3>1, <1>9
  <2>2. CASE PlainScopes = {1}
    <3>1. TotalOf(blocks, PlainScopes) = blocks[1].total + TotalOf(blocks, PlainScopes \ {1})
      BY <1>12, <2>2, TotalWithout
    <3>2. TotalOf(blocks, {}) = 0
      BY FS_EmptySet, SumFirst DEF TotalOf, Sum
    <3>3. PlainScopes \ {1} = {}
      BY <2>2
    <3>4. TotalOf(blocks, PlainScopes) = t + 0
      BY <3>1, <3>2, <3>3, <1>9 DEF r
    <3>. QED BY <3>4
  <2>. QED BY <2>1, <2>2, <1>13
<1>15. Weigh(prog, Plain("decl")) \in Nat
  BY <1>12, WeighSubset
<1>16. Weigh(prog, Plain("decl")) <= a + t
  BY <1>9, <1>12, <1>14, <1>15
<1>17. ASSUME NEW p \in Plain("call") PROVE StackArguments(prog[p]) <= a + t
  <2>1. PICK b \in PlainScopes : StackArguments(prog[p]) <= blocks[b].size + blocks[b].total
    BY <1>12 DEF CallsCounted
  <2>2. b = 1
    BY <1>13
  <2>. QED BY <2>1, <2>2, <1>9 DEF r
<1>18. /\ OpenedInOrder' /\ InOpened' /\ LocalsDeclared'
       /\ Plain("decl")' = Plain("decl") /\ Plain("call")' = Plain("call")
  BY <1>1, <1>7, WalkKeeps
<1>19. Summed'
  <2>1. PICK D, C : /\ D = Plain("decl") /\ D = Plain("decl")'
                    /\ C = Plain("call") /\ C = Plain("call")'
    BY <1>18
  <2>2. \E size \in 0..frame' : /\ frame' = StackSize(size)
                               /\ Weigh(prog', D) <= size
                               /\ \A p \in C : StackArguments(prog'[p]) <= size
    BY <1>2, <1>10, <1>11, <1>16, <1>17, <2>1
  <2>. QED BY <1>2, <2>1, <2>2 DEF Summed, Bytes, Weigh
<1>20. frame' \in Nat /\ pc' \in {"sema", "gen", "done"}
  BY <1>2, <1>11
<1>21. (IInv /\ LocalsDeclared /\ frame \in Nat /\ pc \in {"sema", "gen", "done"} => TypeOK)'
  BY Typed, PTL
<1>. QED BY <1>1, <1>8, <1>18, <1>19, <1>20, <1>21 DEF SumsIInv

-----------------------------------------------------------------------------

LEMMA InitSums == Init => SumsIInv
<1>. SUFFICES ASSUME Init PROVE SumsIInv
  OBVIOUS
<1>1. IInv
  BY InitIInv
<1>2. PICK r : r = NewBlock(0, FALSE)
  OBVIOUS
<1>3. r.total = 0 /\ r.size = 0 /\ r.offset = 0 /\ \A m \in Names : r.locals[m] = 0
  BY <1>2 DEF NewBlock
<1>4. /\ blocks = <<r>> /\ prog = <<>> /\ scopes = <<1>>
      /\ at = 0 /\ offset = 0 /\ frame = 0 /\ pc = "sema"
  BY <1>2 DEF Init
<1>5. Len(blocks) = 1 /\ blocks[1] = r /\ Len(prog) = 0 /\ 1..0 = {}
  BY <1>4
<1>6. Len(scopes) = 1 /\ scopes[1] = 1
  BY <1>4
<1>7. (\A op : Statements(op) = {} /\ Done(op) = {} /\ Plain(op) = {}) /\ Met = {1}
  <2>1. \A op : Statements(op) = {} /\ Done(op) = {} /\ Plain(op) = {}
    BY <1>4, <1>5 DEF Statements, Done, Plain
  <2>2. Done("open") = {}
    BY <2>1
  <2>. QED BY <2>1, <2>2 DEF Met
<1>8. OpenedInOrder
  BY <1>5, <1>7 DEF OpenedInOrder
<1>9. InOpened
  BY <1>5 DEF InOpened
<1>10. LocalsDeclared
  BY <1>3, <1>5, <1>7 DEF LocalsDeclared
<1>11. Tree(blocks)
  BY <1>1, <1>8, TreeOfBlocks
<1>12. Offsets
  BY <1>3, <1>4, <1>5, <1>7 DEF Offsets
<1>13. Summed
  <2>1. Rising(scopes)
    BY <1>6 DEF Rising
  <2>2. Holds(scopes, blocks)
    BY <1>5, <1>6, <1>11, AncestorsClosed DEF Holds
  <2>3. Weigh(prog, Plain("decl")) <= TotalOf(blocks, PlainScopes)
    <3>1. Plain("decl") = {}
      BY <1>7
    <3>2. Weigh(prog, Plain("decl")) = 0
      BY <3>1, WeighEmpty
    <3>3. PlainScopes \subseteq {1}
      BY <1>6 DEF PlainScopes
    <3>4. TotalOf(blocks, PlainScopes) \in Nat
      <4>1. IsFiniteSet(PlainScopes)
        BY <3>3, FS_Singleton, FS_Subset
      <4>2. \A b \in PlainScopes : [x \in PlainScopes |-> blocks[x].total][b] \in Nat
        BY <3>3, <1>3, <1>5
      <4>. QED BY <4>1, <4>2, SumType DEF TotalOf, Sum
    <3>. QED BY <3>2, <3>4
  <2>4. CallsCounted(prog, Plain("call"), blocks, PlainScopes)
    BY <1>7 DEF CallsCounted
  <2>. QED BY <1>4, <2>1, <2>2, <2>3, <2>4, SummedIs
<1>14. TypeOK
  BY <1>1, <1>4, <1>10, Typed
<1>. QED BY <1>1, <1>8, <1>9, <1>10, <1>12, <1>13, <1>14 DEF SumsIInv

\* For every program, what sema has added up covers what is declared and
\* passed outside branches, and a block's locals start after all that was
\* declared before it (sema.c:480-492, 586-603, 630-640, x86_asm.c:515-530).
THEOREM SumsInvariance == Spec => []SumsIInv
<1>1. Init => SumsIInv
  BY InitSums
<1>2. SumsIInv /\ [Next]_vars => SumsIInv'
  <2>. SUFFICES ASSUME SumsIInv, [Next]_vars PROVE SumsIInv'
    OBVIOUS
  <2>1. CASE SemaStep
    BY <2>1, SemaOpenSums, SemaCloseSums, SemaDeclSums, SemaCallSums DEF SemaStep
  <2>2. CASE GenStep
    BY <2>2, GenFunctionSums, GenOpenSums, GenOtherSums, GenDeclSums, GenEndSums DEF GenStep
  <2>3. CASE UNCHANGED vars
    <3>1. /\ prog' = prog /\ blocks' = blocks /\ scopes' = scopes /\ at' = at
          /\ offset' = offset /\ frame' = frame /\ pc' = pc
      BY <2>3 DEF vars
    <3>2. IInv'
      BY <3>1 DEF SumsIInv, IInv, Nested, Around, Reached, After, Scope
    <3>3. TypeOK'
      BY <3>1 DEF SumsIInv, TypeOK
    <3>4. OpenedInOrder' /\ LocalsDeclared'
      BY <3>1 DEF SumsIInv, OpenedInOrder, LocalsDeclared, Statements
    <3>5. InOpened'
      BY <3>1 DEF SumsIInv, InOpened, Ancestors
    <3>6. Offsets'
      <4>1. Met' = Met /\ \A op : Done(op)' = Done(op)
        BY <3>1, Zenon DEF Met, Done
      <4>2. \A b : OpenedAt(b)' = OpenedAt(b)
        BY <3>1, Zenon DEF OpenedAt
      <4>3. \A Q : Bytes(Q)' = Bytes(Q)
        BY <3>1, Zenon DEF Bytes
      <4>4. Offsets
        BY DEF SumsIInv
      <4>. QED BY <3>1, <4>1, <4>2, <4>3, <4>4, Zenon DEF Offsets
    <3>7. Summed'
      BY <3>1 DEF SumsIInv, Summed, Bytes, Plain, Statements, Totals, PlainScopes, InBranch, Ancestors
    <3>. QED BY <3>2, <3>3, <3>4, <3>5, <3>6, <3>7 DEF SumsIInv
  <2>. QED BY <2>1, <2>2, <2>3 DEF Next
<1>. QED BY <1>1, <1>2, PTL DEF Spec

\* The generator finds the scopes that sema was in, and gives each block the
\* bytes after those of all locals declared before it
\* (x86_asm.c:512-541).
THEOREM BothPassesAgree == Spec => []ScopesAgree
<1>1. SumsIInv /\ InScope => ScopesAgree
  BY DEF SumsIInv, Offsets, ScopesAgree
<1>. QED BY <1>1, SumsInvariance, PassesInSameScope, PTL

-----------------------------------------------------------------------------
(* The addresses *)

\* The declarations done in a block, and those before the block
Within(b) == {p \in Statements("decl") : prog[p].block = b}
Start(b) == IF b = 1 THEN {} ELSE Earlier(OpenedAt(b))

\* A local's address is after the locals in front of it in its block and all
\* those in front of the block.
LEMMA AddressIs ==
  ASSUME SumsIInv, NEW b \in Met, NEW n \in Names
  PROVE  /\ Before(b, n) \subseteq Within(b) /\ Start(b) \subseteq Statements("decl")
         /\ Start(b) \intersect Within(b) = {}
         /\ Sized(prog, Start(b) \union Before(b, n))
         /\ Weigh(prog, Start(b) \union Before(b, n)) \in Nat
         /\ Address(b, n) = Weigh(prog, Start(b) \union Before(b, n)) + 32
         /\ blocks[b].offset = Weigh(prog, Start(b))
<1>1. IInv /\ OpenedInOrder /\ InOpened /\ LocalsDeclared /\ Starts
  BY OffsetsAre DEF SumsIInv
<1>2. b \in 1..Len(blocks) /\ (b # 1 => b \in 2..Len(blocks))
  BY <1>1, MetOpened
<1>3. Before(b, n) \subseteq Within(b)
  BY <1>1, <1>2 DEF Before, LocalsDeclared, Within
<1>4. Start(b) \subseteq Statements("decl")
  BY <1>1, DoneSized DEF Start, Earlier
<1>5. Start(b) \intersect Within(b) = {}
  <2>1. ASSUME NEW p \in Start(b), prog[p].block = b PROVE FALSE
    <3>1. b # 1 /\ p < OpenedAt(b) /\ p \in 1..Len(prog)
      BY <2>1, <1>4 DEF Start, Earlier, Statements
    <3>2. PICK q \in 1..p : prog[q] = Open(b)
      BY <1>1, <2>1, <3>1 DEF InOpened
    <3>3. q \in 1..Len(prog)
      BY <1>1, <3>1, Lengths
    <3>4. q = OpenedAt(b)
      BY <1>1, <1>2, <3>1, <3>2, <3>3, Opening
    <3>. QED BY <3>1, <3>2, <3>4
  <2>. QED BY <2>1 DEF Within
<1>6. Sized(prog, Statements("decl"))
  <2>1. IsFiniteSet(1..Len(prog))
    BY <1>1, Lengths, FS_Interval
  <2>2. Statements("decl") \subseteq 1..Len(prog)
    BY DEF Statements
  <2>3. \A p \in Statements("decl") : prog[p].size \in Nat
    BY <1>1 DEF LocalsDeclared
  <2>. QED BY <2>1, <2>2, <2>3, FS_Subset DEF Sized
<1>7. Sized(prog, Start(b)) /\ Sized(prog, Before(b, n))
  <2>1. Before(b, n) \subseteq Statements("decl")
    BY <1>3 DEF Within
  <2>. QED BY <1>4, <1>6, <2>1, WeighSubset
<1>8. Start(b) \intersect Before(b, n) = {}
  BY <1>3, <1>5
<1>9. /\ Sized(prog, Start(b) \union Before(b, n))
      /\ Weigh(prog, Start(b)) \in Nat /\ Weigh(prog, Before(b, n)) \in Nat
      /\ Weigh(prog, Start(b) \union Before(b, n)) = Weigh(prog, Start(b)) + Weigh(prog, Before(b, n))
  BY <1>7, <1>8, WeighUnion
<1>10. blocks[b].offset = Weigh(prog, Start(b))
  <2>1. CASE b = 1
    BY <2>1, <1>1, WeighEmpty DEF Starts, Start
  <2>2. CASE b # 1
    BY <2>2, <1>1 DEF Starts, Start
  <2>. QED BY <2>1, <2>2
<1>11. Address(b, n) = Weigh(prog, Before(b, n)) + blocks[b].offset + 32
  BY DEF Address, Bytes, Weigh
<1>12. PICK x \in Nat, y \in Nat : x = Weigh(prog, Start(b)) /\ y = Weigh(prog, Before(b, n))
  BY <1>9
<1>13. /\ Address(b, n) = y + x + 32
       /\ Weigh(prog, Start(b) \union Before(b, n)) = x + y
  BY <1>9, <1>10, <1>11, <1>12
<1>. QED BY <1>3, <1>4, <1>5, <1>9, <1>10, <1>13

\* Bytes that other bytes in front of an address leave room for
LEMMA AddressRoom ==
  ASSUME SumsIInv, NEW b \in Met, NEW n \in Names,
         NEW p \in Within(b), p \notin Before(b, n),
         NEW S, Sized(prog, S), Start(b) \union Before(b, n) \union {p} \subseteq S
  PROVE  /\ Address(b, n) \in Nat /\ prog[p].size \in 1..8 /\ Weigh(prog, S) \in Nat
         /\ Address(b, n) + prog[p].size <= Weigh(prog, S) + 32
<1>. DEFINE A == Start(b) \union Before(b, n)
<1>1. /\ Start(b) \intersect Within(b) = {}
      /\ Sized(prog, A) /\ Weigh(prog, A) \in Nat
      /\ Address(b, n) = Weigh(prog, A) + 32
  BY AddressIs
<1>2. p \notin A
  BY <1>1
<1>3. prog[p].size \in 1..8
  BY DEF SumsIInv, LocalsDeclared, Within
<1>4. A \union {p} \subseteq S
  OBVIOUS
<1>. HIDE DEF A
<1>5. Weigh(prog, A \union {p}) = Weigh(prog, A) + prog[p].size
  BY <1>1, <1>2, <1>3, WeighAdd
<1>6. Weigh(prog, A \union {p}) <= Weigh(prog, S) /\ Weigh(prog, S) \in Nat
  BY <1>4, WeighSubset
<1>7. PICK x \in Nat, y \in Nat, z \in Nat :
           x = Weigh(prog, A) /\ y = prog[p].size /\ z = Weigh(prog, S)
  BY <1>1, <1>3, <1>6
<1>8. x + y <= z
  BY <1>5, <1>6, <1>7
<1>. QED BY <1>1, <1>3, <1>6, <1>7, <1>8

\* A declaration done is in a block met.
LEMMA DeclaredInMet ==
  ASSUME SumsIInv, NEW p \in Done("decl")
  PROVE  prog[p].block \in Met /\ prog[p].name \in Names /\ p \in Within(prog[p].block)
<1>1. IInv /\ InOpened /\ p \in Statements("decl")
  BY DoneSized DEF SumsIInv
<1>2. p \in 1..Len(prog) /\ p \in 1..at /\ prog[p].op = "decl" /\ prog[p] \in Statement
  BY <1>1, Elements DEF Done, Statements
<1>3. prog[p].name \in Names
  BY <1>2 DEF Statement
<1>4. prog[p].block \in Met
  <2>1. CASE prog[p].block = 1
    BY <2>1 DEF Met
  <2>2. CASE prog[p].block # 1
    <3>1. PICK q \in 1..p : prog[q] = Open(prog[p].block)
      BY <1>1, <1>2, <2>2 DEF InOpened
    <3>2. q \in 1..at
      BY <1>1, <1>2, Lengths DEF IInv
    <3>3. q \in Done("open") /\ prog[q].block = prog[p].block
      BY <3>1, <3>2 DEF Done, Open
    <3>. QED BY <3>3 DEF Met
  <2>. QED BY <2>1, <2>2
<1>. QED BY <1>1, <1>3, <1>4 DEF Within

\* A local is not in front of itself.
LEMMA NotBefore ==
  ASSUME SumsIInv, NEW b \in 1..Len(blocks), NEW n \in Names, NEW p, prog[p].name = n
  PROVE  p \notin Before(b, n)
<1>1. ASSUME p \in Before(b, n) PROVE FALSE
  <2>1. PICK m \in Names : /\ blocks[b].locals[m] # 0 /\ Slot[m] < Slot[n]
                           /\ p = blocks[b].locals[m]
    BY <1>1 DEF Before
  <2>2. prog[blocks[b].locals[m]].name = m
    BY <2>1 DEF SumsIInv, LocalsDeclared
  <2>3. m = n
    BY <2>1, <2>2
  <2>. QED BY <2>1, <2>3, SlotAssumption
<1>. QED BY <1>1

\* The frame that sema's sums asked for holds what the generated code stores:
\* outside branches every local, and the arguments on the stack
\* (sema.c:480-492, 586-603, 630-640, x86_asm.c:387-390, 555-558).
THEOREM FrameHoldsStores == Spec => []StoresInFrame
<1>1. ASSUME SumsIInv PROVE DeclarationsInFrame
  <2>. SUFFICES ASSUME \A p \in 1..Len(prog) : prog[p].op = "decl" => ~InBranch(prog[p].block),
                       NEW p \in Done("decl")
                PROVE  Written(p) <= frame
    BY DEF DeclarationsInFrame
  <2>1. IInv /\ OpenedInOrder /\ LocalsDeclared
    BY <1>1 DEF SumsIInv
  <2>2. pc # "sema" /\ p \in Statements("decl")
    <3>1. 1..0 = {}
      OBVIOUS
    <3>. QED BY <2>1, <3>1, DoneSized DEF IInv, Done
  <2>3. PICK b \in Met, n \in Names : b = prog[p].block /\ n = prog[p].name /\ p \in Within(b)
    BY <1>1, DeclaredInMet
  <2>4. Plain("decl") = Statements("decl")
    BY DEF Plain, Statements
  <2>5. PICK size \in Nat : /\ frame = StackSize(size)
                            /\ Weigh(prog, Statements("decl")) <= size
    <3>1. frame \in Nat
      BY <1>1 DEF SumsIInv, TypeOK
    <3>2. \E size \in 0..frame : frame = StackSize(size) /\ Bytes(Plain("decl")) <= size
      BY <1>1, <2>2 DEF SumsIInv, Summed
    <3>. QED BY <3>1, <3>2, <2>4 DEF Bytes, Weigh
  <2>6. Sized(prog, Statements("decl"))
    <3>1. IsFiniteSet(1..Len(prog))
      BY <2>1, Lengths, FS_Interval
    <3>2. Statements("decl") \subseteq 1..Len(prog)
      BY DEF Statements
    <3>3. \A d \in Statements("decl") : prog[d].size \in Nat
      BY <2>1 DEF LocalsDeclared
    <3>. QED BY <3>1, <3>2, <3>3, FS_Subset DEF Sized
  <2>7. Start(b) \union Before(b, n) \union {p} \subseteq Statements("decl")
    <3>1. Start(b) \subseteq Statements("decl") /\ Before(b, n) \subseteq Within(b)
      BY <1>1, AddressIs
    <3>. QED BY <3>1, <2>2 DEF Within
  <2>8. p \notin Before(b, n)
    <3>1. b \in 1..Len(blocks)
      BY <2>1, MetOpened
    <3>. QED BY <1>1, <2>3, <3>1, NotBefore
  <2>9. /\ Address(b, n) \in Nat /\ prog[p].size \in 1..8
        /\ Weigh(prog, Statements("decl")) \in Nat
        /\ Address(b, n) + prog[p].size <= Weigh(prog, Statements("decl")) + 32
    BY <1>1, <2>3, <2>6, <2>7, <2>8, AddressRoom
  <2>10. PICK a \in Nat, s \in 1..8, w \in Nat :
              a = Address(b, n) /\ s = prog[p].size /\ w = Weigh(prog, Statements("decl"))
    BY <2>9
  <2>11. a + s <= size + 32 /\ size > 0
    <3>1. a + s <= w + 32 /\ w <= size
      BY <2>5, <2>9, <2>10
    <3>2. a >= 32
      <4>1. /\ Weigh(prog, Start(b) \union Before(b, n)) \in Nat
            /\ Address(b, n) = Weigh(prog, Start(b) \union Before(b, n)) + 32
        BY <1>1, AddressIs
      <4>. QED BY <4>1, <2>10
    <3>. QED BY <3>1, <3>2
  <2>12. StackSize(size) >= size + 41 /\ StackSize(size) \in Nat
    BY <2>11, FrameRoom
  <2>13. Written(p) = a + (IF prog[p].init = "none" THEN 8 ELSE s)
    BY <2>3, <2>10 DEF Written
  <2>14. a + 8 <= frame /\ a + s <= frame
    BY <2>5, <2>11, <2>12
  <2>. QED BY <2>13, <2>14
<1>2. ASSUME SumsIInv PROVE ArgumentsInFrame
  <2>. SUFFICES ASSUME NEW p \in Done("call"), ~InBranch(prog[p].block),
                       prog[p].size = 8, prog[p].arity # 5
                PROVE  8 * prog[p].arity <= frame
    BY DEF ArgumentsInFrame
  <2>1. IInv
    BY <1>2 DEF SumsIInv
  <2>2. pc # "sema" /\ p \in 1..Len(prog) /\ prog[p].op = "call"
    <3>1. 1..0 = {}
      OBVIOUS
    <3>. QED BY <2>1, <3>1, Lengths DEF IInv, Done
  <2>3. p \in Plain("call")
    BY <2>2 DEF Plain, Statements
  <2>4. PICK size \in Nat : frame = StackSize(size) /\ StackArguments(prog[p]) <= size
    <3>1. frame \in Nat
      BY <1>2 DEF SumsIInv, TypeOK
    <3>2. \E size \in 0..frame : /\ frame = StackSize(size)
                                /\ \A c \in Plain("call") : StackArguments(prog[c]) <= size
      BY <1>2, <2>2 DEF SumsIInv, Summed
    <3>. QED BY <2>3, <3>1, <3>2
  <2>5. PICK x \in Nat : x = prog[p].arity
    <3>1. prog[p] \in Statement
      BY <2>1, <2>2, Elements
    <3>. QED BY <2>2, <3>1 DEF Statement
  <2>6. /\ StackSize(size) \in Nat /\ StackSize(size) >= 32
        /\ size > 0 => StackSize(size) >= size + 41
    BY FrameRoom
  <2>7. CASE x <= 4
    BY <2>4, <2>5, <2>6, <2>7
  <2>8. CASE x > 5
    <3>1. 8 * (x - 5) <= size
      BY <2>4, <2>5, <2>8 DEF StackArguments
    <3>. QED BY <2>4, <2>5, <2>6, <2>8, <3>1
  <2>. QED BY <2>5, <2>7, <2>8
<1>3. SumsIInv => StoresInFrame
  BY <1>1, <1>2 DEF StoresInFrame
<1>. QED BY <1>3, SumsInvariance, PTL

\* A local and its place
LEMMA LocalPlace ==
  ASSUME SumsIInv, NEW b \in Met, NEW n \in Names, blocks[b].locals[n] # 0
  PROVE  /\ b \in 1..Len(blocks)
         /\ blocks[b].locals[n] \in Within(b) /\ blocks[b].locals[n] \notin Before(b, n)
<1>1. b \in 1..Len(blocks)
  BY MetOpened DEF SumsIInv
<1>2. PICK p : p = blocks[b].locals[n]
  OBVIOUS
<1>3. p \in Statements("decl") /\ prog[p].block = b /\ prog[p].name = n
  BY <1>1, <1>2 DEF SumsIInv, LocalsDeclared
<1>4. p \notin Before(b, n)
  BY <1>1, <1>3, NotBefore
<1>. QED BY <1>1, <1>2, <1>3, <1>4 DEF Within

\* One local is all in front of another.
InFront(l, m) == Address(l[1], l[2]) + LocalSize(l[1], l[2]) <= Address(m[1], m[2])

LEMMA InFrontOf ==
  ASSUME SumsIInv, NEW b \in Met, NEW n \in Names, blocks[b].locals[n] # 0,
         NEW c \in Met, NEW k \in Names,
         NEW S \in SUBSET (Start(c) \union Before(c, k)),
         Start(b) \union Before(b, n) \union {blocks[b].locals[n]} \subseteq S
  PROVE  InFront(<<b, n>>, <<c, k>>)
<1>. DEFINE T == Start(c) \union Before(c, k)
<1>1. Sized(prog, T) /\ Weigh(prog, T) \in Nat /\ Address(c, k) = Weigh(prog, T) + 32
  BY AddressIs
<1>2. PICK p : p = blocks[b].locals[n] /\ p \in Within(b) /\ p \notin Before(b, n)
  BY LocalPlace
<1>3. Start(b) \union Before(b, n) \union {p} \subseteq T
  BY <1>2
<1>. HIDE DEF T
<1>4. /\ Address(b, n) \in Nat /\ prog[p].size \in 1..8
      /\ Address(b, n) + prog[p].size <= Weigh(prog, T) + 32
  BY <1>1, <1>2, <1>3, AddressRoom
<1>5. LocalSize(b, n) = prog[p].size
  BY <1>2 DEF LocalSize
<1>. QED BY <1>1, <1>4, <1>5 DEF InFront

\* Locals of one block are in the order of their buckets.
LEMMA SameBlockApart ==
  ASSUME SumsIInv, NEW b \in Met, NEW n \in Names, NEW k \in Names, Slot[n] < Slot[k],
         blocks[b].locals[n] # 0
  PROVE  InFront(<<b, n>>, <<b, k>>)
<1>1. Before(b, n) \union {blocks[b].locals[n]} \subseteq Before(b, k)
  <2>1. \A m \in Names : Slot[m] \in Nat
    BY SlotAssumption
  <2>2. \A m \in Names : Slot[m] < Slot[n] => Slot[m] < Slot[k]
    BY <2>1
  <2>. QED BY <2>2 DEF Before
<1>. DEFINE S == Start(b) \union Before(b, k)
<1>2. S \in SUBSET (Start(b) \union Before(b, k))
      /\ Start(b) \union Before(b, n) \union {blocks[b].locals[n]} \subseteq S
  BY <1>1
<1>. HIDE DEF S
<1>. QED BY <1>2, InFrontOf

\* A block is all in front of one opened after it, if it declares nothing
\* more.
LEMMA EarlierBlockApart ==
  ASSUME SumsIInv, NEW b \in Met, NEW c \in Met, b < c,
         \A p \in Within(b) : ~(p > OpenedAt(c)),
         NEW n \in Names, NEW k \in Names, blocks[b].locals[n] # 0
  PROVE  InFront(<<b, n>>, <<c, k>>)
<1>1. IInv /\ OpenedInOrder
  BY DEF SumsIInv
<1>2. b \in 1..Len(blocks) /\ c \in 1..Len(blocks) /\ c # 1 /\ Len(blocks) \in Nat
  BY <1>1, MetOpened, Lengths
<1>3. PICK m \in 1..at : m = OpenedAt(c) /\ prog[m] = Open(c) /\ m \in 1..Len(prog)
  <2>1. OpenedAt(c) \in 1..at /\ c \in 2..Len(blocks)
    BY <1>1, <1>2, MetOpened
  <2>. QED BY <1>1, <2>1, Opening
<1>4. Start(c) = Earlier(m)
  BY <1>2, <1>3 DEF Start
<1>5. Within(b) \subseteq Earlier(m)
  <2>1. ASSUME NEW p \in Within(b) PROVE p \in Earlier(m)
    <3>1. p \in 1..Len(prog) /\ prog[p].op = "decl"
      BY DEF Within, Statements
    <3>2. p # m
      BY <1>3, <3>1 DEF Open
    <3>3. p < m
      BY <1>1, <1>3, <3>1, <3>2, Lengths
    <3>4. p \in 1..at
      BY <1>1, <1>3, <3>1, <3>3, Lengths DEF IInv
    <3>. QED BY <3>1, <3>3, <3>4 DEF Earlier, Done
  <2>. QED BY <2>1
<1>6. Start(b) \subseteq Earlier(m)
  <2>1. CASE b = 1
    BY <2>1 DEF Start
  <2>2. CASE b # 1
    <3>1. PICK q \in 1..Len(prog) : q = OpenedAt(b) /\ prog[q] = Open(b)
      <4>1. b \in 2..Len(blocks)
        BY <1>1, <2>2, MetOpened
      <4>. QED BY <1>1, <4>1, Opening
    <3>2. /\ q \in Statements("open") /\ m \in Statements("open")
          /\ prog[q].block = b /\ prog[m].block = c
      BY <1>3, <3>1 DEF Statements, Open
    <3>3. ~(m < q)
      BY <1>1, <1>2, <3>2 DEF OpenedInOrder
    <3>4. q <= m
      BY <1>1, <1>3, <3>1, <3>3, Lengths
    <3>5. \A d \in Done("decl") : d < q => d < m
      <4>1. \A d \in Done("decl") : d \in Int
        BY DEF Done
      <4>. QED BY <1>3, <3>1, <3>4, <4>1
    <3>. QED BY <2>2, <3>1, <3>5 DEF Start, Earlier
  <2>. QED BY <2>1, <2>2
<1>7. Before(b, n) \union {blocks[b].locals[n]} \subseteq Within(b)
  BY AddressIs, LocalPlace
<1>. DEFINE S == Start(c)
<1>8. S \in SUBSET (Start(c) \union Before(c, k))
      /\ Start(b) \union Before(b, n) \union {blocks[b].locals[n]} \subseteq S
  BY <1>4, <1>5, <1>6, <1>7
<1>. HIDE DEF S
<1>. QED BY <1>8, InFrontOf

LEMMA AddressTypes ==
  ASSUME SumsIInv, NEW l \in Locals
  PROVE  /\ l[1] \in Met /\ l[2] \in Names /\ blocks[l[1]].locals[l[2]] # 0
         /\ l = <<l[1], l[2]>>
         /\ Address(l[1], l[2]) \in Nat /\ LocalSize(l[1], l[2]) \in 1..8
<1>1. /\ l[1] \in Met /\ l[2] \in Names /\ blocks[l[1]].locals[l[2]] # 0
      /\ l = <<l[1], l[2]>>
  BY DEF Locals
<1>2. Address(l[1], l[2]) \in Nat
  <2>1. \A b \in Met, n \in Names : Address(b, n) \in Nat
    <3>1. ASSUME NEW b \in Met, NEW n \in Names PROVE Address(b, n) \in Nat
      <4>1. /\ Weigh(prog, Start(b) \union Before(b, n)) \in Nat
            /\ Address(b, n) = Weigh(prog, Start(b) \union Before(b, n)) + 32
        BY AddressIs
      <4>. QED BY <4>1
    <3>. QED BY <3>1
  <2>. QED BY <1>1, <2>1
<1>3. PICK p : p = blocks[l[1]].locals[l[2]] /\ p \in Within(l[1])
  BY <1>1, LocalPlace
<1>4. LocalSize(l[1], l[2]) \in 1..8
  BY <1>3 DEF LocalSize, Within, SumsIInv, LocalsDeclared
<1>. QED BY <1>1, <1>2, <1>4

\* Two locals that overlap are of two blocks, and the first of these to be
\* opened declares a local after the second is: so it is around it.
LEMMA OverlapOfLater ==
  ASSUME SumsIInv, NEW l \in Locals, NEW m \in Locals, ~InFront(l, m), l[1] < m[1]
  PROVE  /\ l[1] \in Ancestors(m[1])
         /\ \E p \in 1..Len(prog) : /\ prog[p].op = "decl" /\ prog[p].block = l[1]
                                    /\ p > OpenedAt(m[1])
<1>1. PICK b \in Met, n \in Names, c \in Met, k \in Names :
           /\ l = <<b, n>> /\ m = <<c, k>> /\ blocks[b].locals[n] # 0
           /\ b = l[1] /\ c = m[1]
  BY AddressTypes
<1>2. PICK p \in Within(b) : p > OpenedAt(c)
  BY <1>1, EarlierBlockApart
<1>3. IInv /\ OpenedInOrder /\ InOpened
  BY DEF SumsIInv
<1>4. p \in 1..Len(prog) /\ prog[p].op = "decl" /\ prog[p].block = b
  BY DEF Within, Statements
<1>5. b \in 1..Len(blocks) /\ c \in 2..Len(blocks) /\ b < c
  <2>1. b \in 1..Len(blocks) /\ c \in 1..Len(blocks) /\ b < c
    BY <1>1, <1>3, MetOpened
  <2>. QED BY <2>1, <1>3, Lengths
<1>6. PICK q \in 1..Len(prog) : q = OpenedAt(c) /\ prog[q] = Open(c)
  BY <1>3, <1>5, Opening
<1>7. q \in 1..p /\ prog[q].op = "open" /\ prog[q].block = c
  BY <1>2, <1>3, <1>4, <1>6, Lengths DEF Open
<1>8. prog[q].block > prog[p].block
  BY <1>3, <1>4, <1>5, <1>7, Lengths
<1>9. b \in Ancestors(c)
  BY <1>3, <1>4, <1>7, <1>8 DEF InOpened
<1>. QED BY <1>1, <1>2, <1>4, <1>9

\* Locals have bytes of their own, but that a local of a block may share those
\* of a block within it that was opened before the local was declared
\* (x86_asm.c:105-121, 518-525).
THEOREM LocalsShareOnlyWithLater == Spec => []OverlapOnlyWithLater
<1>1. ASSUME SumsIInv PROVE OverlapOnlyWithLater
  <2>. SUFFICES ASSUME NEW l \in Locals, NEW m \in Locals, l # m, Overlap(l, m)
                PROVE  \E outer, inner \in {l[1], m[1]} :
                         /\ outer # inner
                         /\ outer \in Ancestors(inner)
                         /\ \E p \in 1..Len(prog) : /\ prog[p].op = "decl" /\ prog[p].block = outer
                                                    /\ p > OpenedAt(inner)
    BY DEF OverlapOnlyWithLater
  <2>1. /\ l[1] \in Met /\ l[2] \in Names /\ blocks[l[1]].locals[l[2]] # 0 /\ l = <<l[1], l[2]>>
        /\ m[1] \in Met /\ m[2] \in Names /\ blocks[m[1]].locals[m[2]] # 0 /\ m = <<m[1], m[2]>>
    BY <1>1, AddressTypes
  <2>2. ~InFront(l, m) /\ ~InFront(m, l)
    <3>1. /\ Address(l[1], l[2]) \in Nat /\ LocalSize(l[1], l[2]) \in 1..8
          /\ Address(m[1], m[2]) \in Nat /\ LocalSize(m[1], m[2]) \in 1..8
      BY <1>1, AddressTypes
    <3>. QED BY <3>1 DEF Overlap, InFront
  <2>3. l[1] \in Nat /\ m[1] \in Nat
    <3>1. IInv /\ OpenedInOrder
      BY <1>1 DEF SumsIInv
    <3>2. l[1] \in 1..Len(blocks) /\ m[1] \in 1..Len(blocks)
      BY <2>1, <3>1, MetOpened
    <3>. QED BY <3>1, <3>2, Lengths
  <2>4. l[1] # m[1]
    <3>1. SUFFICES ASSUME l[1] = m[1] PROVE FALSE
      OBVIOUS
    <3>2. l[2] # m[2]
      BY <2>1, <3>1
    <3>3. Slot[l[2]] < Slot[m[2]] \/ Slot[m[2]] < Slot[l[2]]
      BY <2>1, <3>2, SlotAssumption
    <3>4. InFront(l, m) \/ InFront(m, l)
      BY <1>1, <2>1, <3>1, <3>3, SameBlockApart
    <3>. QED BY <2>2, <3>4
  <2>5. CASE l[1] < m[1]
    <3>1. ~InFront(l, m)
      BY <2>2
    <3>2. /\ l[1] \in Ancestors(m[1])
          /\ \E p \in 1..Len(prog) : /\ prog[p].op = "decl" /\ prog[p].block = l[1]
                                     /\ p > OpenedAt(m[1])
      BY <1>1, <2>5, <3>1, OverlapOfLater
    <3>3. PICK o \in {l[1], m[1]}, i \in {l[1], m[1]} : o = l[1] /\ i = m[1]
      OBVIOUS
    <3>4. o # i
      BY <2>4, <3>3, Zenon
    <3>5. /\ o \in Ancestors(i)
          /\ \E p \in 1..Len(prog) : /\ prog[p].op = "decl" /\ prog[p].block = o
                                     /\ p > OpenedAt(i)
      BY <3>2, <3>3, Zenon
    <3>. QED BY <3>4, <3>5, Zenon
  <2>6. CASE m[1] < l[1]
    <3>1. ~InFront(m, l)
      BY <2>2
    <3>2. /\ m[1] \in Ancestors(l[1])
          /\ \E p \in 1..Len(prog) : /\ prog[p].op = "decl" /\ prog[p].block = m[1]
                                     /\ p > OpenedAt(l[1])
      BY <1>1, <2>6, <3>1, OverlapOfLater
    <3>3. PICK o \in {l[1], m[1]}, i \in {l[1], m[1]} : o = m[1] /\ i = l[1]
      OBVIOUS
    <3>4. o # i
      BY <2>4, <3>3, Zenon
    <3>5. /\ o \in Ancestors(i)
          /\ \E p \in 1..Len(prog) : /\ prog[p].op = "decl" /\ prog[p].block = o
                                     /\ p > OpenedAt(i)
      BY <3>2, <3>3, Zenon
    <3>. QED BY <3>4, <3>5, Zenon
  <2>. QED BY <2>3, <2>4, <2>5, <2>6
<1>. QED BY <1>1, SumsInvariance, PTL

-----------------------------------------------------------------------------
(* Alignment *)

\* Align gives the least multiple that is not less.
LEMMA AlignIs ==
  ASSUME NEW x \in Nat, NEW a \in Nat \ {0}
  PROVE  /\ Align(x, a) \in Nat
         /\ x <= Align(x, a) /\ Align(x, a) < x + a
         /\ Align(x, a) % a = 0
         /\ \E q \in Nat : Align(x, a) = q * a
<1>1. PICK q \in Nat : q = (x + a - 1) \div a
  OBVIOUS
<1>2. Align(x, a) = q * a
  BY <1>1 DEF Align
<1>3. q * a <= x + a - 1 /\ x + a - 1 < q * a + a
  BY <1>1
<1>4. (q * a) % a = 0
  OBVIOUS
<1>. QED BY <1>2, <1>3, <1>4

LEMMA MultiplesAdd ==
  ASSUME NEW x \in Nat, NEW y \in Nat, NEW a \in Nat \ {0}, x % a = 0, y % a = 0
  PROVE  (x + y) % a = 0
<1>1. PICK p \in Nat, q \in Nat : p = x \div a /\ q = y \div a
  OBVIOUS
<1>2. x = p * a /\ y = q * a
  BY <1>1
<1>3. x + y = (p + q) * a
  BY <1>2
<1>4. ((p + q) * a) % a = 0
  OBVIOUS
<1>. QED BY <1>3, <1>4

LEMMA AlignWithin ==
  ASSUME NEW x \in Nat, NEW a \in Nat \ {0}, NEW k \in Nat, x <= k * a
  PROVE  Align(x, a) <= k * a
<1>1. PICK q \in Nat : Align(x, a) = q * a
  BY AlignIs
<1>2. q * a < x + a
  BY <1>1, AlignIs
<1>3. q * a < (k + 1) * a
  BY <1>2
<1>4. q < k + 1
  BY <1>3
<1>. QED BY <1>1, <1>4

-----------------------------------------------------------------------------
(* The sections *)

\* What the search of the libraries leaves
EntriesOK ==
    /\ functions \in Seq(Externals)
    /\ entries \in Seq([dll : Dlls, fs : Seq(Externals)])
    /\ \A i \in DOMAIN entries : /\ Range(entries[i].fs) \subseteq Range(functions)
                                 /\ IsInjective(entries[i].fs)
    /\ \A i, j \in DOMAIN entries :
         i # j => Range(entries[i].fs) \intersect Range(entries[j].fs) = {}
    /\ IsInjective(functions)

ProgramInv == text \in TextSizes /\ data \in DataSizes /\ EntriesOK

TextSection == [name |-> "text", size |-> text, raw |-> Align(text, FileAlign),
                va |-> SecAlign, ptr |-> HeadersSize]
Behind(s, name, size) == [name |-> name, size |-> size, raw |-> Align(size, FileAlign),
                          va |-> Align(s.va + s.raw, SecAlign), ptr |-> s.ptr + s.raw]
IdataSection == Behind(TextSection, "idata", IdataSize)
DataSection == Behind(IF HasIdata THEN IdataSection ELSE TextSection, "data", data)

WithIdata == IF HasIdata THEN <<TextSection, IdataSection>> ELSE <<TextSection>>

SectionsInv ==
    /\ stage = "text" => sections = <<>>
    /\ stage = "idata" => HasIdata /\ sections = <<TextSection>>
    /\ stage = "data" => sections = WithIdata
    /\ stage \notin {"text", "idata", "data"} =>
         sections = IF data > 0 THEN Append(WithIdata, DataSection) ELSE WithIdata

\* What a section has by itself
Aligned(s) ==
    /\ s \in [name : {"text", "idata", "data"}, size : Nat \ {0}, raw : Nat, va : Nat, ptr : Nat]
    /\ s.va % SecAlign = 0 /\ s.ptr % FileAlign = 0 /\ s.raw % FileAlign = 0
    /\ s.size <= s.raw /\ s.raw > 0 /\ s.va >= SecAlign

Clears(s, t) == s.va + s.raw <= t.va /\ s.ptr + s.raw <= t.ptr

LEMMA HeadersAre ==
  /\ HeadersSize \in Nat /\ HeadersSize <= SecAlign /\ HeadersSize % FileAlign = 0
  /\ HeadersFixed + 3 * SectionHeader <= HeadersSize
<1>1. /\ HeadersFixed + SectionHeader \in Nat /\ HeadersFixed + 3 * SectionHeader \in Nat
      /\ FileAlign \in Nat \ {0} /\ SecAlign \in Nat \ {0}
  BY StructuresAssumption, AlignAssumption
<1>2. Align(HeadersFixed + SectionHeader, FileAlign)
        = Align(HeadersFixed + 3 * SectionHeader, FileAlign)
  <2>1. /\ HeadersFixed + SectionHeader + FileAlign - 1 = (HeadersFixed + SectionHeader - 1) + FileAlign
        /\ HeadersFixed + 3 * SectionHeader + FileAlign - 1
             = (HeadersFixed + 3 * SectionHeader - 1) + FileAlign
    BY <1>1, StructuresAssumption
  <2>2. \A x \in Nat : (x + FileAlign) \div FileAlign = x \div FileAlign + 1
    BY <1>1
  <2>3. HeadersFixed + SectionHeader - 1 \in Nat
        /\ HeadersFixed + 3 * SectionHeader - 1 \in Nat
    BY StructuresAssumption
  <2>. QED BY <2>1, <2>2, <2>3, HeadersAssumption DEF Align
<1>3. PICK k \in Nat : SecAlign = k * FileAlign
  <2>1. SecAlign = (SecAlign \div FileAlign) * FileAlign /\ SecAlign \div FileAlign \in Nat
    BY <1>1, AlignAssumption
  <2>. QED BY <2>1
<1>4. Align(HeadersFixed + 3 * SectionHeader, FileAlign) <= k * FileAlign
  BY <1>1, <1>3, HeadersAssumption, AlignWithin
<1>. QED BY <1>1, <1>2, <1>3, <1>4, AlignIs DEF HeadersSize

LEMMA BehindIs ==
  ASSUME NEW s, Aligned(s), NEW name \in {"text", "idata", "data"}, NEW size \in Nat \ {0}
  PROVE  /\ Aligned(Behind(s, name, size)) /\ Clears(s, Behind(s, name, size))
         /\ Behind(s, name, size).name = name /\ Behind(s, name, size).size = size
         /\ Behind(s, name, size).ptr = s.ptr + s.raw
<1>. DEFINE t == Behind(s, name, size)
<1>1. FileAlign \in Nat \ {0} /\ SecAlign \in Nat \ {0}
  BY AlignAssumption
<1>2. s.va \in Nat /\ s.raw \in Nat /\ s.ptr \in Nat /\ s.va + s.raw \in Nat
      /\ s.ptr % FileAlign = 0 /\ s.raw % FileAlign = 0 /\ s.va >= SecAlign
  BY DEF Aligned
<1>3. /\ t.name = name /\ t.size = size /\ t.raw = Align(size, FileAlign)
      /\ t.va = Align(s.va + s.raw, SecAlign) /\ t.ptr = s.ptr + s.raw
      /\ t = [name |-> t.name, size |-> t.size, raw |-> t.raw, va |-> t.va, ptr |-> t.ptr]
  BY DEF Behind
<1>. HIDE DEF t
<1>4. /\ t.raw \in Nat /\ size <= t.raw /\ t.raw % FileAlign = 0
      /\ t.va \in Nat /\ s.va + s.raw <= t.va /\ t.va % SecAlign = 0
  BY <1>1, <1>2, <1>3, AlignIs
<1>5. (s.ptr + s.raw) % FileAlign = 0
  BY <1>1, <1>2, MultiplesAdd
<1>6. Aligned(t)
  BY <1>1, <1>2, <1>3, <1>4, <1>5 DEF Aligned
<1>. QED BY <1>2, <1>3, <1>4, <1>6 DEF t, Clears

LEMMA EntryIs ==
  ASSUME EntriesOK, NEW i \in DOMAIN entries
  PROVE  /\ entries[i].dll \in Dlls /\ entries[i].fs \in Seq(Externals)
         /\ Len(entries[i].fs) \in Nat /\ DOMAIN entries[i].fs = 1..Len(entries[i].fs)
         /\ \A k \in DOMAIN entries[i].fs : /\ entries[i].fs[k] \in Externals
                                            /\ entries[i].fs[k] \in Found
                                            /\ entries[i].fs[k] \in Range(functions)
<1>1. entries \in Seq([dll : Dlls, fs : Seq(Externals)])
  BY DEF EntriesOK
<1>2. entries[i] \in [dll : Dlls, fs : Seq(Externals)]
  BY <1>1, LenProperties, ElementOfSeq
<1>3. entries[i].fs \in Seq(Externals) /\ entries[i].dll \in Dlls
  BY <1>2
<1>4. \A k \in DOMAIN entries[i].fs : entries[i].fs[k] \in Externals
  BY <1>3
<1>5. \A k \in DOMAIN entries[i].fs : entries[i].fs[k] \in Range(entries[i].fs)
  BY DEF Range
<1>6. Range(entries[i].fs) \subseteq Found
      /\ Range(entries[i].fs) \subseteq Range(functions)
  BY DEF Found, EntriesOK
<1>. QED BY <1>3, <1>4, <1>5, <1>6

LEMMA RoomsAre ==
  ASSUME EntriesOK
  PROVE  /\ \A i \in DOMAIN entries : TableRoom(i) \in Nat /\ ModuleRoom(i) \in Nat
         /\ \A f \in Found : f \in Externals /\ NameRoom(f) \in Nat
         /\ IsFiniteSet(Found) /\ IsFiniteSet(DOMAIN entries)
         /\ Len(entries) \in Nat /\ DOMAIN entries = 1..Len(entries)
<1>1. SlotSize \in Nat /\ NameSize \in [Externals -> Nat \ {0}]
      /\ DllSize \in [Dlls -> Nat \ {0}]
  BY StructuresAssumption, NamesAssumption
<1>2. ASSUME NEW i \in DOMAIN entries PROVE TableRoom(i) \in Nat /\ ModuleRoom(i) \in Nat
  <2>1. Len(entries[i].fs) \in Nat /\ entries[i].dll \in Dlls
    BY EntryIs
  <2>. QED BY <1>1, <2>1 DEF TableRoom, ModuleRoom
<1>3. Found \subseteq Externals
  <2>1. ASSUME NEW i \in DOMAIN entries PROVE Range(entries[i].fs) \subseteq Externals
    BY EntryIs DEF Range
  <2>. QED BY <2>1 DEF Found
<1>4. \A f \in Found : NameRoom(f) \in Nat
  BY <1>1, <1>3 DEF NameRoom
<1>5. IsFiniteSet(Found)
  BY <1>3, NamesAssumption, FS_Subset
<1>6. Len(entries) \in Nat /\ DOMAIN entries = 1..Len(entries)
  BY DEF EntriesOK
<1>7. IsFiniteSet(DOMAIN entries)
  BY <1>6, FS_Interval
<1>. QED BY <1>2, <1>3, <1>4, <1>5, <1>6, <1>7

LEMMA SizesAre ==
  ASSUME EntriesOK
  PROVE  /\ DescriptorsSize \in Nat /\ TablesSize \in Nat /\ NamesSize \in Nat
         /\ ModulesSize \in Nat /\ IdataSize \in Nat
         /\ HasIdata => IdataSize \in Nat \ {0} /\ entries # <<>>
                          /\ DescriptorsSize = Descriptor * (Len(entries) + 1)
<1>1. TablesSize \in Nat
  <2>. DEFINE f == [i \in DOMAIN entries |-> TableRoom(i)]
  <2>1. \A i \in DOMAIN entries : f[i] \in Nat
    BY RoomsAre
  <2>2. Sum(f, DOMAIN entries) \in Nat
    <3>. HIDE DEF f
    <3>. QED BY <2>1, RoomsAre, SumType
  <2>. QED BY <2>2 DEF TablesSize, Sum
<1>2. NamesSize \in Nat
  <2>. DEFINE f == [x \in Found |-> NameRoom(x)]
  <2>1. \A x \in Found : f[x] \in Nat
    BY RoomsAre
  <2>2. Sum(f, Found) \in Nat
    <3>. HIDE DEF f
    <3>. QED BY <2>1, RoomsAre, SumType
  <2>. QED BY <2>2 DEF NamesSize, Sum
<1>3. ModulesSize \in Nat
  <2>. DEFINE f == [i \in DOMAIN entries |-> ModuleRoom(i)]
  <2>1. \A i \in DOMAIN entries : f[i] \in Nat
    BY RoomsAre
  <2>2. Sum(f, DOMAIN entries) \in Nat
    <3>. HIDE DEF f
    <3>. QED BY <2>1, RoomsAre, SumType
  <2>. QED BY <2>2 DEF ModulesSize, Sum
<1>4. DescriptorsSize \in Nat
  <2>1. Len(entries) \in Nat /\ Descriptor \in Nat
    BY RoomsAre, StructuresAssumption
  <2>. QED BY <2>1 DEF DescriptorsSize
<1>5. IdataSize \in Nat
  BY <1>1, <1>2, <1>3, <1>4 DEF IdataSize
<1>6. entries = <<>> => IdataSize = 0
  <2>1. SUFFICES ASSUME entries = <<>> PROVE IdataSize = 0
    OBVIOUS
  <2>2. DOMAIN entries = {} /\ Found = {}
    BY <2>1 DEF Found
  <2>3. \A f : Sum(f, {}) = 0
    BY FS_EmptySet, SumFirst
  <2>4. TablesSize = 0 /\ NamesSize = 0 /\ ModulesSize = 0 /\ DescriptorsSize = 0
    BY <2>1, <2>2, <2>3 DEF TablesSize, NamesSize, ModulesSize, DescriptorsSize, Sum
  <2>. QED BY <2>4 DEF IdataSize
<1>7. HasIdata => IdataSize \in Nat \ {0} /\ entries # <<>>
  BY <1>5, <1>6 DEF HasIdata
<1>. QED BY <1>1, <1>2, <1>3, <1>4, <1>5, <1>7 DEF DescriptorsSize

LEMMA SectionsAre ==
  ASSUME ProgramInv
  PROVE  /\ Aligned(TextSection) /\ TextSection.name = "text"
         /\ TextSection.ptr = HeadersSize
         /\ TextSection.size = text /\ TextSection.va = SecAlign
         /\ TextSection.raw <= SecAlign
         /\ HasIdata => /\ Aligned(IdataSection) /\ Clears(TextSection, IdataSection)
                        /\ IdataSection.name = "idata" /\ IdataSection.size = IdataSize
                        /\ IdataSection.ptr = TextSection.ptr + TextSection.raw
         /\ data > 0 => /\ Aligned(DataSection)
                        /\ DataSection.name = "data" /\ DataSection.size = data
                        /\ HasIdata => Clears(IdataSection, DataSection)
                             /\ DataSection.ptr = IdataSection.ptr + IdataSection.raw
                        /\ ~HasIdata => Clears(TextSection, DataSection)
                             /\ DataSection.ptr = TextSection.ptr + TextSection.raw
<1>1. /\ text \in Nat \ {0} /\ text <= SecAlign /\ data \in Nat
      /\ FileAlign \in Nat \ {0} /\ SecAlign \in Nat \ {0}
  BY SectionSizesAssumption, AlignAssumption DEF ProgramInv
<1>2. /\ Aligned(TextSection) /\ TextSection.name = "text" /\ TextSection.ptr = HeadersSize
      /\ TextSection.size = text /\ TextSection.va = SecAlign /\ TextSection.raw <= SecAlign
  <2>1. PICK s : s = TextSection
    OBVIOUS
  <2>2. /\ s.name = "text" /\ s.size = text /\ s.raw = Align(text, FileAlign)
        /\ s.va = SecAlign
        /\ s.ptr = HeadersSize
        /\ s = [name |-> s.name, size |-> s.size, raw |-> s.raw, va |-> s.va, ptr |-> s.ptr]
    BY <2>1 DEF TextSection
  <2>3. s.raw \in Nat /\ text <= s.raw /\ s.raw % FileAlign = 0
    BY <1>1, <2>2, AlignIs
  <2>4. SecAlign % SecAlign = 0
    BY <1>1
  <2>5. PICK k \in Nat : SecAlign = k * FileAlign
    <3>1. SecAlign = (SecAlign \div FileAlign) * FileAlign
          /\ SecAlign \div FileAlign \in Nat
      BY <1>1, AlignAssumption
    <3>. QED BY <3>1
  <2>6. Align(text, FileAlign) <= k * FileAlign
    BY <1>1, <2>5, AlignWithin
  <2>7. Aligned(s)
    BY <1>1, <2>2, <2>3, <2>4, HeadersAre DEF Aligned
  <2>. QED BY <2>1, <2>2, <2>5, <2>6, <2>7
<1>3. HasIdata => /\ Aligned(IdataSection) /\ Clears(TextSection, IdataSection)
                  /\ IdataSection.name = "idata" /\ IdataSection.size = IdataSize
                  /\ IdataSection.ptr = TextSection.ptr + TextSection.raw
  BY <1>2, SizesAre, BehindIs DEF ProgramInv, IdataSection
<1>4. ASSUME data > 0, HasIdata
      PROVE  /\ Aligned(DataSection) /\ Clears(IdataSection, DataSection)
             /\ DataSection.name = "data" /\ DataSection.size = data
             /\ DataSection.ptr = IdataSection.ptr + IdataSection.raw
  <2>1. DataSection = Behind(IdataSection, "data", data)
    BY <1>4 DEF DataSection
  <2>. QED BY <1>1, <1>3, <1>4, <2>1, BehindIs
<1>5. ASSUME data > 0, ~HasIdata
      PROVE  /\ Aligned(DataSection) /\ Clears(TextSection, DataSection)
             /\ DataSection.name = "data" /\ DataSection.size = data
             /\ DataSection.ptr = TextSection.ptr + TextSection.raw
  <2>1. DataSection = Behind(TextSection, "data", data)
    BY <1>5 DEF DataSection
  <2>2. PICK s : s = TextSection
    OBVIOUS
  <2>3. Aligned(s) /\ data \in Nat \ {0} /\ DataSection = Behind(s, "data", data)
    BY <1>1, <1>2, <1>5, <2>1, <2>2
  <2>4. /\ Aligned(DataSection) /\ Clears(s, DataSection)
        /\ DataSection.name = "data" /\ DataSection.size = data
        /\ DataSection.ptr = s.ptr + s.raw
    BY <2>3, BehindIs
  <2>. QED BY <2>2, <2>4
<1>. QED BY <1>2, <1>3, <1>4, <1>5

LEMMA BeforeTransitive ==
  ASSUME NEW r, NEW s, NEW t, Aligned(r), Aligned(s), Aligned(t), Clears(r, s), Clears(s, t)
  PROVE  Clears(r, t)
<1>1. \A u \in {r, s, t} : u.va \in Nat /\ u.raw \in Nat /\ u.ptr \in Nat
  BY DEF Aligned
<1>. QED BY <1>1 DEF Clears

LEMMA AppendIs ==
  /\ \A r, s, t : Append(<<r, s>>, t) = <<r, s, t>>
  /\ \A r, t : Append(<<r>>, t) = <<r, t>>
<1>1. ASSUME NEW r, NEW s, NEW t PROVE Append(<<r, s>>, t) = <<r, s, t>>
  <2>1. PICK a, b : a = Append(<<r, s>>, t) /\ b = <<r, s, t>>
    OBVIOUS
  <2>2. <<r, s>> \in Seq({r, s, t}) /\ Len(<<r, s>>) = 2
    OBVIOUS
  <2>3. a \in Seq({r, s, t}) /\ Len(a) = 3 /\ a[1] = r /\ a[2] = s /\ a[3] = t
    BY <2>1, <2>2
  <2>4. b \in Seq({r, s, t}) /\ Len(b) = 3 /\ b[1] = r /\ b[2] = s /\ b[3] = t
    BY <2>1
  <2>5. \A i \in 1..3 : a[i] = b[i]
    BY <2>3, <2>4
  <2>6. a = b
    BY <2>3, <2>4, <2>5, SeqEqual
  <2>. QED BY <2>1, <2>6
<1>2. ASSUME NEW r, NEW t PROVE Append(<<r>>, t) = <<r, t>>
  <2>1. PICK a, b : a = Append(<<r>>, t) /\ b = <<r, t>>
    OBVIOUS
  <2>2. <<r>> \in Seq({r, t}) /\ Len(<<r>>) = 1
    OBVIOUS
  <2>3. a \in Seq({r, t}) /\ Len(a) = 2 /\ a[1] = r /\ a[2] = t
    BY <2>1, <2>2
  <2>4. b \in Seq({r, t}) /\ Len(b) = 2 /\ b[1] = r /\ b[2] = t
    BY <2>1
  <2>5. \A i \in 1..2 : a[i] = b[i]
    BY <2>3, <2>4
  <2>6. a = b
    BY <2>3, <2>4, <2>5, SeqEqual
  <2>. QED BY <2>1, <2>6
<1>. QED BY <1>1, <1>2

LEMMA AllSections ==
  /\ HasIdata => Append(WithIdata, DataSection) = <<TextSection, IdataSection, DataSection>>
  /\ ~HasIdata => Append(WithIdata, DataSection) = <<TextSection, DataSection>>
BY AppendIs, Zenon DEF WithIdata

\* Whatever sections there are, they are in order.
LEMMA SectionsInOrder ==
  ASSUME ProgramInv, SectionsInv
  PROVE  /\ Len(sections) \in 0..3 /\ DOMAIN sections = 1..Len(sections)
         /\ \A i \in 1..Len(sections) : Aligned(sections[i])
         /\ \A i, j \in 1..Len(sections) : i < j => Clears(sections[i], sections[j])
<1>. DEFINE Right(s) == /\ Len(s) \in 0..3 /\ DOMAIN s = 1..Len(s)
                        /\ \A i \in 1..Len(s) : Aligned(s[i])
                        /\ \A i, j \in 1..Len(s) : i < j => Clears(s[i], s[j])
<1>. SUFFICES Right(sections)
  OBVIOUS
<1>1. Right(<<>>)
  OBVIOUS
<1>2. ASSUME NEW r, Aligned(r) PROVE Right(<<r>>)
  BY <1>2
<1>3. ASSUME NEW r, NEW s, Aligned(r), Aligned(s), Clears(r, s) PROVE Right(<<r, s>>)
  BY <1>3
<1>4. ASSUME NEW r, NEW s, NEW t, Aligned(r), Aligned(s), Aligned(t), Clears(r, s), Clears(s, t)
      PROVE  Right(<<r, s, t>>)
  <2>1. Clears(r, t)
    BY <1>4, BeforeTransitive
  <2>. QED BY <1>4, <2>1
<1>. HIDE DEF Right
<1>5. Right(<<TextSection>>)
  BY <1>2, SectionsAre
<1>6. Right(WithIdata)
  <2>1. CASE HasIdata
    BY <1>3, <2>1, SectionsAre DEF WithIdata
  <2>2. CASE ~HasIdata
    BY <1>5, <2>2 DEF WithIdata
  <2>. QED BY <2>1, <2>2
<1>7. ASSUME data > 0 PROVE Right(Append(WithIdata, DataSection))
  <2>1. CASE HasIdata
    <3>1. Append(WithIdata, DataSection) = <<TextSection, IdataSection, DataSection>>
      BY <2>1, AllSections
    <3>. QED BY <1>4, <1>7, <2>1, <3>1, SectionsAre
  <2>2. CASE ~HasIdata
    <3>1. Append(WithIdata, DataSection) = <<TextSection, DataSection>>
      BY <2>2, AllSections
    <3>. QED BY <1>3, <1>7, <2>2, <3>1, SectionsAre
  <2>. QED BY <2>1, <2>2
<1>. QED BY <1>1, <1>5, <1>6, <1>7 DEF SectionsInv

LEMMA OrderedAreApart ==
  ASSUME ProgramInv, SectionsInv
  PROVE  SectionsApart
<1>1. PICK n \in 0..3 : n = Len(sections)
  BY SectionsInOrder
<1>2. ASSUME NEW i \in 1..n
      PROVE  /\ Aligned(sections[i])
             /\ sections[i].va \in Nat /\ sections[i].ptr \in Nat
             /\ sections[i].raw \in Nat /\ sections[i].size \in Nat
             /\ sections[i].size <= sections[i].raw
             /\ sections[i].va % SecAlign = 0 /\ sections[i].ptr % FileAlign = 0
             /\ sections[i].va >= SecAlign
  <2>1. Aligned(sections[i])
    BY <1>1, SectionsInOrder
  <2>. QED BY <2>1 DEF Aligned
<1>3. \A i, j \in 1..n : i < j => Clears(sections[i], sections[j])
  BY <1>1, SectionsInOrder
<1>4. HeadersSize <= SecAlign /\ HeadersSize \in Nat /\ SecAlign \in Nat
  BY HeadersAre, AlignAssumption
<1>5. ASSUME NEW i \in 1..n, NEW j \in 1..n, i # j
      PROVE  /\ Apart(sections[i].va, sections[i].size, sections[j].va, sections[j].size)
             /\ Apart(sections[i].ptr, sections[i].raw, sections[j].ptr, sections[j].raw)
  <2>1. Clears(sections[i], sections[j]) \/ Clears(sections[j], sections[i])
    BY <1>3, <1>5
  <2>. QED BY <1>2, <2>1 DEF Clears, Apart
<1>6. \A i \in 1..n : /\ sections[i].va % SecAlign = 0 /\ sections[i].ptr % FileAlign = 0
                      /\ sections[i].size <= sections[i].raw
                      /\ sections[i].va >= HeadersSize
  BY <1>2, <1>4
<1>7. ASSUME n > 0, sections[n].size <= SecAlign, NEW i \in 1..n
      PROVE  sections[i].va + sections[i].size <= ImageSize
  <2>1. n \in 1..n /\ ImageSize = sections[n].va + SecAlign
    BY <1>1, <1>7 DEF ImageSize
  <2>2. i = n \/ Clears(sections[i], sections[n])
    BY <1>3, <2>1
  <2>. QED BY <1>2, <1>4, <1>7, <2>1, <2>2 DEF Clears
<1>. QED BY <1>1, <1>5, <1>6, <1>7 DEF SectionsApart

LEMMA DataIsWhereExpected ==
  ASSUME ProgramInv, SectionsInv
  PROVE  DataWhereExpected
<1>1. SUFFICES ASSUME NEW i \in DOMAIN sections, sections[i].name = "data"
               PROVE  sections[i].va = DataBase <=> HasIdata /\ sections[2].raw <= SecAlign
  BY DEF DataWhereExpected
<1>2. data \in Nat /\ SecAlign \in Nat \ {0} /\ DataBase = 3 * SecAlign
  BY SectionSizesAssumption, AlignAssumption, StructuresAssumption DEF ProgramInv
<1>3. TextSection.name # "data" /\ (HasIdata => IdataSection.name # "data")
  BY SectionsAre
<1>4. data > 0 /\ sections = Append(WithIdata, DataSection)
  <2>1. sections \in {<<>>, <<TextSection>>, WithIdata} => FALSE
    <3>1. \A s : s \in {<<>>, <<TextSection>>, WithIdata} => \A j \in DOMAIN s : s[j].name # "data"
      BY <1>3 DEF WithIdata
    <3>. QED BY <1>1, <3>1
  <2>. QED BY <2>1 DEF SectionsInv
<1>5. /\ TextSection.va = SecAlign /\ TextSection.raw \in 1..SecAlign
      /\ IdataSection.va = Align(SecAlign + TextSection.raw, SecAlign)
  BY SectionsAre DEF IdataSection, Behind, Aligned
<1>6. Align(SecAlign + TextSection.raw, SecAlign) = 2 * SecAlign
  <2>1. PICK r \in 1..SecAlign : r = TextSection.raw
    BY <1>5
  <2>0. SecAlign + r \in Nat
    BY <1>2
  <2>2. Align(SecAlign + r, SecAlign) <= 2 * SecAlign
    BY <1>2, <2>0, AlignWithin
  <2>3. PICK q \in Nat : Align(SecAlign + r, SecAlign) = q * SecAlign
    BY <1>2, <2>0, AlignIs
  <2>4. SecAlign + r <= q * SecAlign
    BY <1>2, <2>0, <2>3, AlignIs
  <2>5. q > 1 /\ q <= 2
    BY <1>2, <2>1, <2>2, <2>3, <2>4
  <2>. QED BY <2>1, <2>3, <2>5
<1>7. CASE HasIdata
  <2>1. sections = <<TextSection, IdataSection, DataSection>>
    BY <1>4, <1>7, AllSections
  <2>2. i = 3 /\ sections[i] = DataSection /\ sections[2] = IdataSection
    <3>1. i \in 1..3
      BY <1>1, <2>1
    <3>. QED BY <1>1, <1>3, <1>7, <2>1, <3>1
  <2>3. PICK r \in Nat \ {0} : r = IdataSection.raw
    BY <1>7, SectionsAre DEF Aligned
  <2>0. 2 * SecAlign + r \in Nat
    BY <1>2
  <2>4. DataSection.va = Align(2 * SecAlign + r, SecAlign)
    BY <1>5, <1>6, <1>7, <2>3 DEF DataSection, Behind
  <2>5. PICK q \in Nat : Align(2 * SecAlign + r, SecAlign) = q * SecAlign
    BY <1>2, <2>0, AlignIs
  <2>6. 2 * SecAlign + r <= q * SecAlign
    BY <1>2, <2>0, <2>5, AlignIs
  <2>7. q > 2
    BY <1>2, <2>3, <2>6
  <2>8. q = 3 => r <= SecAlign
    BY <1>2, <2>3, <2>6
  <2>9. r <= SecAlign => Align(2 * SecAlign + r, SecAlign) <= 3 * SecAlign
    BY <1>2, <2>3, AlignWithin
  <2>10. r <= SecAlign => q <= 3
    BY <1>2, <2>5, <2>9
  <2>11. q = 3 <=> r <= SecAlign
    BY <2>7, <2>8, <2>10
  <2>12. q * SecAlign = 3 * SecAlign <=> q = 3
    BY <1>2
  <2>. QED BY <1>2, <1>7, <2>2, <2>3, <2>4, <2>5, <2>11, <2>12
<1>8. CASE ~HasIdata
  <2>1. sections = <<TextSection, DataSection>>
    BY <1>4, <1>8, AllSections
  <2>2. sections[i] = DataSection
    <3>1. i \in 1..2
      BY <1>1, <2>1
    <3>. QED BY <1>1, <1>3, <2>1, <3>1
  <2>3. DataSection.va = 2 * SecAlign
    BY <1>5, <1>6, <1>8 DEF DataSection, Behind
  <2>4. 2 * SecAlign # 3 * SecAlign
    BY <1>2
  <2>. QED BY <1>2, <1>8, <2>2, <2>3, <2>4
<1>. QED BY <1>7, <1>8

-----------------------------------------------------------------------------
(* The places in .idata *)

LEMMA PartialSums ==
  ASSUME NEW n \in Nat, NEW f, \A i \in 1..n : f[i] \in Nat
  PROVE  /\ Sum(f, 1 .. 1 - 1) = 0
         /\ \A i \in 1..n + 1 : Sum(f, 1 .. i - 1) \in Nat
         /\ \A i \in 1..n : Sum(f, 1 .. (i + 1) - 1) = Sum(f, 1 .. i - 1) + f[i]
         /\ \A i \in 1..n, j \in 1..n + 1 :
              i < j => Sum(f, 1 .. i - 1) + f[i] <= Sum(f, 1 .. j - 1)
<1>1. \A i \in 1..n + 1 : IsFiniteSet(1 .. i - 1) /\ \A j \in 1 .. i - 1 : f[j] \in Nat
  BY FS_Interval
<1>2. Sum(f, 1 .. 1 - 1) = 0
  <2>1. 1 .. 1 - 1 = {}
    OBVIOUS
  <2>. QED BY <2>1, FS_EmptySet, SumFirst
<1>3. \A i \in 1..n + 1 : Sum(f, 1 .. i - 1) \in Nat
  BY <1>1, SumType
<1>4. ASSUME NEW i \in 1..n
      PROVE  Sum(f, 1 .. (i + 1) - 1) = Sum(f, 1 .. i - 1) + f[i]
  <2>1. 1 .. (i + 1) - 1 = (1 .. i - 1) \union {i} /\ i \notin 1 .. i - 1 /\ i \in 1..n + 1
    OBVIOUS
  <2>2. Sum(f, (1 .. i - 1) \union {i}) = f[i] + Sum(f, 1 .. i - 1)
    BY <1>1, <2>1, SumAdd
  <2>3. PICK a \in Nat, b \in Nat : a = Sum(f, 1 .. i - 1) /\ b = f[i]
    BY <1>3, <2>1
  <2>4. Sum(f, 1 .. (i + 1) - 1) = b + a
    BY <2>1, <2>2, <2>3, Zenon
  <2>5. b + a = a + b
    OBVIOUS
  <2>. QED BY <2>3, <2>4, <2>5
<1>5. ASSUME NEW i \in 1..n, NEW j \in 1..n + 1, i < j
      PROVE  Sum(f, 1 .. i - 1) + f[i] <= Sum(f, 1 .. j - 1)
  <2>1. 1 .. (i + 1) - 1 \in SUBSET (1 .. j - 1)
    BY <1>5
  <2>2. Sum(f, 1 .. (i + 1) - 1) <= Sum(f, 1 .. j - 1)
    BY <1>1, <2>1, SumSubset
  <2>. QED BY <1>4, <2>2
<1>. QED BY <1>2, <1>3, <1>4, <1>5

TableRooms == [i \in DOMAIN entries |-> TableRoom(i)]
ModuleRooms == [i \in DOMAIN entries |-> ModuleRoom(i)]
NameRooms == [f \in Found |-> NameRoom(f)]

\* the tables and the names of the dlls before the i-th
TableStart(i) == Sum(TableRooms, 1 .. i - 1)
ModuleStart(i) == Sum(ModuleRooms, 1 .. i - 1)

LEMMA TableStarts ==
  ASSUME EntriesOK
  PROVE  /\ TableStart(1) = 0 /\ TableStart(Len(entries) + 1) = TablesSize
         /\ \A i \in 1..Len(entries) + 1 : TableStart(i) \in Nat
         /\ \A i \in 1..Len(entries) : TableStart(i + 1) = TableStart(i) + TableRoom(i)
         /\ \A i \in 1..Len(entries), j \in 1..Len(entries) + 1 :
              i < j => TableStart(i) + TableRoom(i) <= TableStart(j)
<1>1. PICK n \in Nat : n = Len(entries) /\ DOMAIN entries = 1..n
  BY RoomsAre
<1>2. \A i \in 1..n : TableRooms[i] = TableRoom(i) /\ TableRooms[i] \in Nat
  BY <1>1, RoomsAre DEF TableRooms
<1>3. 1 .. (n + 1) - 1 = DOMAIN entries
  BY <1>1
<1>4. TableStart(n + 1) = TablesSize
  BY <1>3, Zenon DEF TableStart, TablesSize, TableRooms, Sum
<1>. QED BY <1>1, <1>2, <1>4, PartialSums DEF TableStart

LEMMA ModuleStarts ==
  ASSUME EntriesOK
  PROVE  /\ ModuleStart(1) = 0 /\ ModuleStart(Len(entries) + 1) = ModulesSize
         /\ \A i \in 1..Len(entries) + 1 : ModuleStart(i) \in Nat
         /\ \A i \in 1..Len(entries) : ModuleStart(i + 1) = ModuleStart(i) + ModuleRoom(i)
         /\ \A i \in 1..Len(entries), j \in 1..Len(entries) + 1 :
              i < j => ModuleStart(i) + ModuleRoom(i) <= ModuleStart(j)
<1>1. PICK n \in Nat : n = Len(entries) /\ DOMAIN entries = 1..n
  BY RoomsAre
<1>2. \A i \in 1..n : ModuleRooms[i] = ModuleRoom(i) /\ ModuleRooms[i] \in Nat
  BY <1>1, RoomsAre DEF ModuleRooms
<1>3. 1 .. (n + 1) - 1 = DOMAIN entries
  BY <1>1
<1>4. ModuleStart(n + 1) = ModulesSize
  BY <1>3, Zenon DEF ModuleStart, ModulesSize, ModuleRooms, Sum
<1>. QED BY <1>1, <1>2, <1>4, PartialSums DEF ModuleStart

\* A function, by its dll and its place there, or the place after the last
Valid(i, k) == i \in DOMAIN entries /\ k \in DOMAIN entries[i].fs
Place(i, k) == \/ i \in DOMAIN entries /\ k \in 1..Len(entries[i].fs) + 1
               \/ i = Len(entries) + 1 /\ k = 1
Precedes(i, k, j, m) == i < j \/ (i = j /\ k < m)

\* the slot, the functions before it and where their names end
SlotStart(i, k) == TableStart(i) + (k - 1) * SlotSize
Already(i, k) == (UNION {Range(entries[j].fs) : j \in 1 .. i - 1})
                   \union {entries[i].fs[m] : m \in 1 .. k - 1}
NameStart(i, k) == Sum(NameRooms, Already(i, k))

LEMMA PlaceIs ==
  ASSUME EntriesOK, NEW i, NEW k, Place(i, k)
  PROVE  /\ i \in 1..Len(entries) + 1 /\ k \in Nat /\ k >= 1
         /\ i \in Nat /\ Len(entries) \in Nat
<1>1. Len(entries) \in Nat /\ DOMAIN entries = 1..Len(entries)
  BY RoomsAre
<1>2. CASE i \in DOMAIN entries /\ k \in 1..Len(entries[i].fs) + 1
  <2>1. Len(entries[i].fs) \in Nat
    BY <1>2, EntryIs
  <2>. QED BY <1>1, <1>2, <2>1
<1>3. CASE i = Len(entries) + 1 /\ k = 1
  BY <1>1, <1>3
<1>. QED BY <1>2, <1>3 DEF Place

LEMMA ValidIs ==
  ASSUME EntriesOK, NEW i, NEW k, Valid(i, k)
  PROVE  /\ i \in 1..Len(entries) /\ k \in 1..Len(entries[i].fs)
         /\ Len(entries) \in Nat /\ Len(entries[i].fs) \in Nat
         /\ Place(i, k) /\ Place(i, k + 1)
         /\ entries[i].fs[k] \in Found /\ entries[i].fs[k] \in Externals
         /\ entries[i].fs[k] \in Range(functions)
<1>1. Len(entries) \in Nat /\ DOMAIN entries = 1..Len(entries)
  BY RoomsAre
<1>2. i \in DOMAIN entries /\ k \in DOMAIN entries[i].fs
  BY DEF Valid
<1>3. Len(entries[i].fs) \in Nat /\ DOMAIN entries[i].fs = 1..Len(entries[i].fs)
  BY <1>2, EntryIs
<1>4. Place(i, k) /\ Place(i, k + 1)
  BY <1>2, <1>3 DEF Place
<1>. QED BY <1>1, <1>2, <1>3, <1>4, EntryIs

LEMMA SlotStarts ==
  ASSUME EntriesOK, NEW i, NEW k, Valid(i, k)
  PROVE  /\ SlotStart(i, k) \in Nat
         /\ SlotStart(i, k) + SlotSize <= TablesSize
         /\ \A j, m : Place(j, m) /\ Precedes(i, k, j, m) =>
              SlotStart(j, m) \in Nat /\ SlotStart(i, k) + SlotSize <= SlotStart(j, m)
         /\ \A j : i < j /\ j \in 1..Len(entries) + 1 =>
              SlotStart(i, k) + 2 * SlotSize <= TableStart(j)
<1>1. PICK n \in Nat : n = Len(entries)
  BY RoomsAre
<1>2. PICK l \in Nat : l = Len(entries[i].fs)
  BY ValidIs
<1>3. i \in 1..n /\ k \in 1..l
  BY <1>1, <1>2, ValidIs
<1>4. SlotSize \in Nat \ {0}
  BY StructuresAssumption
<1>5. TableStart(i) \in Nat /\ TableRoom(i) = SlotSize * (l + 1)
  BY <1>1, <1>2, <1>3, TableStarts DEF TableRoom
<1>6. \A p \in Nat : p * SlotSize \in Nat
  BY <1>4
<1>7. SlotStart(i, k) \in Nat
  BY <1>3, <1>5, <1>6 DEF SlotStart
<1>8. SlotStart(i, k) + 2 * SlotSize <= TableStart(i) + TableRoom(i)
  <2>1. (k - 1) * SlotSize + 2 * SlotSize = (k + 1) * SlotSize
    BY <1>3, <1>4
  <2>2. (k + 1) * SlotSize <= (l + 1) * SlotSize
    BY <1>3, <1>4
  <2>. QED BY <1>3, <1>4, <1>5, <1>6, <2>1, <2>2 DEF SlotStart
<1>9. ASSUME NEW j \in 1..n + 1, i < j PROVE SlotStart(i, k) + 2 * SlotSize <= TableStart(j)
  <2>1. TableStart(i) + TableRoom(i) <= TableStart(j) /\ TableStart(j) \in Nat
    BY <1>1, <1>3, <1>9, TableStarts
  <2>2. TableRoom(i) \in Nat
    BY <1>4, <1>5
  <2>. QED BY <1>4, <1>5, <1>7, <1>8, <2>1, <2>2
<1>10. ASSUME NEW j, NEW m, Place(j, m), Precedes(i, k, j, m)
       PROVE  SlotStart(j, m) \in Nat /\ SlotStart(i, k) + SlotSize <= SlotStart(j, m)
  <2>1. j \in 1..n + 1 /\ m \in Nat /\ m >= 1
    BY <1>1, <1>10, PlaceIs
  <2>0. m - 1 \in Nat
    BY <2>1
  <2>2. TableStart(j) \in Nat /\ (m - 1) * SlotSize \in Nat
    BY <1>1, <1>6, <2>0, <2>1, TableStarts
  <2>3. SlotStart(j, m) \in Nat
    BY <2>2 DEF SlotStart
  <2>4. CASE i < j
    <3>1. SlotStart(i, k) + 2 * SlotSize <= TableStart(j)
      BY <1>9, <2>1, <2>4
    <3>. QED BY <1>4, <1>7, <2>2, <2>3, <3>1 DEF SlotStart
  <2>5. CASE i = j /\ k < m
    <3>1. (k - 1) * SlotSize + SlotSize = k * SlotSize /\ k * SlotSize <= (m - 1) * SlotSize
      BY <1>3, <1>4, <2>1, <2>5
    <3>. QED BY <1>3, <1>4, <1>5, <1>6, <2>2, <2>3, <2>5, <3>1 DEF SlotStart
  <2>. QED BY <1>10, <2>3, <2>4, <2>5 DEF Precedes
<1>11. SlotStart(i, k) + SlotSize <= TablesSize
  <2>1. n + 1 \in 1..n + 1 /\ i < n + 1
    BY <1>3
  <2>2. SlotStart(i, k) + 2 * SlotSize <= TablesSize
    BY <1>1, <1>9, <2>1, TableStarts
  <2>. QED BY <1>4, <1>7, <2>2, SizesAre
<1>. QED BY <1>1, <1>7, <1>9, <1>10, <1>11

LEMMA InEarlier ==
  ASSUME NEW i, NEW k, NEW f
  PROVE  f \in Already(i, k) <=> \/ \E j \in 1 .. i - 1 : f \in Range(entries[j].fs)
                                \/ \E m \in 1 .. k - 1 : f = entries[i].fs[m]
BY DEF Already

LEMMA AlreadyAre ==
  ASSUME EntriesOK
  PROVE  /\ Already(1, 1) = {}
         /\ Already(Len(entries) + 1, 1) = Found
         /\ \A i \in DOMAIN entries : Already(i, Len(entries[i].fs) + 1) = Already(i + 1, 1)
<1>1. PICK n \in Nat : n = Len(entries) /\ DOMAIN entries = 1..n
  BY RoomsAre
<1>2. 1 .. 1 - 1 = {} /\ 1 .. (n + 1) - 1 = 1..n
  OBVIOUS
<1>3. Already(1, 1) = {}
  BY <1>2 DEF Already
<1>4. Already(n + 1, 1) = Found
  BY <1>1, <1>2 DEF Already, Found
<1>5. ASSUME NEW i \in DOMAIN entries
      PROVE  Already(i, Len(entries[i].fs) + 1) = Already(i + 1, 1)
  <2>1. PICK l \in Nat : l = Len(entries[i].fs) /\ DOMAIN entries[i].fs = 1..l
    BY EntryIs
  <2>2. 1 .. (l + 1) - 1 = 1..l /\ 1 .. (i + 1) - 1 = (1 .. i - 1) \union {i}
    BY <1>1
  <2>3. ASSUME NEW f
        PROVE  (\E m \in 1 .. (l + 1) - 1 : f = entries[i].fs[m]) <=> f \in Range(entries[i].fs)
    BY <2>1, <2>2 DEF Range
  <2>4. ASSUME NEW f PROVE f \in Already(i, l + 1) <=> f \in Already(i + 1, 1)
    <3>1. f \in Already(i, l + 1) <=> \/ \E j \in 1 .. i - 1 : f \in Range(entries[j].fs)
                                     \/ f \in Range(entries[i].fs)
      BY <2>3, InEarlier
    <3>2. f \in Already(i + 1, 1) <=> \E j \in (1 .. i - 1) \union {i} : f \in Range(entries[j].fs)
      BY <1>2, <2>2, InEarlier
    <3>. QED BY <3>1, <3>2
  <2>. QED BY <2>1, <2>4
<1>. QED BY <1>1, <1>3, <1>4, <1>5

LEMMA AlreadyNext ==
  ASSUME EntriesOK, NEW i, NEW k, Valid(i, k)
  PROVE  /\ Already(i, k + 1) = Already(i, k) \union {entries[i].fs[k]}
         /\ entries[i].fs[k] \notin Already(i, k)
<1>1. i \in DOMAIN entries /\ i \in Nat /\ k \in DOMAIN entries[i].fs
  BY ValidIs DEF Valid
<1>2. PICK l \in Nat : l = Len(entries[i].fs) /\ DOMAIN entries[i].fs = 1..l
  BY <1>1, EntryIs
<1>3. 1 .. (k + 1) - 1 = (1 .. k - 1) \union {k}
  BY <1>1, <1>2
<1>4. Already(i, k + 1) = Already(i, k) \union {entries[i].fs[k]}
  <2>1. ASSUME NEW f
        PROVE  f \in Already(i, k + 1) <=> f \in Already(i, k) \/ f = entries[i].fs[k]
    <3>1. f \in Already(i, k + 1) <=> \/ \E j \in 1 .. i - 1 : f \in Range(entries[j].fs)
                                     \/ \E m \in (1 .. k - 1) \union {k} : f = entries[i].fs[m]
      BY <1>3, InEarlier
    <3>2. f \in Already(i, k) <=> \/ \E j \in 1 .. i - 1 : f \in Range(entries[j].fs)
                                 \/ \E m \in 1 .. k - 1 : f = entries[i].fs[m]
      BY InEarlier
    <3>. QED BY <3>1, <3>2
  <2>. QED BY <2>1
<1>5. \A m \in 1 .. k - 1 : entries[i].fs[m] # entries[i].fs[k]
  <2>1. IsInjective(entries[i].fs)
    BY <1>1 DEF EntriesOK
  <2>2. \A m \in 1 .. k - 1 : m \in DOMAIN entries[i].fs /\ m # k
    BY <1>1, <1>2
  <2>. QED BY <1>1, <2>1, <2>2 DEF IsInjective
<1>6. \A j \in 1 .. i - 1 : entries[i].fs[k] \notin Range(entries[j].fs)
  <2>1. \A j \in 1 .. i - 1 : j \in DOMAIN entries /\ j # i
    BY <1>1, RoomsAre
  <2>2. entries[i].fs[k] \in Range(entries[i].fs)
    BY <1>1 DEF Range
  <2>. QED BY <1>1, <2>1, <2>2 DEF EntriesOK
<1>. QED BY <1>4, <1>5, <1>6, InEarlier

LEMMA AlreadyFound ==
  ASSUME EntriesOK, NEW i, NEW k, Place(i, k)
  PROVE  /\ Already(i, k) \subseteq Found /\ IsFiniteSet(Already(i, k))
<1>1. i \in 1..Len(entries) + 1 /\ Len(entries) \in Nat /\ DOMAIN entries = 1..Len(entries)
  BY PlaceIs, RoomsAre
<1>2. \A j \in 1 .. i - 1 : j \in DOMAIN entries
  BY <1>1
<1>3. \A j \in 1 .. i - 1 : Range(entries[j].fs) \subseteq Found
  BY <1>2 DEF Found
<1>4. \A m \in 1 .. k - 1 : entries[i].fs[m] \in Found
  <2>1. CASE i \in DOMAIN entries /\ k \in 1..Len(entries[i].fs) + 1
    <3>1. Len(entries[i].fs) \in Nat /\ DOMAIN entries[i].fs = 1..Len(entries[i].fs)
      BY <2>1, EntryIs
    <3>2. \A m \in 1 .. k - 1 : m \in DOMAIN entries[i].fs
      BY <2>1, <3>1
    <3>. QED BY <2>1, <3>2, EntryIs
  <2>2. CASE k = 1
    BY <2>2
  <2>. QED BY <2>1, <2>2 DEF Place
<1>5. Already(i, k) \subseteq Found
  BY <1>3, <1>4, InEarlier
<1>. QED BY <1>5, RoomsAre, FS_Subset

LEMMA AlreadyGrows ==
  ASSUME EntriesOK, NEW i, NEW k, Valid(i, k), NEW j, NEW m, Place(j, m), Precedes(i, k, j, m)
  PROVE  Already(i, k + 1) \subseteq Already(j, m)
<1>1. i \in DOMAIN entries /\ i \in Nat /\ k \in DOMAIN entries[i].fs
  BY ValidIs DEF Valid
<1>2. PICK l \in Nat : l = Len(entries[i].fs) /\ DOMAIN entries[i].fs = 1..l
  BY <1>1, EntryIs
<1>3. j \in Nat /\ m \in Nat
  BY PlaceIs
<1>4. CASE i < j
  <2>1. \A q \in 1 .. i - 1 : q \in 1 .. j - 1
    BY <1>1, <1>3, <1>4
  <2>2. \A q \in 1 .. (k + 1) - 1 : q \in DOMAIN entries[i].fs
    BY <1>1, <1>2
  <2>3. \A q \in 1 .. (k + 1) - 1 : entries[i].fs[q] \in Range(entries[i].fs)
    BY <2>2 DEF Range
  <2>4. i \in 1 .. j - 1
    BY <1>1, <1>3, <1>4, ValidIs
  <2>5. ASSUME NEW f, f \in Already(i, k + 1) PROVE f \in Already(j, m)
    <3>1. \/ \E q \in 1 .. i - 1 : f \in Range(entries[q].fs)
          \/ f \in Range(entries[i].fs)
      BY <2>3, <2>5, InEarlier
    <3>2. \E q \in 1 .. j - 1 : f \in Range(entries[q].fs)
      BY <2>1, <2>4, <3>1
    <3>. QED BY <3>2, InEarlier
  <2>. QED BY <2>5
<1>5. CASE i = j /\ k < m
  <2>1. \A q \in 1 .. (k + 1) - 1 : q \in 1 .. m - 1
    BY <1>1, <1>2, <1>3, <1>5
  <2>. QED BY <1>5, <2>1 DEF Already
<1>. QED BY <1>4, <1>5 DEF Precedes

LEMMA NameStarts ==
  ASSUME EntriesOK
  PROVE  /\ NameStart(1, 1) = 0
         /\ \A i, k : Place(i, k) => NameStart(i, k) \in Nat
         /\ \A i, k : Valid(i, k) =>
              /\ NameStart(i, k + 1) = NameStart(i, k) + NameRoom(entries[i].fs[k])
              /\ NameRoom(entries[i].fs[k]) \in Nat \ {0}
              /\ NameStart(i, k) + NameRoom(entries[i].fs[k]) <= NamesSize
         /\ \A i, k, j, m : Valid(i, k) /\ Place(j, m) /\ Precedes(i, k, j, m) =>
              NameStart(i, k) + NameRoom(entries[i].fs[k]) <= NameStart(j, m)
         /\ \A i \in DOMAIN entries : NameStart(i, Len(entries[i].fs) + 1) = NameStart(i + 1, 1)
<1>1. \A f \in Found : NameRooms[f] = NameRoom(f) /\ NameRooms[f] \in Nat
  BY RoomsAre DEF NameRooms
<1>2. NameStart(1, 1) = 0
  <2>1. Sum(NameRooms, {}) = 0
    BY FS_EmptySet, SumFirst
  <2>. QED BY <2>1, AlreadyAre, Zenon DEF NameStart
<1>3. ASSUME NEW i, NEW k, Place(i, k) PROVE NameStart(i, k) \in Nat
  <2>1. \A f \in Already(i, k) : NameRooms[f] \in Nat
    BY <1>1, <1>3, AlreadyFound
  <2>2. IsFiniteSet(Already(i, k))
    BY <1>3, AlreadyFound
  <2>. QED BY <2>1, <2>2, SumType DEF NameStart
<1>4. ASSUME NEW i, NEW k, Valid(i, k)
      PROVE  /\ NameStart(i, k + 1) = NameStart(i, k) + NameRoom(entries[i].fs[k])
             /\ NameRoom(entries[i].fs[k]) \in Nat \ {0}
  <2>1. PICK f \in Found : f = entries[i].fs[k] /\ f \in Externals
    BY <1>4, ValidIs
  <2>2. /\ Place(i, k) /\ Already(i, k + 1) = Already(i, k) \union {f}
        /\ f \notin Already(i, k)
    BY <1>4, <2>1, ValidIs, AlreadyNext
  <2>3. IsFiniteSet(Already(i, k)) /\ \A g \in Already(i, k) : NameRooms[g] \in Nat
    BY <1>1, <2>2, AlreadyFound
  <2>4. Sum(NameRooms, Already(i, k) \union {f}) = NameRooms[f] + Sum(NameRooms, Already(i, k))
    BY <1>1, <2>2, <2>3, SumAdd
  <2>5. NameRoom(f) \in Nat \ {0}
    BY <2>1, NamesAssumption DEF NameRoom
  <2>6. PICK a \in Nat, b \in Nat : a = NameStart(i, k) /\ b = NameRooms[f]
    BY <1>1, <1>3, <2>2
  <2>7. NameStart(i, k + 1) = b + a
    BY <2>2, <2>4, <2>6, Zenon DEF NameStart
  <2>. QED BY <1>1, <2>1, <2>5, <2>6, <2>7
<1>5. ASSUME NEW i, NEW k, Valid(i, k), NEW S, Already(i, k + 1) \subseteq S, S \subseteq Found
      PROVE  NameStart(i, k) + NameRoom(entries[i].fs[k]) <= Sum(NameRooms, S)
  <2>1. IsFiniteSet(S) /\ \A f \in S : NameRooms[f] \in Nat
    BY <1>1, <1>5, RoomsAre, FS_Subset
  <2>2. Sum(NameRooms, Already(i, k + 1)) <= Sum(NameRooms, S)
    BY <1>5, <2>1, SumSubset
  <2>. QED BY <1>4, <1>5, <2>2 DEF NameStart
<1>6. ASSUME NEW i, NEW k, Valid(i, k)
      PROVE  NameStart(i, k) + NameRoom(entries[i].fs[k]) <= NamesSize
  <2>1. Already(i, k + 1) \subseteq Found
    BY <1>6, ValidIs, AlreadyFound
  <2>2. Sum(NameRooms, Found) = NamesSize
    BY DEF NamesSize, NameRooms, Sum
  <2>. QED BY <1>5, <1>6, <2>1, <2>2
<1>7. ASSUME NEW i, NEW k, NEW j, NEW m, Valid(i, k), Place(j, m), Precedes(i, k, j, m)
      PROVE  NameStart(i, k) + NameRoom(entries[i].fs[k]) <= NameStart(j, m)
  <2>1. Already(i, k + 1) \subseteq Already(j, m) /\ Already(j, m) \subseteq Found
    BY <1>7, AlreadyGrows, AlreadyFound
  <2>. QED BY <1>5, <1>7, <2>1 DEF NameStart
<1>8. \A i \in DOMAIN entries : NameStart(i, Len(entries[i].fs) + 1) = NameStart(i + 1, 1)
  BY AlreadyAre, Zenon DEF NameStart
<1>. QED BY <1>2, <1>3, <1>4, <1>6, <1>7, <1>8

-----------------------------------------------------------------------------
(* The walk through the imports *)

\* The place the walk is at
Upcoming == IF walk.f = 0 THEN 1 ELSE walk.f

WalkInv ==
    /\ walk = [dll |-> walk.dll, f |-> walk.f, slot |-> walk.slot, table |-> walk.table,
               name |-> walk.name, module |-> walk.module, hint |-> walk.hint]
    /\ \/ /\ walk.dll \in DOMAIN entries
          /\ walk.f \in 0 .. Len(entries[walk.dll].fs) + 1
       \/ walk.dll = Len(entries) + 1 /\ walk.f = 0
    /\ walk.table = TableStart(walk.dll) /\ walk.module = ModuleStart(walk.dll)
    /\ walk.slot = SlotStart(walk.dll, Upcoming)
    /\ walk.name = NameStart(walk.dll, Upcoming)
    /\ walk.hint = 1 + Cardinality(Already(walk.dll, Upcoming))

DescriptorOf(i) == [int    |-> VA(IntAt + TableStart(i)),
                    iat    |-> VA(IatAt + TableStart(i)),
                    module |-> VA(ModulesAt + ModuleStart(i))]

\* What the walk has written when it comes to the f-th function of the d-th dll
SlotsRight(t0, T, d, f) ==
    /\ \A i \in DOMAIN entries : \A k \in DOMAIN entries[i].fs : Precedes(i, k, d, f) =>
         /\ t0 + SlotStart(i, k) \in DOMAIN T
         /\ T[t0 + SlotStart(i, k)] = VA(NamesAt + NameStart(i, k))
    /\ \A x \in DOMAIN T : \E i \in DOMAIN entries : \E k \in DOMAIN entries[i].fs :
         Precedes(i, k, d, f) /\ x = t0 + SlotStart(i, k)

NamesRight(T, d, f) ==
    /\ \A i \in DOMAIN entries : \A k \in DOMAIN entries[i].fs : Precedes(i, k, d, f) =>
         /\ NamesAt + NameStart(i, k) \in DOMAIN T
         /\ T[NamesAt + NameStart(i, k)].f = entries[i].fs[k]
    /\ \A x \in DOMAIN T : \E i \in DOMAIN entries : \E k \in DOMAIN entries[i].fs :
         Precedes(i, k, d, f) /\ x = NamesAt + NameStart(i, k)

AddressesRight(T, d, f) ==
    /\ \A i \in DOMAIN entries : \A k \in DOMAIN entries[i].fs : Precedes(i, k, d, f) =>
         /\ entries[i].fs[k] \in DOMAIN T
         /\ T[entries[i].fs[k]] = VA(IatAt + SlotStart(i, k))
    /\ \A x \in DOMAIN T : \E i \in DOMAIN entries : \E k \in DOMAIN entries[i].fs :
         Precedes(i, k, d, f) /\ x = entries[i].fs[k]

ModulesRight(T, d) ==
    /\ \A i \in DOMAIN entries : i < d =>
         /\ ModulesAt + ModuleStart(i) \in DOMAIN T
         /\ T[ModulesAt + ModuleStart(i)] = entries[i].dll
    /\ \A x \in DOMAIN T : \E i \in DOMAIN entries : i < d /\ x = ModulesAt + ModuleStart(i)

DescriptorsRight(s, d, f) ==
    /\ Len(s) = IF f = 0 THEN d - 1 ELSE d
    /\ s = [i \in 1..Len(s) |-> DescriptorOf(i)]

TablesInv ==
    /\ tables = [descriptors |-> tables.descriptors, int |-> tables.int, iat |-> tables.iat,
                 names |-> tables.names, modules |-> tables.modules]
    /\ DescriptorsRight(tables.descriptors, walk.dll, walk.f)
    /\ SlotsRight(IntAt, tables.int, walk.dll, walk.f)
    /\ SlotsRight(IatAt, tables.iat, walk.dll, walk.f)
    /\ NamesRight(tables.names, walk.dll, walk.f)
    /\ ModulesRight(tables.modules, walk.dll)
    /\ AddressesRight(addr, walk.dll, walk.f)

\* Before the walk nothing is there, and after it everything is.
Untouched == walk = WalkStart /\ tables = NoTables /\ addr = [f \in {} |-> 0]
StagesInv ==
    /\ stage \in {"text", "idata", "data", "headers", "fill", "patch", "copytext", "copydata",
                  "crash", "done"}
    /\ stage \in {"text", "idata", "data", "headers"} => writes = {} /\ Untouched
    /\ stage = "fill" => HasIdata
    /\ ~HasIdata => Untouched
    /\ stage \in {"patch", "copytext", "copydata", "done"} /\ HasIdata =>
         walk.dll = Len(entries) + 1
    /\ stage = "copydata" => data > 0

CodeInv ==
    /\ code = [f \in Range(functions) |->
                 IF stage \in {"copytext", "copydata", "done"} /\ f \in Found
                 THEN addr[f] + ImageBase ELSE 0]

\* What may be written
HeadersWritten == [at |-> 0, size |-> HeadersFixed + Len(sections) * SectionHeader,
                   what |-> "headers"]
TextWritten == [at |-> HeadersSize, size |-> text, what |-> "text"]
DataWritten == [at |-> DataPlace, size |-> data, what |-> "data"]
DescriptorWritten(i) == [at |-> Idata + (i - 1) * Descriptor, size |-> Descriptor,
                         what |-> "descriptor"]
ModuleWritten(i) == [at |-> Idata + ModulesAt + ModuleStart(i), size |-> ModuleRoom(i),
                     what |-> "module"]
NameWritten(i, k) == [at |-> Idata + NamesAt + NameStart(i, k),
                      size |-> NameRoom(entries[i].fs[k]), what |-> "name"]
IntWritten(i, k) == [at |-> Idata + IntAt + SlotStart(i, k), size |-> SlotSize, what |-> "int"]
IatWritten(i, k) == [at |-> Idata + IatAt + SlotStart(i, k), size |-> SlotSize, what |-> "iat"]

ImportWritten(w) ==
    \E i \in DOMAIN entries :
      \/ w = DescriptorWritten(i) \/ w = ModuleWritten(i)
      \/ \E k \in DOMAIN entries[i].fs :
           w = NameWritten(i, k) \/ w = IntWritten(i, k) \/ w = IatWritten(i, k)

Planned(w) == \/ w = HeadersWritten \/ w = TextWritten
              \/ data > 0 /\ w = DataWritten
              \/ HasIdata /\ ImportWritten(w)

WritesInv == \A w \in writes : Planned(w)

ImageInv == /\ ProgramInv /\ SectionsInv /\ WalkInv /\ TablesInv /\ StagesInv
            /\ CodeInv /\ WritesInv

\* What depends only on the program
LEMMA Static ==
  ASSUME UNCHANGED <<text, data, functions, entries>>
  PROVE  /\ Found' = Found /\ (HasIdata' <=> HasIdata) /\ IdataSize' = IdataSize
         /\ DescriptorsSize' = DescriptorsSize /\ TablesSize' = TablesSize
         /\ NamesSize' = NamesSize /\ ModulesSize' = ModulesSize
         /\ \A i : TableStart(i)' = TableStart(i) /\ ModuleStart(i)' = ModuleStart(i)
         /\ \A i : ModuleRoom(i)' = ModuleRoom(i)
         /\ \A i, k : /\ SlotStart(i, k)' = SlotStart(i, k) /\ Already(i, k)' = Already(i, k)
                      /\ NameStart(i, k)' = NameStart(i, k)
         /\ IntAt' = IntAt /\ NamesAt' = NamesAt /\ IatAt' = IatAt /\ ModulesAt' = ModulesAt
<1>1. Found' = Found
  BY DEF Found
<1>2. \A i : TableRoom(i)' = TableRoom(i) /\ ModuleRoom(i)' = ModuleRoom(i)
  BY DEF TableRoom, ModuleRoom
<1>3. TableRooms' = TableRooms /\ ModuleRooms' = ModuleRooms
  BY <1>2 DEF TableRooms, ModuleRooms
<1>4. NameRooms' = NameRooms
  BY <1>1 DEF NameRooms
<1>5. TablesSize' = TablesSize
  <2>1. TablesSize = Sum(TableRooms, DOMAIN entries)
    BY DEF TablesSize, TableRooms, Sum
  <2>2. TablesSize' = Sum(TableRooms', DOMAIN entries')
    BY DEF TablesSize, TableRooms, Sum
  <2>. QED BY <1>3, <2>1, <2>2
<1>6. ModulesSize' = ModulesSize
  <2>1. ModulesSize = Sum(ModuleRooms, DOMAIN entries)
    BY DEF ModulesSize, ModuleRooms, Sum
  <2>2. ModulesSize' = Sum(ModuleRooms', DOMAIN entries')
    BY DEF ModulesSize, ModuleRooms, Sum
  <2>. QED BY <1>3, <2>1, <2>2
<1>7. NamesSize' = NamesSize
  <2>1. NamesSize = Sum(NameRooms, Found)
    BY DEF NamesSize, NameRooms, Sum
  <2>2. NamesSize' = Sum(NameRooms', Found')
    BY DEF NamesSize, NameRooms, Sum
  <2>. QED BY <1>1, <1>4, <2>1, <2>2
<1>8. DescriptorsSize' = DescriptorsSize
  BY DEF DescriptorsSize
<1>9. IdataSize' = IdataSize /\ (HasIdata' <=> HasIdata)
  BY <1>5, <1>6, <1>7, <1>8 DEF IdataSize, HasIdata
<1>10. \A i : TableStart(i)' = TableStart(i) /\ ModuleStart(i)' = ModuleStart(i)
  BY <1>3 DEF TableStart, ModuleStart
<1>11. \A i, k : Already(i, k)' = Already(i, k)
  BY DEF Already
<1>12. \A i, k : SlotStart(i, k)' = SlotStart(i, k) /\ NameStart(i, k)' = NameStart(i, k)
  BY <1>4, <1>10, <1>11 DEF SlotStart, NameStart
<1>13. IntAt' = IntAt /\ NamesAt' = NamesAt /\ IatAt' = IatAt /\ ModulesAt' = ModulesAt
  BY <1>5, <1>7, <1>8 DEF IntAt, NamesAt, IatAt, ModulesAt
<1>. QED BY <1>1, <1>2, <1>5, <1>6, <1>7, <1>8, <1>9, <1>10, <1>11, <1>12, <1>13

LEMMA SequencesOf ==
  ASSUME NEW S, IsFiniteSet(S), NEW f \in SetToSeqs(S)
  PROVE  f \in Seq(S) /\ IsInjective(f) /\ Range(f) = S
<1>1. PICK n \in Nat : n = Cardinality(S)
  BY FS_CardinalityType
<1>2. f \in [1..n -> S] /\ \A i, j \in 1..n : i # j => f[i] # f[j]
  BY <1>1 DEF SetToSeqs
<1>3. f \in Seq(S)
  BY <1>2
<1>4. IsInjective(f)
  BY <1>2 DEF IsInjective
<1>5. Range(f) = S
  <2>1. f \in Injection(1..n, S)
    BY <1>2, <1>4 DEF Injection, IsInjective
  <2>2. IsFiniteSet(1..n) /\ Cardinality(1..n) = n
    BY FS_Interval
  <2>3. f \in Surjection(1..n, S)
    BY <1>1, <2>1, <2>2, FS_Surjection, FS_Injection
  <2>. QED BY <1>2, <2>3 DEF Surjection, Range
<1>. QED BY <1>3, <1>4, <1>5

LEMMA ProgramStart ==
  ASSUME ImageInit
  PROVE  ProgramInv
<1>1. PICK S \in SUBSET Externals, home \in [Externals -> Dlls \union {NULL}] :
        functions \in SetToSeqs(S) /\ entries \in Imports(S, home)
  BY DEF ImageInit
<1>2. IsFiniteSet(S) /\ \A T \in SUBSET S : IsFiniteSet(T)
  BY <1>1, NamesAssumption, FS_Subset
<1>3. functions \in Seq(S) /\ IsInjective(functions) /\ Range(functions) = S
  BY <1>1, <1>2, SequencesOf
<1>4. functions \in Seq(Externals)
  <2>1. PICK n \in Nat : functions \in [1..n -> S]
    BY <1>3
  <2>. QED BY <1>1, <2>1
<1>. DEFINE Lists == UNION {SetToSeqs(T) : T \in SUBSET S \ {{}}}
<1>5. PICK n \in Nat : entries \in [1..n -> [dll : Dlls, fs : Lists]]
  <2>1. PICK l \in 0..Cardinality(Dlls) : entries \in [1..l -> [dll : Dlls, fs : Lists]]
    <3>1. entries \in UNION {[1..m -> [dll : Dlls, fs : Lists]] : m \in 0..Cardinality(Dlls)}
      BY <1>1, Zenon DEF Imports
    <3>. HIDE DEF Lists
    <3>2. PICK k \in 0..Cardinality(Dlls) : entries \in [1..k -> [dll : Dlls, fs : Lists]]
      BY <3>1
    <3>. QED BY <3>2
  <2>2. l \in Nat
    OBVIOUS
  <2>. HIDE DEF Lists
  <2>. QED BY <2>1, <2>2
<1>6. ASSUME NEW fs \in Lists
      PROVE  fs \in Seq(Externals) /\ IsInjective(fs) /\ Range(fs) \subseteq S
  <2>1. PICK T \in SUBSET S : fs \in SetToSeqs(T)
    BY <1>6
  <2>2. fs \in Seq(T) /\ IsInjective(fs) /\ Range(fs) = T
    BY <1>2, <2>1, SequencesOf
  <2>3. PICK l \in Nat : fs \in [1..l -> T]
    BY <2>2
  <2>. QED BY <1>1, <2>2, <2>3
<1>7. \A i \in 1..n : entries[i].dll \in Dlls /\ entries[i].fs \in Lists
  BY <1>5
<1>. HIDE DEF Lists
<1>8. entries \in Seq([dll : Dlls, fs : Seq(Externals)])
  <2>1. \A i \in 1..n : entries[i] \in [dll : Dlls, fs : Seq(Externals)]
    BY <1>5, <1>6
  <2>2. entries \in [1..n -> [dll : Dlls, fs : Seq(Externals)]]
    BY <1>5, <2>1
  <2>3. PICK R : R = [dll : Dlls, fs : Seq(Externals)]
    OBVIOUS
  <2>4. entries \in [1..n -> R]
    BY <2>2, <2>3
  <2>5. entries \in Seq(R)
    BY <2>4
  <2>. QED BY <2>3, <2>5
<1>9. ASSUME NEW i \in DOMAIN entries, NEW j \in DOMAIN entries, i # j
      PROVE  Range(entries[i].fs) \intersect Range(entries[j].fs) = {}
  <2>1. entries[i].dll # entries[j].dll
    BY <1>1, <1>9 DEF Imports
  <2>2. \A f \in S : /\ f \in Range(entries[i].fs) <=> home[f] = entries[i].dll
                     /\ f \in Range(entries[j].fs) <=> home[f] = entries[j].dll
    BY <1>1 DEF Imports
  <2>3. Range(entries[i].fs) \subseteq S
    BY <1>5, <1>6, <1>7
  <2>. QED BY <2>1, <2>2, <2>3
<1>10. EntriesOK
  BY <1>3, <1>4, <1>5, <1>6, <1>7, <1>8, <1>9 DEF EntriesOK
<1>. QED BY <1>10 DEF ImageInit, ProgramInv

LEMMA UntouchedIs ==
  ASSUME EntriesOK, Untouched
  PROVE  WalkInv /\ TablesInv
<1>1. PICK n \in Nat : n = Len(entries) /\ DOMAIN entries = 1..n
  BY RoomsAre
<1>2. /\ walk.dll = 1 /\ walk.f = 0 /\ walk.slot = 0 /\ walk.table = 0 /\ walk.name = 0
      /\ walk.module = 0 /\ walk.hint = 1
      /\ walk = [dll |-> walk.dll, f |-> walk.f, slot |-> walk.slot, table |-> walk.table,
                 name |-> walk.name, module |-> walk.module, hint |-> walk.hint]
  BY DEF Untouched, WalkStart
<1>3. WalkInv
  <2>1. \/ /\ walk.dll \in DOMAIN entries
           /\ walk.f \in 0 .. Len(entries[walk.dll].fs) + 1
        \/ walk.dll = Len(entries) + 1 /\ walk.f = 0
    <3>1. CASE n = 0
      BY <1>1, <1>2, <3>1
    <3>2. CASE n > 0
      <4>1. 1 \in DOMAIN entries
        BY <1>1, <3>2
      <4>2. Len(entries[1].fs) \in Nat
        BY <4>1, EntryIs
      <4>. QED BY <1>2, <4>1, <4>2
    <3>. QED BY <3>1, <3>2
  <2>2. Upcoming = 1
    BY <1>2 DEF Upcoming
  <2>3. TableStart(1) = 0 /\ ModuleStart(1) = 0 /\ NameStart(1, 1) = 0
    BY TableStarts, ModuleStarts, NameStarts
  <2>4. SlotStart(1, 1) = 0
    BY <2>3, StructuresAssumption DEF SlotStart
  <2>5. Cardinality(Already(1, 1)) = 0
    BY AlreadyAre, FS_EmptySet
  <2>. QED BY <1>2, <2>1, <2>2, <2>3, <2>4, <2>5 DEF WalkInv
<1>4. \A i \in DOMAIN entries : ~(i < 1) /\ \A k \in DOMAIN entries[i].fs : ~Precedes(i, k, 1, 0)
  <2>1. ASSUME NEW i \in DOMAIN entries, NEW k \in DOMAIN entries[i].fs
        PROVE  ~Precedes(i, k, 1, 0)
    <3>1. i \in 1..n /\ k \in Nat
      BY <1>1, <2>1, EntryIs
    <3>. QED BY <3>1 DEF Precedes
  <2>. QED BY <1>1, <2>1
<1>5. /\ tables = [descriptors |-> tables.descriptors, int |-> tables.int, iat |-> tables.iat,
                   names |-> tables.names, modules |-> tables.modules]
      /\ tables.descriptors = <<>> /\ DOMAIN tables.int = {} /\ DOMAIN tables.iat = {}
      /\ DOMAIN tables.names = {} /\ DOMAIN tables.modules = {} /\ DOMAIN addr = {}
  BY DEF Untouched, NoTables
<1>6. DescriptorsRight(<<>>, 1, 0)
  <2>1. Len(<<>>) = 0 /\ <<>> = [i \in 1..0 |-> DescriptorOf(i)]
    OBVIOUS
  <2>. QED BY <2>1 DEF DescriptorsRight
<1>7. ASSUME NEW T, DOMAIN T = {}
      PROVE  /\ \A t0 : SlotsRight(t0, T, 1, 0)
             /\ NamesRight(T, 1, 0) /\ ModulesRight(T, 1) /\ AddressesRight(T, 1, 0)
  BY <1>4, <1>7 DEF SlotsRight, NamesRight, ModulesRight, AddressesRight
<1>. QED BY <1>2, <1>3, <1>5, <1>6, <1>7 DEF TablesInv

LEMMA ImageStart ==
  ASSUME ImageInit
  PROVE  ImageInv
<1>1. ProgramInv
  BY ProgramStart
<1>2. SectionsInv
  BY DEF ImageInit, SectionsInv
<1>3. Untouched /\ stage = "text" /\ writes = {}
  BY DEF ImageInit, Untouched
<1>4. WalkInv /\ TablesInv
  BY <1>1, <1>3, UntouchedIs DEF ProgramInv
<1>5. StagesInv /\ WritesInv
  BY <1>3 DEF StagesInv, WritesInv
<1>6. CodeInv
  BY DEF ImageInit, CodeInv
<1>. QED BY <1>1, <1>2, <1>4, <1>5, <1>6 DEF ImageInv

-----------------------------------------------------------------------------
(* The steps *)

LEMMA ProgramKept ==
  ASSUME ProgramInv, UNCHANGED <<text, data, functions, entries>>
  PROVE  ProgramInv' /\ EntriesOK'
BY DEF ProgramInv, EntriesOK

LEMMA SectionsKept ==
  ASSUME UNCHANGED <<text, data, functions, entries>>
  PROVE  /\ TextSection' = TextSection /\ IdataSection' = IdataSection
         /\ DataSection' = DataSection /\ WithIdata' = WithIdata
<1>1. TextSection' = TextSection
  BY DEF TextSection
<1>2. IdataSection' = IdataSection
  BY <1>1, Static DEF IdataSection, Behind
<1>3. DataSection' = DataSection
  BY <1>1, <1>2, Static DEF DataSection, Behind
<1>. QED BY <1>1, <1>2, <1>3, Static DEF WithIdata

\* Where things are, once the sections are known
LEMMA PlacesKept ==
  ASSUME UNCHANGED <<text, data, functions, entries, sections>>
  PROVE  /\ \A x : VA(x)' = VA(x)
         /\ \A i : DescriptorOf(i)' = DescriptorOf(i)
         /\ Idata' = Idata
         /\ \A w : Planned(w)' <=> Planned(w)
<1>1. \A x : VA(x)' = VA(x)
  BY DEF VA
<1>2. \A i : DescriptorOf(i)' = DescriptorOf(i)
  BY <1>1, Static DEF DescriptorOf, VA
<1>3. Idata' = Idata /\ DataPlace' = DataPlace
  BY DEF Idata, DataPlace
<1>4. HeadersWritten' = HeadersWritten /\ TextWritten' = TextWritten
      /\ DataWritten' = DataWritten
  BY <1>3 DEF HeadersWritten, TextWritten, DataWritten
<1>5. \A i : DescriptorWritten(i)' = DescriptorWritten(i) /\ ModuleWritten(i)' = ModuleWritten(i)
  BY <1>3, Static DEF DescriptorWritten, ModuleWritten
<1>6. \A i, k : /\ NameWritten(i, k)' = NameWritten(i, k)
                /\ IntWritten(i, k)' = IntWritten(i, k)
                /\ IatWritten(i, k)' = IatWritten(i, k)
  BY <1>3, Static DEF NameWritten, IntWritten, IatWritten
<1>7. \A w : ImportWritten(w)' <=> ImportWritten(w)
  BY <1>5, <1>6 DEF ImportWritten
<1>8. \A w : Planned(w)' <=> Planned(w)
  BY <1>4, <1>7, Static DEF Planned
<1>. QED BY <1>1, <1>2, <1>3, <1>8

LEMMA RightKept ==
  ASSUME UNCHANGED <<text, data, functions, entries, sections>>
  PROVE  /\ \A t0, T, d, f : SlotsRight(t0, T, d, f) => SlotsRight(t0, T, d, f)'
         /\ \A T, d, f : NamesRight(T, d, f) => NamesRight(T, d, f)'
         /\ \A T, d, f : AddressesRight(T, d, f) => AddressesRight(T, d, f)'
         /\ \A T, d : ModulesRight(T, d) => ModulesRight(T, d)'
         /\ \A s, d, f : DescriptorsRight(s, d, f) => DescriptorsRight(s, d, f)'
<1>1. \A i, k, d, f : Precedes(i, k, d, f)' <=> Precedes(i, k, d, f)
  BY DEF Precedes
<1>2. \A t0, T, d, f : SlotsRight(t0, T, d, f) => SlotsRight(t0, T, d, f)'
  BY <1>1, PlacesKept, Static DEF SlotsRight, VA
<1>3. \A T, d, f : NamesRight(T, d, f) => NamesRight(T, d, f)'
  BY <1>1, Static DEF NamesRight
<1>4. \A T, d, f : AddressesRight(T, d, f) => AddressesRight(T, d, f)'
  BY <1>1, PlacesKept, Static DEF AddressesRight, VA
<1>5. \A T, d : ModulesRight(T, d) => ModulesRight(T, d)'
  BY Static DEF ModulesRight
<1>6. \A s, d, f : DescriptorsRight(s, d, f) => DescriptorsRight(s, d, f)'
  BY PlacesKept DEF DescriptorsRight
<1>. QED BY <1>2, <1>3, <1>4, <1>5, <1>6

LEMMA WalkKept ==
  ASSUME UNCHANGED <<text, data, functions, entries, sections, walk, tables, addr>>
  PROVE  /\ WalkInv => WalkInv'
         /\ TablesInv => TablesInv'
<1>1. Upcoming' = Upcoming
  BY DEF Upcoming
<1>2. WalkInv => WalkInv'
  BY <1>1, Static DEF WalkInv
<1>3. IntAt' = IntAt /\ IatAt' = IatAt
  BY Static
<1>. QED BY <1>2, <1>3, RightKept DEF TablesInv

LEMMA SectionSteps ==
  ASSUME ImageInv, AddText \/ AddIdata \/ AddData
  PROVE  ImageInv'
<1>1. /\ UNCHANGED <<text, data, functions, entries, walk, tables, addr, code, writes>>
      /\ stage \in {"text", "idata", "data"} /\ stage' \in {"idata", "data", "headers"}
      /\ data \in Nat /\ Untouched
  BY SectionSizesAssumption
     DEF AddText, AddIdata, AddData, ImageInv, StagesInv, ProgramInv
<1>2. ProgramInv' /\ EntriesOK' /\ (HasIdata' <=> HasIdata)
  BY <1>1, ProgramKept, Static DEF ImageInv
<1>3. Untouched'
  BY <1>1 DEF Untouched
<1>4. (EntriesOK /\ Untouched => WalkInv /\ TablesInv)'
  BY UntouchedIs, PTL
<1>5. /\ TextSection' = TextSection /\ DataSection' = DataSection /\ WithIdata' = WithIdata
  BY <1>1, SectionsKept
<1>6. SectionsInv'
  <2>1. CASE AddText
    <3>1. sections = <<>>
      BY <2>1 DEF AddText, ImageInv, SectionsInv
    <3>2. sections' = <<TextSection>>
      <4>1. sections' = Append(<<>>, TextSection)
        BY <2>1, <3>1 DEF AddText, AddSection, TextSection
      <4>2. \A s : Append(<<>>, s) = <<s>>
        OBVIOUS
      <4>. QED BY <4>1, <4>2
    <3>3. stage' = IF HasIdata THEN "idata" ELSE "data"
      BY <2>1 DEF AddText
    <3>4. CASE HasIdata
      BY <1>2, <1>5, <3>2, <3>3, <3>4 DEF SectionsInv
    <3>5. CASE ~HasIdata
      <4>1. WithIdata = <<TextSection>>
        BY <3>5 DEF WithIdata
      <4>. QED BY <1>2, <1>5, <3>2, <3>3, <3>5, <4>1 DEF SectionsInv
    <3>. QED BY <3>4, <3>5
  <2>2. CASE AddIdata
    <3>1. HasIdata /\ sections = <<TextSection>>
      BY <2>2 DEF AddIdata, ImageInv, SectionsInv
    <3>2. Len(<<TextSection>>) = 1 /\ <<TextSection>> # <<>>
          /\ <<TextSection>>[1] = TextSection
      OBVIOUS
    <3>3. sections' = Append(<<TextSection>>, IdataSection)
      BY <2>2, <3>1, <3>2 DEF AddIdata, AddSection, IdataSection, Behind
    <3>5. sections' = WithIdata
      BY <3>1, <3>3, AppendIs, Zenon DEF WithIdata
    <3>6. stage' = "data"
      BY <2>2 DEF AddIdata
    <3>. QED BY <1>5, <3>5, <3>6 DEF SectionsInv
  <2>3. CASE AddData
    <3>1. sections = WithIdata /\ stage' = "headers"
      BY <2>3 DEF AddData, ImageInv, SectionsInv
    <3>2. CASE data > 0
      <4>1. PICK s : s = IF HasIdata THEN IdataSection ELSE TextSection
        OBVIOUS
      <4>2. sections # <<>> /\ sections[Len(sections)] = s
        BY <3>1, <4>1 DEF WithIdata
      <4>3. DataSection = Behind(s, "data", data)
        BY <4>1 DEF DataSection
      <4>4. sections' = Append(sections, DataSection)
        BY <2>3, <3>2, <4>2, <4>3 DEF AddData, AddSection, Behind
      <4>. QED BY <1>1, <1>5, <3>1, <3>2, <4>4 DEF SectionsInv
    <3>3. CASE ~(data > 0)
      <4>1. sections' = WithIdata
        BY <2>3, <3>1, <3>3 DEF AddData
      <4>. QED BY <1>1, <1>5, <3>1, <3>3, <4>1 DEF SectionsInv
    <3>. QED BY <3>2, <3>3
  <2>. QED BY <2>1, <2>2, <2>3
<1>7. StagesInv' /\ WritesInv'
  BY <1>1, <1>2, <1>3 DEF ImageInv, StagesInv, WritesInv
<1>8. CodeInv'
  BY <1>1 DEF ImageInv, CodeInv
<1>. QED BY <1>2, <1>3, <1>4, <1>6, <1>7, <1>8 DEF ImageInv

LEMMA WriteHolds ==
  ASSUME WritesInv, UNCHANGED <<text, data, functions, entries, sections>>,
         \A w \in writes' : w \in writes \/ Planned(w)
  PROVE  WritesInv'
<1>1. \A w \in writes' : Planned(w)
  BY DEF WritesInv
<1>. QED BY <1>1, PlacesKept DEF WritesInv

\* The steps before and after the walk
LEMMA OtherSteps ==
  ASSUME ImageInv, WriteHeaders \/ FillDone \/ Patch \/ CopyText \/ CopyData
  PROVE  ImageInv'
<1>1. /\ UNCHANGED <<text, data, functions, entries, sections, walk, tables, addr>>
      /\ stage \in {"headers", "fill", "patch", "copytext", "copydata"}
      /\ stage' \in {"fill", "patch", "crash", "copytext", "copydata", "done"}
  BY DEF WriteHeaders, FillDone, Patch, CopyText, CopyData
<1>2. ProgramInv' /\ (HasIdata' <=> HasIdata) /\ Found' = Found
  BY <1>1, ProgramKept, Static DEF ImageInv
<1>3. WalkInv' /\ TablesInv'
  BY <1>1, WalkKept DEF ImageInv
<1>4. SectionsInv'
  BY <1>1, SectionsKept DEF ImageInv, SectionsInv
<1>5. StagesInv'
  <2>1. Untouched' <=> Untouched
    BY <1>1 DEF Untouched
  <2>2. stage = "headers" => Untouched /\ (HasIdata => stage' \in {"fill", "crash"} \/ Len(sections) = 1)
    BY <1>1 DEF WriteHeaders, FillDone, Patch, CopyText, CopyData, ImageInv, StagesInv
  <2>3. walk.dll \in Nat /\ walk.dll <= Len(entries) + 1 /\ Len(entries) \in Nat
    BY RoomsAre DEF ImageInv, ProgramInv, WalkInv
  <2>4. HasIdata /\ stage' \in {"patch", "copytext", "copydata", "done"} => walk.dll = Len(entries) + 1
    BY <2>3 DEF WriteHeaders, FillDone, Patch, CopyText, CopyData, ImageInv, StagesInv
  <2>5. stage' = "fill" => HasIdata
    BY DEF WriteHeaders, FillDone, Patch, CopyText, CopyData
  <2>6. stage' = "copydata" => data > 0
    BY DEF WriteHeaders, FillDone, Patch, CopyText, CopyData
  <2>7. ~HasIdata => Untouched
    BY DEF ImageInv, StagesInv
  <2>. QED BY <1>1, <1>2, <2>1, <2>4, <2>5, <2>6, <2>7 DEF StagesInv
<1>6. CodeInv'
  <2>1. CASE Patch
    <3>1. code = [f \in Range(functions) |-> 0]
      BY <2>1 DEF Patch, ImageInv, CodeInv
    <3>2. code' = [f \in Range(functions) |-> IF f \in Found THEN addr[f] + ImageBase ELSE 0]
      BY <2>1, <3>1 DEF Patch
    <3>. QED BY <1>1, <1>2, <2>1, <3>2 DEF Patch, CodeInv
  <2>2. CASE ~Patch
    <3>1. code' = code /\ (stage \in {"copytext", "copydata", "done"}
                             <=> stage' \in {"copytext", "copydata", "done"})
      BY <2>2 DEF WriteHeaders, FillDone, Patch, CopyText, CopyData
    <3>. QED BY <1>1, <1>2, <3>1 DEF ImageInv, CodeInv
  <2>. QED BY <2>1, <2>2
<1>7. WritesInv'
  <2>1. WritesInv
    BY DEF ImageInv
  <2>2. CASE WriteHeaders
    <3>1. writes' = writes \union {HeadersWritten}
      BY <2>2 DEF WriteHeaders, Write, HeadersWritten
    <3>2. Planned(HeadersWritten)
      BY DEF Planned
    <3>. QED BY <1>1, <2>1, <3>1, <3>2, WriteHolds
  <2>3. CASE CopyText
    <3>1. writes' = writes \union {TextWritten}
      BY <2>3 DEF CopyText, Write, TextWritten
    <3>2. Planned(TextWritten)
      BY DEF Planned
    <3>. QED BY <1>1, <2>1, <3>1, <3>2, WriteHolds
  <2>4. CASE CopyData
    <3>1. writes' = writes \union {DataWritten}
      BY <2>4 DEF CopyData, Write, DataWritten
    <3>2. Planned(DataWritten)
      BY <2>4 DEF Planned, CopyData, ImageInv, StagesInv
    <3>. QED BY <1>1, <2>1, <3>1, <3>2, WriteHolds
  <2>5. CASE FillDone \/ Patch
    <3>1. writes' = writes
      BY <2>5 DEF FillDone, Patch
    <3>. QED BY <1>1, <2>1, <3>1, WriteHolds
  <2>. QED BY <2>2, <2>3, <2>4, <2>5
<1>. QED BY <1>2, <1>3, <1>4, <1>5, <1>6, <1>7 DEF ImageInv

LEMMA Advance ==
  ASSUME EntriesOK, NEW d, NEW k, Valid(d, k)
  PROVE  \A i \in DOMAIN entries : \A j \in DOMAIN entries[i].fs :
           Precedes(i, j, d, k + 1) <=> Precedes(i, j, d, k) \/ (i = d /\ j = k)
<1>1. SUFFICES ASSUME NEW i \in DOMAIN entries, NEW j \in DOMAIN entries[i].fs
               PROVE  Precedes(i, j, d, k + 1) <=> Precedes(i, j, d, k) \/ (i = d /\ j = k)
  OBVIOUS
<1>2. i \in Nat /\ j \in Nat /\ d \in Nat /\ k \in Nat
  BY EntryIs, RoomsAre, ValidIs
<1>. QED BY <1>2 DEF Precedes

\* Passing one function more
LEMMA SlotsAdded ==
  ASSUME EntriesOK, NEW d, NEW k, Valid(d, k), NEW t0 \in Nat, NEW T, SlotsRight(t0, T, d, k)
  PROVE  SlotsRight(t0, Put(T, t0 + SlotStart(d, k), VA(NamesAt + NameStart(d, k))), d, k + 1)
<1>. DEFINE x == t0 + SlotStart(d, k)
            U == Put(T, x, VA(NamesAt + NameStart(d, k)))
<1>1. d \in DOMAIN entries /\ k \in DOMAIN entries[d].fs /\ Place(d, k)
  BY ValidIs DEF Valid
<1>2. x \notin DOMAIN T
  <2>1. SUFFICES ASSUME NEW i \in DOMAIN entries, NEW j \in DOMAIN entries[i].fs,
                        Precedes(i, j, d, k), x = t0 + SlotStart(i, j)
                 PROVE  FALSE
    BY DEF SlotsRight
  <2>2. Valid(i, j)
    BY DEF Valid
  <2>3. SlotStart(i, j) \in Nat /\ SlotStart(d, k) \in Nat
        /\ SlotStart(i, j) + SlotSize <= SlotStart(d, k)
    BY <1>1, <2>1, <2>2, SlotStarts
  <2>4. SlotSize \in Nat \ {0}
    BY StructuresAssumption
  <2>. QED BY <2>1, <2>3, <2>4
<1>3. /\ DOMAIN U = DOMAIN T \union {x} /\ U[x] = VA(NamesAt + NameStart(d, k))
      /\ \A y \in DOMAIN T : U[y] = T[y]
  BY <1>2 DEF Put
<1>. HIDE DEF U
<1>4. \A i \in DOMAIN entries : \A j \in DOMAIN entries[i].fs : Precedes(i, j, d, k + 1) =>
        t0 + SlotStart(i, j) \in DOMAIN U
        /\ U[t0 + SlotStart(i, j)] = VA(NamesAt + NameStart(i, j))
  BY <1>3, Advance DEF SlotsRight
<1>5. \A y \in DOMAIN U : \E i \in DOMAIN entries : \E j \in DOMAIN entries[i].fs :
        Precedes(i, j, d, k + 1) /\ y = t0 + SlotStart(i, j)
  BY <1>1, <1>3, Advance DEF SlotsRight
<1>6. SlotsRight(t0, U, d, k + 1)
  BY <1>4, <1>5 DEF SlotsRight
<1>. QED BY <1>6 DEF U

LEMMA NamesAdded ==
  ASSUME EntriesOK, NEW d, NEW k, Valid(d, k), NEW T, NamesRight(T, d, k),
         NEW v, v.f = entries[d].fs[k]
  PROVE  NamesRight(Put(T, NamesAt + NameStart(d, k), v), d, k + 1)
<1>. DEFINE x == NamesAt + NameStart(d, k)
            U == Put(T, x, v)
<1>1. d \in DOMAIN entries /\ k \in DOMAIN entries[d].fs /\ Place(d, k)
  BY ValidIs DEF Valid
<1>2. x \notin DOMAIN T
  <2>1. SUFFICES ASSUME NEW i \in DOMAIN entries, NEW j \in DOMAIN entries[i].fs,
                        Precedes(i, j, d, k), x = NamesAt + NameStart(i, j)
                 PROVE  FALSE
    BY DEF NamesRight
  <2>2. Valid(i, j)
    BY DEF Valid
  <2>3. PICK r \in Nat \ {0} : r = NameRoom(entries[i].fs[j])
    BY <2>2, NameStarts
  <2>4. NameStart(i, j) \in Nat /\ NameStart(d, k) \in Nat
        /\ NameStart(i, j) + r <= NameStart(d, k)
    BY <1>1, <2>1, <2>2, <2>3, NameStarts, ValidIs
  <2>5. NamesAt \in Nat
    BY SizesAre DEF NamesAt, IntAt
  <2>. QED BY <2>1, <2>3, <2>4, <2>5
<1>3. /\ DOMAIN U = DOMAIN T \union {x} /\ U[x] = v
      /\ \A y \in DOMAIN T : U[y] = T[y]
  BY <1>2 DEF Put
<1>. HIDE DEF U
<1>4. \A i \in DOMAIN entries : \A j \in DOMAIN entries[i].fs : Precedes(i, j, d, k + 1) =>
        NamesAt + NameStart(i, j) \in DOMAIN U
        /\ U[NamesAt + NameStart(i, j)].f = entries[i].fs[j]
  BY <1>3, Advance DEF NamesRight
<1>5. \A y \in DOMAIN U : \E i \in DOMAIN entries : \E j \in DOMAIN entries[i].fs :
        Precedes(i, j, d, k + 1) /\ y = NamesAt + NameStart(i, j)
  BY <1>1, <1>3, Advance DEF NamesRight
<1>6. NamesRight(U, d, k + 1)
  BY <1>4, <1>5 DEF NamesRight
<1>. QED BY <1>6 DEF U

LEMMA AddressesAdded ==
  ASSUME EntriesOK, NEW d, NEW k, Valid(d, k), NEW T, AddressesRight(T, d, k)
  PROVE  AddressesRight(Put(T, entries[d].fs[k], VA(IatAt + SlotStart(d, k))), d, k + 1)
<1>. DEFINE x == entries[d].fs[k]
            U == Put(T, x, VA(IatAt + SlotStart(d, k)))
<1>1. d \in DOMAIN entries /\ k \in DOMAIN entries[d].fs /\ Place(d, k)
  BY ValidIs DEF Valid
<1>2. x \notin DOMAIN T
  <2>1. SUFFICES ASSUME NEW i \in DOMAIN entries, NEW j \in DOMAIN entries[i].fs,
                        Precedes(i, j, d, k), x = entries[i].fs[j]
                 PROVE  FALSE
    BY DEF AddressesRight
  <2>2. Valid(i, j)
    BY DEF Valid
  <2>3. x \in Already(i, j + 1)
    BY <2>1, <2>2, AlreadyNext
  <2>4. x \in Already(d, k)
    BY <1>1, <2>1, <2>2, <2>3, AlreadyGrows
  <2>. QED BY <2>4, AlreadyNext
<1>3. /\ DOMAIN U = DOMAIN T \union {x} /\ U[x] = VA(IatAt + SlotStart(d, k))
      /\ \A y \in DOMAIN T : U[y] = T[y]
  BY <1>2 DEF Put
<1>. HIDE DEF U
<1>4. \A i \in DOMAIN entries : \A j \in DOMAIN entries[i].fs : Precedes(i, j, d, k + 1) =>
        entries[i].fs[j] \in DOMAIN U
        /\ U[entries[i].fs[j]] = VA(IatAt + SlotStart(i, j))
  BY <1>3, Advance DEF AddressesRight
<1>5. \A y \in DOMAIN U : \E i \in DOMAIN entries : \E j \in DOMAIN entries[i].fs :
        Precedes(i, j, d, k + 1) /\ y = entries[i].fs[j]
  BY <1>1, <1>3, Advance DEF AddressesRight
<1>6. AddressesRight(U, d, k + 1)
  BY <1>4, <1>5 DEF AddressesRight
<1>. QED BY <1>6 DEF U

LEMMA SameRight ==
  ASSUME NEW d, NEW f, NEW e, NEW g,
         \A i \in DOMAIN entries : \A k \in DOMAIN entries[i].fs :
           Precedes(i, k, d, f) <=> Precedes(i, k, e, g)
  PROVE  /\ \A t0, T : SlotsRight(t0, T, d, f) => SlotsRight(t0, T, e, g)
         /\ \A T : NamesRight(T, d, f) => NamesRight(T, e, g)
         /\ \A T : AddressesRight(T, d, f) => AddressesRight(T, e, g)
BY DEF SlotsRight, NamesRight, AddressesRight

LEMMA AppendFunction ==
  ASSUME NEW n \in Nat, NEW g, DOMAIN g = 1..n + 1,
         NEW s, s = [i \in 1..n |-> g[i]]
  PROVE  Append(s, g[n + 1]) = [i \in 1..n + 1 |-> g[i]] /\ Len(Append(s, g[n + 1])) = n + 1
<1>. DEFINE S == {g[i] : i \in 1..n + 1}
<1>1. s \in Seq(S) /\ Len(s) = n /\ g[n + 1] \in S
  OBVIOUS
<1>2. PICK t : t = [i \in 1..n + 1 |-> g[i]]
  OBVIOUS
<1>3. t \in Seq(S) /\ Len(t) = n + 1 /\ \A i \in 1..n + 1 : t[i] = g[i]
  BY <1>2
<1>4. PICK a : a = Append(s, g[n + 1])
  OBVIOUS
<1>5. a \in Seq(S) /\ Len(a) = n + 1 /\ \A i \in 1..n + 1 : a[i] = g[i]
  BY <1>1, <1>4
<1>6. a = t
  <2>. HIDE DEF S
  <2>. QED BY <1>3, <1>5, SeqEqual
<1>. QED BY <1>2, <1>4, <1>5, <1>6

\* What holds in each step of the walk
LEMMA WalkFacts ==
  ASSUME ImageInv, Filling
  PROVE  /\ EntriesOK /\ HasIdata /\ walk.dll \in DOMAIN entries /\ walk.dll \in Nat
         /\ walk.f \in 0 .. Len(Here.fs) + 1 /\ Here = entries[walk.dll]
         /\ Len(Here.fs) \in Nat /\ DOMAIN Here.fs = 1..Len(Here.fs)
         /\ stage = "fill"
<1>1. EntriesOK /\ HasIdata /\ stage = "fill"
  BY DEF ImageInv, ProgramInv, StagesInv, Filling
<1>2. Len(entries) \in Nat /\ DOMAIN entries = 1..Len(entries)
  BY <1>1, RoomsAre
<1>3. walk.dll \in DOMAIN entries /\ walk.f \in 0 .. Len(entries[walk.dll].fs) + 1
  BY <1>2 DEF ImageInv, WalkInv, Filling
<1>. QED BY <1>1, <1>2, <1>3, EntryIs DEF Here

LEMMA WalkStep ==
  ASSUME ImageInv, Filling, stage' = stage,
         UNCHANGED <<text, data, functions, entries, sections, code>>,
         WalkInv', TablesInv', \A w \in writes' : w \in writes \/ Planned(w)
  PROVE  ImageInv'
<1>1. stage = "fill" /\ HasIdata
  BY WalkFacts
<1>2. ProgramInv' /\ (HasIdata' <=> HasIdata)
  BY ProgramKept, Static DEF ImageInv
<1>3. SectionsInv'
  BY <1>1, SectionsKept DEF ImageInv, SectionsInv
<1>4. StagesInv'
  BY <1>1, <1>2 DEF StagesInv
<1>5. CodeInv'
  BY <1>1 DEF ImageInv, CodeInv
<1>6. WritesInv'
  BY WriteHolds DEF ImageInv
<1>. QED BY <1>2, <1>3, <1>4, <1>5, <1>6 DEF ImageInv

LEMMA DescribeStep ==
  ASSUME ImageInv, Describe
  PROVE  ImageInv'
<1>1. /\ Filling /\ stage' = stage /\ walk.f = 0
      /\ UNCHANGED <<text, data, functions, entries, sections, code, addr>>
  BY DEF Describe
<1>. DEFINE d == walk.dll
<1>2. /\ EntriesOK /\ HasIdata /\ d \in DOMAIN entries /\ d \in Nat /\ d >= 1
      /\ Len(entries[d].fs) \in Nat
  BY <1>1, WalkFacts, RoomsAre
<1>3. /\ walk'.dll = d /\ walk'.f = 1 /\ walk'.slot = walk.slot /\ walk'.table = walk.table
      /\ walk'.name = walk.name /\ walk'.module = walk.module /\ walk'.hint = walk.hint
      /\ walk' = [dll |-> walk'.dll, f |-> walk'.f, slot |-> walk'.slot, table |-> walk'.table,
                  name |-> walk'.name, module |-> walk'.module, hint |-> walk'.hint]
  BY DEF Describe, ImageInv, WalkInv
<1>4. Upcoming = 1 /\ Upcoming' = 1
  BY <1>1, <1>3 DEF Upcoming
<1>5. WalkInv'
  <2>1. /\ walk.table = TableStart(d) /\ walk.module = ModuleStart(d)
        /\ walk.slot = SlotStart(d, 1) /\ walk.name = NameStart(d, 1)
        /\ walk.hint = 1 + Cardinality(Already(d, 1))
    BY <1>4 DEF ImageInv, WalkInv
  <2>2. walk'.f \in 0 .. Len(entries[d].fs) + 1
    BY <1>2, <1>3
  <2>. QED BY <1>1, <1>2, <1>3, <1>4, <2>1, <2>2, Static DEF WalkInv
<1>6. /\ tables'.int = tables.int /\ tables'.iat = tables.iat
      /\ tables'.names = tables.names
      /\ tables'.modules = tables.modules
      /\ tables'.descriptors = Append(tables.descriptors, DescriptorOf(d))
      /\ tables' = [descriptors |-> tables'.descriptors, int |-> tables'.int,
                    iat |-> tables'.iat, names |-> tables'.names, modules |-> tables'.modules]
  BY <1>4 DEF Describe, ImageInv, TablesInv, WalkInv, DescriptorOf
<1>7. \A i \in DOMAIN entries : \A k \in DOMAIN entries[i].fs :
        Precedes(i, k, d, 0) <=> Precedes(i, k, d, 1)
  <2>1. ASSUME NEW i \in DOMAIN entries, NEW k \in DOMAIN entries[i].fs
        PROVE  Precedes(i, k, d, 0) <=> Precedes(i, k, d, 1)
    <3>1. k \in 1..Len(entries[i].fs) /\ Len(entries[i].fs) \in Nat
      BY <1>2, EntryIs
    <3>. QED BY <3>1 DEF Precedes
  <2>. QED BY <2>1
<1>8. DescriptorsRight(tables'.descriptors, d, 1)
  <2>1. PICK n \in Nat : n = d - 1
    BY <1>2
  <2>2. PICK s : s = tables.descriptors
    OBVIOUS
  <2>3. Len(s) = n /\ s = [i \in 1..n |-> DescriptorOf(i)]
    BY <1>1, <2>1, <2>2 DEF ImageInv, TablesInv, DescriptorsRight
  <2>4. PICK g : g = [i \in 1..n + 1 |-> DescriptorOf(i)]
    OBVIOUS
  <2>5. DOMAIN g = 1..n + 1 /\ s = [i \in 1..n |-> g[i]] /\ g[n + 1] = DescriptorOf(d)
    BY <1>2, <2>1, <2>3, <2>4
  <2>6. Append(s, g[n + 1]) = [i \in 1..n + 1 |-> g[i]] /\ Len(Append(s, g[n + 1])) = n + 1
    BY <2>5, AppendFunction
  <2>7. tables'.descriptors = Append(s, g[n + 1]) /\ n + 1 = d
    BY <1>2, <1>6, <2>1, <2>2, <2>5
  <2>8. [i \in 1..n + 1 |-> g[i]] = [i \in 1..n + 1 |-> DescriptorOf(i)]
    BY <2>4
  <2>. QED BY <2>6, <2>7, <2>8 DEF DescriptorsRight
<1>9. TablesInv'
  <2>1. /\ SlotsRight(IntAt, tables.int, d, 1) /\ SlotsRight(IatAt, tables.iat, d, 1)
        /\ NamesRight(tables.names, d, 1) /\ AddressesRight(addr, d, 1)
        /\ ModulesRight(tables.modules, d)
    BY <1>1, <1>7, SameRight DEF ImageInv, TablesInv
  <2>2. IntAt' = IntAt /\ IatAt' = IatAt
    BY <1>1, Static
  <2>. QED BY <1>1, <1>3, <1>6, <1>8, <2>1, <2>2, RightKept DEF TablesInv
<1>10. ASSUME NEW w \in writes' PROVE w \in writes \/ Planned(w)
  <2>1. w \in writes \/ w = DescriptorWritten(d)
    BY <1>10 DEF Describe, Write, DescriptorWritten
  <2>. QED BY <1>2, <2>1 DEF Planned, ImportWritten
<1>. QED BY <1>1, <1>5, <1>9, <1>10, WalkStep

LEMMA ImportStep ==
  ASSUME ImageInv, ImportFunction
  PROVE  ImageInv'
<1>1. /\ Filling /\ stage' = stage /\ walk.f \in 1..Len(Here.fs)
      /\ UNCHANGED <<text, data, functions, entries, sections, code>>
  BY DEF ImportFunction
<1>. DEFINE d == walk.dll
            k == walk.f
            f == entries[d].fs[k]
<1>2. /\ EntriesOK /\ HasIdata /\ d \in DOMAIN entries /\ d \in Nat /\ k \in Nat /\ k >= 1
      /\ Here = entries[d] /\ k \in 1..Len(entries[d].fs) /\ Len(entries[d].fs) \in Nat
      /\ Valid(d, k) /\ Here.fs[walk.f] = f
  BY <1>1, WalkFacts DEF Valid
<1>3. f \in Externals /\ NameSize[f] \in Nat /\ NameRoom(f) = NameSize[f] + 3
      /\ SlotSize \in Nat /\ Place(d, k)
  <2>1. f \in Externals /\ Place(d, k)
    BY <1>2, ValidIs
  <2>2. NameSize[f] \in Nat
    BY <2>1, NamesAssumption
  <2>3. NameRoom(f) = NameSize[f] + 3
    BY <2>2 DEF NameRoom
  <2>. QED BY <2>1, <2>2, <2>3, StructuresAssumption
<1>4. /\ walk.table = TableStart(d) /\ walk.module = ModuleStart(d)
      /\ walk.slot = SlotStart(d, k) /\ walk.name = NameStart(d, k)
      /\ walk.hint = 1 + Cardinality(Already(d, k))
  <2>1. Upcoming = k
    BY <1>2 DEF Upcoming
  <2>. QED BY <2>1 DEF ImageInv, WalkInv
<1>5. /\ walk'.dll = d /\ walk'.f = k + 1 /\ walk'.slot = walk.slot + SlotSize
      /\ walk'.table = walk.table /\ walk'.name = walk.name + NameSize[f] + 3
      /\ walk'.module = walk.module /\ walk'.hint = walk.hint + 1
      /\ walk' = [dll |-> walk'.dll, f |-> walk'.f, slot |-> walk'.slot, table |-> walk'.table,
                  name |-> walk'.name, module |-> walk'.module, hint |-> walk'.hint]
  BY <1>2 DEF ImportFunction, NextHint, ImageInv, WalkInv
<1>6. WalkInv'
  <2>1. Upcoming' = k + 1
    BY <1>2, <1>5 DEF Upcoming
  <2>2. walk'.slot = SlotStart(d, k + 1)
    <3>1. TableStart(d) \in Nat
      BY <1>2, TableStarts, RoomsAre
    <3>2. (k + 1) - 1 = (k - 1) + 1 /\ k - 1 \in Nat
      BY <1>2
    <3>3. ((k - 1) + 1) * SlotSize = (k - 1) * SlotSize + SlotSize
          /\ (k - 1) * SlotSize \in Nat
      BY <1>3, <3>2
    <3>. QED BY <1>3, <1>4, <1>5, <3>1, <3>2, <3>3 DEF SlotStart
  <2>3. walk'.name = NameStart(d, k + 1)
    <3>1. NameStart(d, k) \in Nat /\ NameStart(d, k + 1) = NameStart(d, k) + NameRoom(f)
      BY <1>2, <1>3, NameStarts
    <3>. QED BY <1>3, <1>4, <1>5, <3>1
  <2>4. walk'.hint = 1 + Cardinality(Already(d, k + 1))
    <3>1. Already(d, k + 1) = Already(d, k) \union {f} /\ f \notin Already(d, k)
      BY <1>2, AlreadyNext
    <3>2. IsFiniteSet(Already(d, k))
      BY <1>2, <1>3, AlreadyFound
    <3>3. Cardinality(Already(d, k)) \in Nat
          /\ Cardinality(Already(d, k + 1)) = Cardinality(Already(d, k)) + 1
      BY <3>1, <3>2, FS_AddElement, FS_CardinalityType
    <3>. QED BY <1>4, <1>5, <3>3
  <2>5. k + 1 \in 0 .. Len(entries[d].fs) + 1
    BY <1>2
  <2>. QED BY <1>1, <1>2, <1>4, <1>5, <2>1, <2>2, <2>3, <2>4, <2>5, Static DEF WalkInv
<1>7. PICK v : v = [hint |-> HintOf(walk.hint), f |-> f]
  OBVIOUS
<1>8. /\ tables'.int = Put(tables.int, IntAt + SlotStart(d, k), VA(NamesAt + NameStart(d, k)))
      /\ tables'.iat = Put(tables.iat, IatAt + SlotStart(d, k), VA(NamesAt + NameStart(d, k)))
      /\ tables'.names = Put(tables.names, NamesAt + NameStart(d, k), v)
      /\ tables'.modules = tables.modules /\ tables'.descriptors = tables.descriptors
      /\ tables' = [descriptors |-> tables'.descriptors, int |-> tables'.int,
                    iat |-> tables'.iat, names |-> tables'.names, modules |-> tables'.modules]
  BY <1>2, <1>4, <1>7 DEF ImportFunction, ImageInv, TablesInv
<1>9. IntAt \in Nat /\ NamesAt \in Nat /\ IatAt \in Nat
  BY <1>2, SizesAre DEF IntAt, NamesAt, IatAt
<1>10. addr' = Put(addr, f, VA(IatAt + SlotStart(d, k)))
  <2>1. TableStart(d) \in Nat
    BY <1>2, TableStarts, RoomsAre
  <2>2. (k - 1) * SlotSize \in Nat
    <3>1. k - 1 \in Nat
      BY <1>2
    <3>. QED BY <1>3, <3>1
  <2>3. IatAt + walk.table + (k - 1) * SlotSize = IatAt + SlotStart(d, k)
    BY <1>4, <1>9, <2>1, <2>2 DEF SlotStart
  <2>. QED BY <1>2, <2>3 DEF ImportFunction
<1>11. TablesInv'
  <2>1. /\ SlotsRight(IntAt, tables.int, d, k) /\ SlotsRight(IatAt, tables.iat, d, k)
        /\ NamesRight(tables.names, d, k) /\ AddressesRight(addr, d, k)
        /\ ModulesRight(tables.modules, d) /\ DescriptorsRight(tables.descriptors, d, k)
    BY DEF ImageInv, TablesInv
  <2>2. /\ SlotsRight(IntAt, tables'.int, d, k + 1)
        /\ SlotsRight(IatAt, tables'.iat, d, k + 1)
    BY <1>2, <1>8, <1>9, <2>1, SlotsAdded
  <2>3. NamesRight(tables'.names, d, k + 1)
    <3>1. v.f = entries[d].fs[k]
      BY <1>7
    <3>. QED BY <1>2, <1>8, <2>1, <3>1, NamesAdded
  <2>4. AddressesRight(addr', d, k + 1)
    BY <1>2, <1>10, <2>1, AddressesAdded
  <2>5. DescriptorsRight(tables'.descriptors, d, k + 1)
    BY <1>2, <1>8, <2>1 DEF DescriptorsRight
  <2>6. IntAt' = IntAt /\ IatAt' = IatAt
    BY <1>1, Static
  <2>. QED BY <1>1, <1>5, <1>8, <2>1, <2>2, <2>3, <2>4, <2>5, <2>6, RightKept DEF TablesInv
<1>12. ASSUME NEW w \in writes' PROVE w \in writes \/ Planned(w)
  <2>1. w \in writes \/ w = NameWritten(d, k) \/ w = IntWritten(d, k) \/ w = IatWritten(d, k)
    BY <1>2, <1>3, <1>4, <1>12 DEF ImportFunction, NameWritten, IntWritten, IatWritten
  <2>2. d \in DOMAIN entries /\ k \in DOMAIN entries[d].fs
    BY <1>2 DEF Valid
  <2>. QED BY <1>2, <2>1, <2>2 DEF Planned, ImportWritten
<1>. QED BY <1>1, <1>6, <1>11, <1>12, WalkStep

LEMMA ModuleStep ==
  ASSUME ImageInv, NameModule
  PROVE  ImageInv'
<1>1. /\ Filling /\ stage' = stage /\ walk.f > Len(Here.fs)
      /\ UNCHANGED <<text, data, functions, entries, sections, code, addr>>
  BY DEF NameModule
<1>. DEFINE d == walk.dll
<1>2. /\ EntriesOK /\ HasIdata /\ d \in DOMAIN entries /\ d \in Nat /\ d >= 1
      /\ Here = entries[d] /\ Len(entries[d].fs) \in Nat /\ walk.f = Len(entries[d].fs) + 1
  BY <1>1, WalkFacts, RoomsAre
<1>3. PICK l \in Nat : l = Len(entries[d].fs)
  BY <1>2
<1>4. /\ walk.table = TableStart(d) /\ walk.module = ModuleStart(d)
      /\ walk.slot = SlotStart(d, l + 1) /\ walk.name = NameStart(d, l + 1)
      /\ walk.hint = 1 + Cardinality(Already(d, l + 1))
  <2>1. Upcoming = l + 1
    BY <1>2, <1>3 DEF Upcoming
  <2>. QED BY <2>1 DEF ImageInv, WalkInv
<1>5. /\ walk'.dll = d + 1 /\ walk'.f = 0 /\ walk'.slot = walk.slot + SlotSize
      /\ walk'.table = walk.table + TableRoom(d) /\ walk'.name = walk.name
      /\ walk'.module = walk.module + DllSize[Here.dll] + 1 /\ walk'.hint = walk.hint
      /\ walk' = [dll |-> walk'.dll, f |-> walk'.f, slot |-> walk'.slot, table |-> walk'.table,
                  name |-> walk'.name, module |-> walk'.module, hint |-> walk'.hint]
  BY DEF NameModule, EndSlot, ImageInv, WalkInv
<1>6. PICK n \in Nat : n = Len(entries) /\ DOMAIN entries = 1..n
  BY <1>2, RoomsAre
<1>7. SlotSize \in Nat /\ TableStart(d) \in Nat /\ ModuleStart(d) \in Nat
      /\ TableRoom(d) = SlotSize * (l + 1)
      /\ TableStart(d + 1) = TableStart(d) + TableRoom(d)
      /\ ModuleStart(d + 1) = ModuleStart(d) + ModuleRoom(d)
      /\ DllSize[Here.dll] \in Nat /\ ModuleRoom(d) = DllSize[Here.dll] + 1
  <2>1. entries[d].dll \in Dlls
    BY <1>2, EntryIs
  <2>2. DllSize[Here.dll] \in Nat /\ SlotSize \in Nat
    BY <1>2, <2>1, NamesAssumption, StructuresAssumption
  <2>3. TableRoom(d) = SlotSize * (l + 1) /\ ModuleRoom(d) = DllSize[Here.dll] + 1
    BY <1>2, <1>3 DEF TableRoom, ModuleRoom
  <2>4. d \in 1..Len(entries) /\ d \in 1..Len(entries) + 1
    BY <1>2, <1>6
  <2>5. TableStart(d) \in Nat /\ TableStart(d + 1) = TableStart(d) + TableRoom(d)
    BY <1>2, <2>4, TableStarts
  <2>6. ModuleStart(d) \in Nat /\ ModuleStart(d + 1) = ModuleStart(d) + ModuleRoom(d)
    BY <1>2, <2>4, ModuleStarts
  <2>. QED BY <2>2, <2>3, <2>5, <2>6
<1>8. WalkInv'
  <2>1. Upcoming' = 1
    BY <1>5 DEF Upcoming
  <2>2. walk'.slot = SlotStart(d + 1, 1)
    <3>1. (l + 1) - 1 = l /\ 1 - 1 = 0 /\ 0 * SlotSize = 0 /\ l * SlotSize \in Nat
          /\ SlotSize * (l + 1) = l * SlotSize + SlotSize
      BY <1>7
    <3>. QED BY <1>4, <1>5, <1>7, <3>1 DEF SlotStart
  <2>3. walk'.name = NameStart(d + 1, 1)
    BY <1>2, <1>3, <1>4, <1>5, NameStarts
  <2>4. walk'.hint = 1 + Cardinality(Already(d + 1, 1))
    BY <1>2, <1>3, <1>4, <1>5, AlreadyAre
  <2>5. walk'.table = TableStart(d + 1) /\ walk'.module = ModuleStart(d + 1)
    BY <1>4, <1>5, <1>7
  <2>6. \/ /\ d + 1 \in DOMAIN entries /\ 0 \in 0 .. Len(entries[d + 1].fs) + 1
        \/ d + 1 = Len(entries) + 1
    <3>1. CASE d + 1 \in DOMAIN entries
      <4>1. Len(entries[d + 1].fs) \in Nat
        BY <1>2, <3>1, EntryIs
      <4>. QED BY <3>1, <4>1
    <3>2. CASE d + 1 \notin DOMAIN entries
      BY <1>2, <1>6, <3>2
    <3>. QED BY <3>1, <3>2
  <2>. QED BY <1>1, <1>5, <2>1, <2>2, <2>3, <2>4, <2>5, <2>6, Static DEF WalkInv
<1>9. /\ tables'.modules = Put(tables.modules, ModulesAt + ModuleStart(d), entries[d].dll)
      /\ tables'.int = tables.int /\ tables'.iat = tables.iat
      /\ tables'.names = tables.names
      /\ tables'.descriptors = tables.descriptors
      /\ tables' = [descriptors |-> tables'.descriptors, int |-> tables'.int,
                    iat |-> tables'.iat, names |-> tables'.names, modules |-> tables'.modules]
  BY <1>2, <1>4 DEF NameModule, ImageInv, TablesInv
<1>10. \A i \in DOMAIN entries : \A k \in DOMAIN entries[i].fs :
         Precedes(i, k, d, l + 1) <=> Precedes(i, k, d + 1, 0)
  <2>1. ASSUME NEW i \in DOMAIN entries, NEW k \in DOMAIN entries[i].fs
        PROVE  Precedes(i, k, d, l + 1) <=> Precedes(i, k, d + 1, 0)
    <3>1. k \in 1..Len(entries[i].fs) /\ Len(entries[i].fs) \in Nat /\ i \in Nat
      BY <1>2, <1>6, EntryIs
    <3>. QED BY <1>2, <1>3, <3>1 DEF Precedes
  <2>. QED BY <2>1
<1>11. ModulesRight(tables'.modules, d + 1)
  <2>. DEFINE x == ModulesAt + ModuleStart(d)
              T == tables.modules
              U == tables'.modules
  <2>1. ModulesRight(T, d) /\ U = Put(T, x, entries[d].dll)
    BY <1>9 DEF ImageInv, TablesInv
  <2>2. DOMAIN U = DOMAIN T \union {x} /\ U[x] = entries[d].dll
        /\ \A y \in DOMAIN T : y # x => U[y] = T[y]
    BY <2>1 DEF Put
  <2>3. ModulesAt \in Nat
    BY <1>2, SizesAre DEF ModulesAt, IatAt, NamesAt, IntAt
  <2>4. ASSUME NEW i \in DOMAIN entries, i < d PROVE ModulesAt + ModuleStart(i) # x
    <3>1. ModuleRoom(i) \in Nat \ {0}
      <4>1. entries[i].dll \in Dlls
        BY <1>2, EntryIs
      <4>. QED BY <4>1, NamesAssumption DEF ModuleRoom
    <3>2. ModuleStart(i) + ModuleRoom(i) <= ModuleStart(d) /\ ModuleStart(i) \in Nat
      BY <1>2, <1>6, <2>4, ModuleStarts
    <3>. QED BY <1>7, <2>3, <3>1, <3>2
  <2>5. \A i \in DOMAIN entries : i < d + 1 <=> i < d \/ i = d
    BY <1>2, <1>6
  <2>. HIDE DEF U, T, x
  <2>6. \A i \in DOMAIN entries : i < d + 1 =>
          ModulesAt + ModuleStart(i) \in DOMAIN U
          /\ U[ModulesAt + ModuleStart(i)] = entries[i].dll
    BY <2>1, <2>2, <2>4, <2>5 DEF ModulesRight, x
  <2>7. \A y \in DOMAIN U : \E i \in DOMAIN entries : i < d + 1 /\ y = ModulesAt + ModuleStart(i)
    BY <1>2, <2>1, <2>2, <2>5 DEF ModulesRight, x
  <2>8. ModulesRight(U, d + 1)
    BY <2>6, <2>7 DEF ModulesRight
  <2>. QED BY <2>8 DEF U
<1>12. TablesInv'
  <2>1. /\ SlotsRight(IntAt, tables.int, d, l + 1)
        /\ SlotsRight(IatAt, tables.iat, d, l + 1)
        /\ NamesRight(tables.names, d, l + 1) /\ AddressesRight(addr, d, l + 1)
        /\ DescriptorsRight(tables.descriptors, d, l + 1)
    BY <1>2, <1>3 DEF ImageInv, TablesInv
  <2>2. /\ SlotsRight(IntAt, tables.int, d + 1, 0)
        /\ SlotsRight(IatAt, tables.iat, d + 1, 0)
        /\ NamesRight(tables.names, d + 1, 0) /\ AddressesRight(addr, d + 1, 0)
    BY <1>10, <2>1, SameRight
  <2>3. DescriptorsRight(tables.descriptors, d + 1, 0)
    BY <1>2, <2>1 DEF DescriptorsRight
  <2>4. IntAt' = IntAt /\ IatAt' = IatAt
    BY <1>1, Static
  <2>. QED BY <1>1, <1>5, <1>9, <1>11, <2>2, <2>3, <2>4, RightKept DEF TablesInv
<1>13. ASSUME NEW w \in writes' PROVE w \in writes \/ Planned(w)
  <2>1. w \in writes \/ w = ModuleWritten(d)
    BY <1>2, <1>4, <1>7, <1>13 DEF NameModule, Write, ModuleWritten
  <2>. QED BY <1>2, <2>1 DEF Planned, ImportWritten
<1>. QED BY <1>1, <1>8, <1>12, <1>13, WalkStep

LEMMA ImageStepInv ==
  ASSUME ImageInv, [ImageNext]_imageVars
  PROVE  ImageInv'
<1>1. CASE AddText \/ AddIdata \/ AddData
  BY <1>1, SectionSteps
<1>2. CASE WriteHeaders \/ FillDone \/ Patch \/ CopyText \/ CopyData
  BY <1>2, OtherSteps
<1>3. CASE Describe
  BY <1>3, DescribeStep
<1>4. CASE ImportFunction
  BY <1>4, ImportStep
<1>5. CASE NameModule
  BY <1>5, ModuleStep
<1>6. CASE UNCHANGED imageVars
  <2>1. /\ UNCHANGED <<text, data, functions, entries, sections, walk, tables, addr>>
        /\ UNCHANGED <<code, writes, stage>>
    BY <1>6 DEF imageVars
  <2>2. ProgramInv' /\ WalkInv' /\ TablesInv' /\ (HasIdata' <=> HasIdata) /\ Found' = Found
    BY <2>1, ProgramKept, WalkKept, Static DEF ImageInv
  <2>3. SectionsInv'
    BY <2>1, <2>2, SectionsKept DEF ImageInv, SectionsInv
  <2>4. StagesInv'
    BY <2>1, <2>2 DEF ImageInv, StagesInv, Untouched
  <2>5. CodeInv'
    BY <2>1, <2>2 DEF ImageInv, CodeInv
  <2>6. WritesInv'
    BY <2>1, WriteHolds DEF ImageInv
  <2>. QED BY <2>2, <2>3, <2>4, <2>5, <2>6 DEF ImageInv
<1>. QED BY <1>1, <1>2, <1>3, <1>4, <1>5, <1>6 DEF ImageNext

\* The sections, the tables written so far and the writes are the ones that the
\* program's imports and sizes determine, at every step of write_pe_exe.
THEOREM ImageInvariance == ImageSpec => []ImageInv
<1>1. ImageInit => ImageInv
  BY ImageStart
<1>2. ImageInv /\ [ImageNext]_imageVars => ImageInv'
  BY ImageStepInv
<1>. QED BY <1>1, <1>2, PTL DEF ImageSpec

-----------------------------------------------------------------------------
(* The file *)

\* The sections, when all have been added
Complete == stage \notin {"text", "idata", "data"}

LEMMA CompleteIs ==
  ASSUME ImageInv, Complete
  PROVE  /\ Len(sections) \in 1..3 /\ 1 \in DOMAIN sections /\ sections[1] = TextSection
         /\ HasIdata => 2 \in DOMAIN sections /\ sections[2] = IdataSection
         /\ HasIdata /\ data > 0 => 3 \in DOMAIN sections /\ sections[3] = DataSection
         /\ ~HasIdata /\ data > 0 => Len(sections) = 2 /\ sections[2] = DataSection
<1>1. sections = IF data > 0 THEN Append(WithIdata, DataSection) ELSE WithIdata
  BY DEF ImageInv, SectionsInv, Complete
<1>2. CASE HasIdata /\ data > 0
  <2>1. sections = <<TextSection, IdataSection, DataSection>>
    BY <1>1, <1>2, AllSections
  <2>. QED BY <1>2, <2>1
<1>3. CASE HasIdata /\ ~(data > 0)
  <2>1. sections = <<TextSection, IdataSection>>
    BY <1>1, <1>3 DEF WithIdata
  <2>. QED BY <1>3, <2>1
<1>4. CASE ~HasIdata /\ data > 0
  <2>1. sections = <<TextSection, DataSection>>
    BY <1>1, <1>4, AllSections
  <2>. QED BY <1>4, <2>1
<1>5. CASE ~HasIdata /\ ~(data > 0)
  <2>1. sections = <<TextSection>>
    BY <1>1, <1>5 DEF WithIdata
  <2>. QED BY <1>5, <2>1
<1>. QED BY <1>2, <1>3, <1>4, <1>5

LEMMA PlacesAre ==
  ASSUME ImageInv, Complete
  PROVE  /\ HeadersSize \in Nat /\ Idata \in Nat /\ text \in Nat /\ data \in Nat
         /\ HeadersSize + text <= Idata
         /\ HeadersFixed + Len(sections) * SectionHeader \in Nat
         /\ HeadersFixed + Len(sections) * SectionHeader <= HeadersSize
         /\ HasIdata => /\ IdataSection.ptr = Idata /\ IdataSection.va \in Nat
                        /\ DataPlace \in Nat /\ Idata + IdataSize <= DataPlace
         /\ data > 0 => /\ DataPlace \in Nat /\ Idata <= DataPlace
                        /\ HasIdata => DataSection.ptr = DataPlace
                        /\ ~HasIdata => DataPlace = FileSize
<1>1. ProgramInv /\ EntriesOK /\ text \in Nat /\ data \in Nat
  BY SectionSizesAssumption DEF ImageInv, ProgramInv
<1>2. PICK n \in 1..3 : n = Len(sections)
  BY CompleteIs
<1>3. HeadersSize \in Nat /\ HeadersFixed + 3 * SectionHeader <= HeadersSize
      /\ HeadersFixed \in Nat /\ SectionHeader \in Nat
  BY HeadersAre, StructuresAssumption
<1>4. HeadersFixed + n * SectionHeader \in Nat
      /\ HeadersFixed + n * SectionHeader <= HeadersSize
  <2>1. n * SectionHeader \in Nat /\ n * SectionHeader <= 3 * SectionHeader
    BY <1>3
  <2>. QED BY <1>3, <2>1
<1>5. PICK r \in Nat : r = TextSection.raw /\ text <= r
  BY <1>1, SectionsAre DEF Aligned
<1>6. Idata = HeadersSize + r
  BY <1>5, CompleteIs DEF Idata
<1>7. ASSUME HasIdata
      PROVE  /\ IdataSection.ptr = Idata /\ IdataSection.va \in Nat
             /\ DataPlace \in Nat /\ Idata + IdataSize <= DataPlace
             /\ DataPlace = IdataSection.ptr + IdataSection.raw /\ Idata <= DataPlace
  <2>1. PICK q \in Nat : q = IdataSection.raw /\ IdataSize <= q
    BY <1>1, <1>7, SectionsAre DEF Aligned
  <2>2. DataPlace = HeadersSize + r + q
    BY <1>5, <1>7, <2>1, CompleteIs DEF DataPlace
  <2>3. IdataSection.ptr = HeadersSize + r /\ IdataSection.va \in Nat
    BY <1>1, <1>5, <1>7, SectionsAre DEF Aligned
  <2>4. IdataSize \in Nat
    BY <1>1, SizesAre
  <2>. QED BY <1>3, <1>6, <2>1, <2>2, <2>3, <2>4
<1>8. ASSUME HasIdata, data > 0 PROVE DataSection.ptr = DataPlace
  BY <1>1, <1>7, <1>8, SectionsAre
<1>9. ASSUME ~HasIdata, data > 0
      PROVE  DataPlace \in Nat /\ Idata <= DataPlace /\ DataPlace = FileSize
  <2>1. Len(sections) = 2 /\ sections[2] = DataSection /\ sections[1] = TextSection
    BY <1>9, CompleteIs
  <2>2. PICK q \in Nat : q = DataSection.raw
    BY <1>1, <1>9, SectionsAre DEF Aligned
  <2>3. DataPlace = HeadersSize + r + q
    BY <1>5, <2>1, <2>2 DEF DataPlace
  <2>4. DOMAIN sections = 1..2
    BY <1>1, <2>1, SectionsInOrder DEF ImageInv
  <2>5. PICK g : g = [i \in DOMAIN sections |-> sections[i].raw]
    OBVIOUS
  <2>6. g[1] = r /\ g[2] = q /\ DOMAIN g = 1..2
    BY <1>5, <2>1, <2>2, <2>4, <2>5
  <2>7. \A i \in 1..2 : g[i] \in Nat
    BY <2>6
  <2>8. /\ Sum(g, 1 .. 1 - 1) = 0 /\ Sum(g, 1 .. (1 + 1) - 1) = Sum(g, 1 .. 1 - 1) + g[1]
        /\ Sum(g, 1 .. (2 + 1) - 1) = Sum(g, 1 .. 2 - 1) + g[2]
    <3>1. PICK m \in Nat : m = 2
      OBVIOUS
    <3>2. \A i \in 1..m : g[i] \in Nat
      BY <2>7, <3>1
    <3>3. /\ Sum(g, 1 .. 1 - 1) = 0
          /\ \A i \in 1..m : Sum(g, 1 .. (i + 1) - 1) = Sum(g, 1 .. i - 1) + g[i]
      BY <3>2, PartialSums
    <3>4. 1 \in 1..m /\ 2 \in 1..m
      BY <3>1
    <3>. QED BY <3>3, <3>4
  <2>9. (1 + 1) - 1 = 2 - 1 /\ (2 + 1) - 1 = 2
    OBVIOUS
  <2>10. Sum(g, 1..2) = r + q
    BY <2>6, <2>8, <2>9
  <2>11. FileSize = HeadersSize + Sum(g, 1..2)
    BY <2>4, <2>5, Zenon DEF FileSize, Sum
  <2>. QED BY <1>3, <1>6, <2>3, <2>10, <2>11
<1>10. Idata \in Nat /\ HeadersSize + text <= Idata
  BY <1>1, <1>3, <1>5, <1>6
<1>11. data > 0 => /\ DataPlace \in Nat /\ Idata <= DataPlace
                   /\ HasIdata => DataSection.ptr = DataPlace
                   /\ ~HasIdata => DataPlace = FileSize
  BY <1>7, <1>8, <1>9
<1>. QED BY <1>1, <1>2, <1>3, <1>4, <1>7, <1>10, <1>11

\* Each kind of write has a part of the file, from Low to High.
Low(what) ==
    IF what = "headers" THEN 0
    ELSE IF what = "text" THEN HeadersSize
    ELSE IF what = "descriptor" THEN Idata
    ELSE IF what = "int" THEN Idata + IntAt
    ELSE IF what = "name" THEN Idata + NamesAt
    ELSE IF what = "iat" THEN Idata + IatAt
    ELSE IF what = "module" THEN Idata + ModulesAt
    ELSE DataPlace

High(what) ==
    IF what = "headers" THEN HeadersSize
    ELSE IF what = "text" THEN HeadersSize + text
    ELSE IF what = "descriptor" THEN Idata + Len(entries) * Descriptor
    ELSE IF what = "int" THEN Idata + NamesAt
    ELSE IF what = "name" THEN Idata + IatAt
    ELSE IF what = "iat" THEN Idata + ModulesAt
    ELSE IF what = "module" THEN Idata + IdataSize
    ELSE DataPlace + data

Outside == {"headers", "text", "data"}
Inside == {"descriptor", "int", "name", "iat", "module"}

InPart(w) == /\ w.at \in Nat /\ w.size \in Nat
             /\ Low(w.what) <= w.at /\ w.at + w.size <= High(w.what)

LEMMA ImportOffsets ==
  ASSUME EntriesOK, HasIdata
  PROVE  /\ IntAt \in Nat /\ NamesAt \in Nat /\ IatAt \in Nat /\ ModulesAt \in Nat
         /\ NamesAt = IntAt + TablesSize /\ IatAt = NamesAt + NamesSize
         /\ ModulesAt = IatAt + TablesSize /\ IdataSize = ModulesAt + ModulesSize
         /\ Len(entries) * Descriptor \in Nat
         /\ IntAt = Len(entries) * Descriptor + Descriptor
         /\ Descriptor \in Nat /\ SlotSize \in Nat
         /\ TablesSize \in Nat /\ NamesSize \in Nat /\ ModulesSize \in Nat
<1>1. PICK n \in Nat : n = Len(entries)
  BY RoomsAre
<1>2. Descriptor \in Nat /\ SlotSize \in Nat
  BY StructuresAssumption
<1>3. PICK t \in Nat, m \in Nat, u \in Nat : t = TablesSize /\ m = NamesSize
      /\ u = ModulesSize
  BY SizesAre
<1>4. DescriptorsSize = Descriptor * (n + 1) /\ DescriptorsSize \in Nat
  BY <1>1, SizesAre
<1>5. Descriptor * (n + 1) = n * Descriptor + Descriptor /\ n * Descriptor \in Nat
  BY <1>2
<1>6. IntAt = DescriptorsSize /\ NamesAt = IntAt + t /\ IatAt = NamesAt + m
      /\ ModulesAt = IatAt + t
  BY <1>3 DEF IntAt, NamesAt, IatAt, ModulesAt
<1>7. IdataSize = DescriptorsSize + t * 2 + m + u
  BY <1>3 DEF IdataSize
<1>8. IntAt \in Nat /\ NamesAt \in Nat /\ IatAt \in Nat /\ ModulesAt \in Nat
  BY <1>4, <1>6
<1>9. IdataSize = ModulesAt + u
  BY <1>4, <1>6, <1>7
<1>. QED BY <1>1, <1>2, <1>3, <1>4, <1>5, <1>6, <1>8, <1>9

LEMMA PartsApart ==
  ASSUME ImageInv, Complete,
         NEW a \in Outside \union Inside, NEW b \in Outside \union Inside, a # b,
         a \in Inside \/ b \in Inside => HasIdata,
         a = "data" \/ b = "data" => data > 0
  PROVE  High(a) <= Low(b) \/ High(b) <= Low(a)
<1>1. EntriesOK
  BY DEF ImageInv, ProgramInv
<1>2. /\ HeadersSize \in Nat /\ Idata \in Nat /\ text \in Nat /\ data \in Nat
      /\ HeadersSize + text <= Idata
      /\ data > 0 => DataPlace \in Nat /\ Idata <= DataPlace
  BY PlacesAre
<1>3. CASE a \in Outside /\ b \in Outside
  BY <1>2, <1>3 DEF Low, High, Outside
<1>4. CASE a \in Inside \/ b \in Inside
  <2>1. /\ IntAt \in Nat /\ NamesAt \in Nat /\ IatAt \in Nat /\ ModulesAt \in Nat
        /\ IdataSize \in Nat
        /\ Len(entries) * Descriptor \in Nat /\ Len(entries) * Descriptor <= IntAt
        /\ IntAt <= NamesAt /\ NamesAt <= IatAt /\ IatAt <= ModulesAt
        /\ ModulesAt <= IdataSize
    <3>1. PICK n \in Nat, t \in Nat, m \in Nat, u \in Nat :
            n = Len(entries) * Descriptor /\ t = TablesSize /\ m = NamesSize
            /\ u = ModulesSize
      BY <1>1, <1>4, ImportOffsets
    <3>2. /\ IntAt \in Nat /\ NamesAt \in Nat /\ IatAt \in Nat /\ ModulesAt \in Nat
          /\ NamesAt = IntAt + t /\ IatAt = NamesAt + m /\ ModulesAt = IatAt + t
          /\ IdataSize = ModulesAt + u /\ IntAt = n + Descriptor /\ Descriptor \in Nat
      BY <1>1, <1>4, <3>1, ImportOffsets
    <3>. QED BY <3>1, <3>2
  <2>2. DataPlace \in Nat /\ Idata + IdataSize <= DataPlace
    BY <1>4, PlacesAre
  <2>. QED BY <1>2, <2>1, <2>2 DEF Low, High, Outside, Inside
<1>. QED BY <1>3, <1>4

LEMMA PartsAre ==
  ASSUME ImageInv, Complete, NEW a \in Outside \union Inside,
         a \in Inside => HasIdata, a = "data" => data > 0
  PROVE  /\ Low(a) \in Nat /\ High(a) \in Nat
         /\ a \in Inside => Idata <= Low(a) /\ High(a) <= Idata + IdataSize
<1>1. EntriesOK
  BY DEF ImageInv, ProgramInv
<1>2. CASE a \in Outside
  BY <1>2, PlacesAre DEF Low, High, Outside, Inside
<1>3. CASE a \in Inside
  <2>1. PICK n \in Nat, t \in Nat, m \in Nat, u \in Nat :
          n = Len(entries) * Descriptor /\ t = TablesSize /\ m = NamesSize
          /\ u = ModulesSize
    BY <1>1, <1>3, ImportOffsets
  <2>2. /\ IntAt \in Nat /\ NamesAt \in Nat /\ IatAt \in Nat /\ ModulesAt \in Nat
        /\ NamesAt = IntAt + t /\ IatAt = NamesAt + m /\ ModulesAt = IatAt + t
        /\ IdataSize = ModulesAt + u /\ IntAt = n + Descriptor /\ Descriptor \in Nat
    BY <1>1, <1>3, <2>1, ImportOffsets
  <2>3. PICK p \in Nat : p = Idata
    BY PlacesAre
  <2>4. CASE a = "descriptor"
    <3>1. Low(a) = p /\ High(a) = p + n
      BY <2>1, <2>3, <2>4 DEF Low, High
    <3>. QED BY <2>2, <2>3, <3>1
  <2>5. CASE a = "int"
    <3>1. Low(a) = p + IntAt /\ High(a) = p + NamesAt
      BY <2>3, <2>5 DEF Low, High
    <3>. QED BY <2>2, <2>3, <3>1
  <2>6. CASE a = "name"
    <3>1. Low(a) = p + NamesAt /\ High(a) = p + IatAt
      BY <2>3, <2>6 DEF Low, High
    <3>. QED BY <2>2, <2>3, <3>1
  <2>7. CASE a = "iat"
    <3>1. Low(a) = p + IatAt /\ High(a) = p + ModulesAt
      BY <2>3, <2>7 DEF Low, High
    <3>. QED BY <2>2, <2>3, <3>1
  <2>8. CASE a = "module"
    <3>1. Low(a) = p + ModulesAt /\ High(a) = p + IdataSize
      BY <2>3, <2>8 DEF Low, High
    <3>. QED BY <2>2, <2>3, <3>1
  <2>. QED BY <1>3, <2>4, <2>5, <2>6, <2>7, <2>8 DEF Inside
<1>. QED BY <1>2, <1>3

LEMMA ImportsWithin ==
  ASSUME ImageInv, Complete, HasIdata, NEW i \in DOMAIN entries
  PROVE  /\ InPart(DescriptorWritten(i)) /\ InPart(ModuleWritten(i))
         /\ \A k \in DOMAIN entries[i].fs :
              InPart(NameWritten(i, k)) /\ InPart(IntWritten(i, k))
              /\ InPart(IatWritten(i, k))
<1>1. EntriesOK
  BY DEF ImageInv, ProgramInv
<1>2. PICK p \in Nat : p = Idata
  BY PlacesAre
<1>3. PICK n \in Nat : n = Len(entries) /\ DOMAIN entries = 1..n
  BY <1>1, RoomsAre
<1>4. i \in 1..n
  BY <1>3
<1>5. InPart(DescriptorWritten(i))
  <2>1. PICK w : w = DescriptorWritten(i)
    OBVIOUS
  <2>2. w.at = p + (i - 1) * Descriptor /\ w.size = Descriptor /\ w.what = "descriptor"
    BY <1>2, <2>1 DEF DescriptorWritten
  <2>3. Low(w.what) = p /\ High(w.what) = p + n * Descriptor
    BY <1>2, <1>3, <2>2 DEF Low, High
  <2>4. Descriptor \in Nat /\ (i - 1) * Descriptor \in Nat /\ n * Descriptor \in Nat
        /\ (i - 1) * Descriptor + Descriptor <= n * Descriptor
    <3>1. Descriptor \in Nat
      BY StructuresAssumption
    <3>2. i - 1 \in Nat /\ (i - 1) * Descriptor + Descriptor = i * Descriptor
      BY <1>4, <3>1
    <3>3. i * Descriptor <= n * Descriptor
      BY <1>4, <3>1
    <3>. QED BY <3>1, <3>2, <3>3
  <2>. QED BY <2>1, <2>2, <2>3, <2>4 DEF InPart
<1>6. InPart(ModuleWritten(i))
  <2>1. PICK w : w = ModuleWritten(i)
    OBVIOUS
  <2>2. PICK s \in Nat, r \in Nat : s = ModuleStart(i) /\ r = ModuleRoom(i)
    BY <1>1, <1>3, <1>4, ModuleStarts, RoomsAre
  <2>3. w.at = p + ModulesAt + s /\ w.size = r /\ w.what = "module"
    BY <1>2, <2>1, <2>2 DEF ModuleWritten
  <2>4. Low(w.what) = p + ModulesAt /\ High(w.what) = p + IdataSize
    BY <1>2, <2>3 DEF Low, High
  <2>5. s + r <= ModulesSize
    <3>1. n + 1 \in 1..n + 1 /\ i < n + 1
      BY <1>4
    <3>. QED BY <1>1, <1>3, <1>4, <2>2, <3>1, ModuleStarts
  <2>6. ModulesAt \in Nat /\ ModulesSize \in Nat /\ IdataSize = ModulesAt + ModulesSize
    BY <1>1, ImportOffsets
  <2>. QED BY <2>1, <2>2, <2>3, <2>4, <2>5, <2>6 DEF InPart
<1>7. ASSUME NEW k \in DOMAIN entries[i].fs
      PROVE  InPart(NameWritten(i, k)) /\ InPart(IntWritten(i, k))
             /\ InPart(IatWritten(i, k))
  <2>1. Valid(i, k)
    BY DEF Valid
  <2>2. PICK s \in Nat, q \in Nat, r \in Nat :
          s = SlotStart(i, k) /\ q = NameStart(i, k) /\ r = NameRoom(entries[i].fs[k])
    BY <1>1, <2>1, SlotStarts, NameStarts, ValidIs
  <2>3. s + SlotSize <= TablesSize /\ q + r <= NamesSize
    BY <1>1, <2>1, <2>2, SlotStarts, NameStarts
  <2>4. /\ IntAt \in Nat /\ NamesAt \in Nat /\ IatAt \in Nat /\ ModulesAt \in Nat
        /\ NamesAt = IntAt + TablesSize /\ IatAt = NamesAt + NamesSize
        /\ ModulesAt = IatAt + TablesSize
        /\ SlotSize \in Nat /\ TablesSize \in Nat /\ NamesSize \in Nat
    BY <1>1, ImportOffsets
  <2>5. PICK u, v, w : u = NameWritten(i, k) /\ v = IntWritten(i, k) /\ w = IatWritten(i, k)
    OBVIOUS
  <2>6. /\ u.at = p + NamesAt + q /\ u.size = r /\ u.what = "name"
        /\ v.at = p + IntAt + s /\ v.size = SlotSize /\ v.what = "int"
        /\ w.at = p + IatAt + s /\ w.size = SlotSize /\ w.what = "iat"
    BY <1>2, <2>2, <2>5 DEF NameWritten, IntWritten, IatWritten
  <2>7. /\ Low(u.what) = p + NamesAt /\ High(u.what) = p + IatAt
        /\ Low(v.what) = p + IntAt /\ High(v.what) = p + NamesAt
        /\ Low(w.what) = p + IatAt /\ High(w.what) = p + ModulesAt
    BY <1>2, <2>6 DEF Low, High
  <2>8. InPart(u) /\ InPart(v) /\ InPart(w)
    BY <2>2, <2>3, <2>4, <2>6, <2>7 DEF InPart
  <2>. QED BY <2>5, <2>8
<1>. QED BY <1>5, <1>6, <1>7

LEMMA WrittenWithin ==
  ASSUME ImageInv, Complete, NEW w, Planned(w)
  PROVE  /\ InPart(w) /\ w.what \in Outside \union Inside
         /\ w.what \in Inside <=> HasIdata /\ ImportWritten(w)
         /\ w.what = "data" => data > 0 /\ w = DataWritten
         /\ w.what = "text" => w = TextWritten
         /\ w.what = "headers" => w = HeadersWritten
<1>1. CASE w = HeadersWritten
  <2>1. w.at = 0 /\ w.size = HeadersFixed + Len(sections) * SectionHeader
        /\ w.what = "headers"
    BY <1>1 DEF HeadersWritten
  <2>2. InPart(w)
    BY <2>1, PlacesAre DEF InPart, Low, High
  <2>3. ~ImportWritten(w)
    BY <2>1 DEF ImportWritten, DescriptorWritten, ModuleWritten, NameWritten, IntWritten,
       IatWritten
  <2>. QED BY <1>1, <2>1, <2>2, <2>3 DEF Outside, Inside
<1>2. CASE w = TextWritten
  <2>1. w.at = HeadersSize /\ w.size = text /\ w.what = "text"
    BY <1>2 DEF TextWritten
  <2>2. InPart(w)
    BY <2>1, PlacesAre DEF InPart, Low, High
  <2>3. ~ImportWritten(w)
    BY <2>1 DEF ImportWritten, DescriptorWritten, ModuleWritten, NameWritten, IntWritten,
       IatWritten
  <2>. QED BY <1>2, <2>1, <2>2, <2>3 DEF Outside, Inside
<1>3. CASE data > 0 /\ w = DataWritten
  <2>1. w.at = DataPlace /\ w.size = data /\ w.what = "data"
    BY <1>3 DEF DataWritten
  <2>2. InPart(w)
    BY <1>3, <2>1, PlacesAre DEF InPart, Low, High
  <2>3. ~ImportWritten(w)
    BY <2>1 DEF ImportWritten, DescriptorWritten, ModuleWritten, NameWritten, IntWritten,
       IatWritten
  <2>. QED BY <1>3, <2>1, <2>2, <2>3 DEF Outside, Inside
<1>4. CASE HasIdata /\ ImportWritten(w)
  <2>1. InPart(w)
    BY <1>4, ImportsWithin DEF ImportWritten
  <2>2. w.what \in Inside
    BY <1>4 DEF ImportWritten, DescriptorWritten, ModuleWritten, NameWritten, IntWritten,
                IatWritten, Inside
  <2>. QED BY <1>4, <2>1, <2>2 DEF Outside, Inside
<1>. QED BY <1>1, <1>2, <1>3, <1>4 DEF Planned

\* The writes of one kind, in the order of the walk
LEMMA ListedApart ==
  ASSUME ImageInv, Complete, HasIdata, NEW i \in DOMAIN entries, NEW j \in DOMAIN entries, i < j
  PROVE  /\ DescriptorWritten(i).at + DescriptorWritten(i).size <= DescriptorWritten(j).at
         /\ ModuleWritten(i).at + ModuleWritten(i).size <= ModuleWritten(j).at
<1>1. EntriesOK
  BY DEF ImageInv, ProgramInv
<1>2. PICK p \in Nat : p = Idata
  BY PlacesAre
<1>3. PICK n \in Nat : n = Len(entries) /\ DOMAIN entries = 1..n
  BY <1>1, RoomsAre
<1>4. i \in 1..n /\ j \in 1..n
  BY <1>3
<1>5. (i - 1) * Descriptor + Descriptor <= (j - 1) * Descriptor
      /\ (i - 1) * Descriptor \in Nat /\ (j - 1) * Descriptor \in Nat /\ Descriptor \in Nat
  <2>1. Descriptor \in Nat /\ i - 1 \in Nat /\ j - 1 \in Nat
    BY <1>4, StructuresAssumption
  <2>2. (i - 1) * Descriptor + Descriptor = i * Descriptor
    BY <1>4, <2>1
  <2>3. i * Descriptor <= (j - 1) * Descriptor
    BY <1>4, <2>1
  <2>. QED BY <2>1, <2>2, <2>3
<1>6. PICK a \in Nat, r \in Nat, b \in Nat :
        a = ModuleStart(i) /\ r = ModuleRoom(i) /\ b = ModuleStart(j)
  BY <1>1, <1>3, <1>4, ModuleStarts, RoomsAre
<1>7. a + r <= b
  BY <1>1, <1>3, <1>4, <1>6, ModuleStarts
<1>8. ModulesAt \in Nat
  BY <1>1, ImportOffsets
<1>9. /\ DescriptorWritten(i).at = p + (i - 1) * Descriptor
      /\ DescriptorWritten(i).size = Descriptor
      /\ DescriptorWritten(j).at = p + (j - 1) * Descriptor
  BY <1>2 DEF DescriptorWritten
<1>10. /\ ModuleWritten(i).at = p + ModulesAt + a /\ ModuleWritten(i).size = r
       /\ ModuleWritten(j).at = p + ModulesAt + b
  BY <1>2, <1>6 DEF ModuleWritten
<1>. QED BY <1>5, <1>7, <1>8, <1>9, <1>10

LEMMA PlacedApart ==
  ASSUME ImageInv, Complete, HasIdata, NEW i, NEW k, NEW j, NEW m,
         Valid(i, k), Valid(j, m), Precedes(i, k, j, m)
  PROVE  /\ NameWritten(i, k).at + NameWritten(i, k).size <= NameWritten(j, m).at
         /\ IntWritten(i, k).at + IntWritten(i, k).size <= IntWritten(j, m).at
         /\ IatWritten(i, k).at + IatWritten(i, k).size <= IatWritten(j, m).at
<1>1. EntriesOK
  BY DEF ImageInv, ProgramInv
<1>2. PICK p \in Nat : p = Idata
  BY PlacesAre
<1>3. Place(j, m) /\ Place(i, k)
  BY <1>1, ValidIs
<1>4. PICK a \in Nat, r \in Nat, b \in Nat, c \in Nat, e \in Nat :
        /\ a = NameStart(i, k) /\ r = NameRoom(entries[i].fs[k]) /\ b = NameStart(j, m)
        /\ c = SlotStart(i, k) /\ e = SlotStart(j, m)
  BY <1>1, <1>3, NameStarts, SlotStarts
<1>5. a + r <= b /\ c + SlotSize <= e
  BY <1>1, <1>3, <1>4, NameStarts, SlotStarts
<1>6. IntAt \in Nat /\ NamesAt \in Nat /\ IatAt \in Nat /\ SlotSize \in Nat
  BY <1>1, ImportOffsets
<1>7. /\ NameWritten(i, k).at = p + NamesAt + a /\ NameWritten(i, k).size = r
      /\ NameWritten(j, m).at = p + NamesAt + b
      /\ IntWritten(i, k).at = p + IntAt + c /\ IntWritten(i, k).size = SlotSize
      /\ IntWritten(j, m).at = p + IntAt + e
      /\ IatWritten(i, k).at = p + IatAt + c /\ IatWritten(i, k).size = SlotSize
      /\ IatWritten(j, m).at = p + IatAt + e
  BY <1>2, <1>4 DEF NameWritten, IntWritten, IatWritten
<1>. QED BY <1>5, <1>6, <1>7

LEMMA Ordered ==
  ASSUME EntriesOK, NEW i, NEW k, NEW j, NEW m, Valid(i, k), Valid(j, m)
  PROVE  Precedes(i, k, j, m) \/ Precedes(j, m, i, k) \/ (i = j /\ k = m)
<1>1. i \in Nat /\ j \in Nat /\ k \in Nat /\ m \in Nat
  BY ValidIs
<1>. QED BY <1>1 DEF Precedes

LEMMA ImportKinds ==
  ASSUME NEW w, ImportWritten(w)
  PROVE  /\ w.what = "descriptor" => \E i \in DOMAIN entries : w = DescriptorWritten(i)
         /\ w.what = "module" => \E i \in DOMAIN entries : w = ModuleWritten(i)
         /\ w.what = "name" => \E i \in DOMAIN entries : \E k \in DOMAIN entries[i].fs :
                                 w = NameWritten(i, k)
         /\ w.what = "int" => \E i \in DOMAIN entries : \E k \in DOMAIN entries[i].fs :
                                w = IntWritten(i, k)
         /\ w.what = "iat" => \E i \in DOMAIN entries : \E k \in DOMAIN entries[i].fs :
                                w = IatWritten(i, k)
BY DEF ImportWritten, DescriptorWritten, ModuleWritten, NameWritten, IntWritten, IatWritten

LEMMA SameKindApart ==
  ASSUME ImageInv, Complete, NEW v, NEW w, Planned(v), Planned(w), v # w, v.what = w.what
  PROVE  Apart(v.at, v.size, w.at, w.size)
<1>1. EntriesOK
  BY DEF ImageInv, ProgramInv
<1>2. v.what \in Inside
  BY WrittenWithin DEF Outside, Inside
<1>3. HasIdata /\ ImportWritten(v) /\ ImportWritten(w)
  BY <1>2, WrittenWithin
<1>4. \A i \in DOMAIN entries : i \in Nat
  BY <1>1, RoomsAre
<1>5. CASE v.what = "descriptor"
  <2>1. PICK i \in DOMAIN entries : v = DescriptorWritten(i)
    BY <1>3, <1>5, ImportKinds
  <2>2. PICK j \in DOMAIN entries : w = DescriptorWritten(j)
    BY <1>3, <1>5, ImportKinds
  <2>3. i < j \/ j < i
    BY <1>4, <2>1, <2>2
  <2>. QED BY <1>3, <2>1, <2>2, <2>3, ListedApart DEF Apart
<1>6. CASE v.what = "module"
  <2>1. PICK i \in DOMAIN entries : v = ModuleWritten(i)
    BY <1>3, <1>6, ImportKinds
  <2>2. PICK j \in DOMAIN entries : w = ModuleWritten(j)
    BY <1>3, <1>6, ImportKinds
  <2>3. i < j \/ j < i
    BY <1>4, <2>1, <2>2
  <2>. QED BY <1>3, <2>1, <2>2, <2>3, ListedApart DEF Apart
<1>7. CASE v.what = "name"
  <2>1. PICK i \in DOMAIN entries : \E k \in DOMAIN entries[i].fs : v = NameWritten(i, k)
    BY <1>3, <1>7, ImportKinds
  <2>2. PICK k \in DOMAIN entries[i].fs : v = NameWritten(i, k)
    BY <2>1
  <2>3. PICK j \in DOMAIN entries : \E m \in DOMAIN entries[j].fs : w = NameWritten(j, m)
    BY <1>3, <1>7, ImportKinds
  <2>4. PICK m \in DOMAIN entries[j].fs : w = NameWritten(j, m)
    BY <2>3
  <2>5. Valid(i, k) /\ Valid(j, m)
    BY DEF Valid
  <2>6. Precedes(i, k, j, m) \/ Precedes(j, m, i, k)
    BY <1>1, <2>2, <2>4, <2>5, Ordered
  <2>. QED BY <1>3, <2>2, <2>4, <2>5, <2>6, PlacedApart DEF Apart
<1>8. CASE v.what = "int"
  <2>1. PICK i \in DOMAIN entries : \E k \in DOMAIN entries[i].fs : v = IntWritten(i, k)
    BY <1>3, <1>8, ImportKinds
  <2>2. PICK k \in DOMAIN entries[i].fs : v = IntWritten(i, k)
    BY <2>1
  <2>3. PICK j \in DOMAIN entries : \E m \in DOMAIN entries[j].fs : w = IntWritten(j, m)
    BY <1>3, <1>8, ImportKinds
  <2>4. PICK m \in DOMAIN entries[j].fs : w = IntWritten(j, m)
    BY <2>3
  <2>5. Valid(i, k) /\ Valid(j, m)
    BY DEF Valid
  <2>6. Precedes(i, k, j, m) \/ Precedes(j, m, i, k)
    BY <1>1, <2>2, <2>4, <2>5, Ordered
  <2>. QED BY <1>3, <2>2, <2>4, <2>5, <2>6, PlacedApart DEF Apart
<1>9. CASE v.what = "iat"
  <2>1. PICK i \in DOMAIN entries : \E k \in DOMAIN entries[i].fs : v = IatWritten(i, k)
    BY <1>3, <1>9, ImportKinds
  <2>2. PICK k \in DOMAIN entries[i].fs : v = IatWritten(i, k)
    BY <2>1
  <2>3. PICK j \in DOMAIN entries : \E m \in DOMAIN entries[j].fs : w = IatWritten(j, m)
    BY <1>3, <1>9, ImportKinds
  <2>4. PICK m \in DOMAIN entries[j].fs : w = IatWritten(j, m)
    BY <2>3
  <2>5. Valid(i, k) /\ Valid(j, m)
    BY DEF Valid
  <2>6. Precedes(i, k, j, m) \/ Precedes(j, m, i, k)
    BY <1>1, <2>2, <2>4, <2>5, Ordered
  <2>. QED BY <1>3, <2>2, <2>4, <2>5, <2>6, PlacedApart DEF Apart
<1>. QED BY <1>2, <1>5, <1>6, <1>7, <1>8, <1>9 DEF Inside

LEMMA WalkPlace ==
  ASSUME ImageInv
  PROVE  Place(walk.dll, Upcoming)
<1>1. CASE walk.dll \in DOMAIN entries /\ walk.f \in 0 .. Len(entries[walk.dll].fs) + 1
  <2>1. EntriesOK
    BY DEF ImageInv, ProgramInv
  <2>2. Len(entries[walk.dll].fs) \in Nat
    BY <1>1, <2>1, EntryIs
  <2>3. Upcoming \in 1..Len(entries[walk.dll].fs) + 1
    BY <1>1, <2>2 DEF Upcoming
  <2>. QED BY <1>1, <2>3 DEF Place
<1>2. CASE walk.dll = Len(entries) + 1 /\ walk.f = 0
  BY <1>2 DEF Upcoming, Place
<1>. QED BY <1>1, <1>2 DEF ImageInv, WalkInv

\* The slots have addresses as soon as they are written.
LEMMA ImportAddress ==
  ASSUME ImageInv, NEW f \in DOMAIN addr
  PROVE  addr[f] \in Nat /\ f \in Range(functions)
<1>1. EntriesOK
  BY DEF ImageInv, ProgramInv
<1>2. PICK i \in DOMAIN entries : \E k \in DOMAIN entries[i].fs :
        Precedes(i, k, walk.dll, walk.f) /\ f = entries[i].fs[k]
  BY DEF ImageInv, TablesInv, AddressesRight
<1>3. PICK k \in DOMAIN entries[i].fs : Precedes(i, k, walk.dll, walk.f)
      /\ f = entries[i].fs[k]
  BY <1>2
<1>4. Valid(i, k)
  BY DEF Valid
<1>5. addr[f] = VA(IatAt + SlotStart(i, k))
  BY <1>3 DEF ImageInv, TablesInv, AddressesRight
<1>6. ~Untouched
  <2>1. Untouched => DOMAIN addr = {}
    BY DEF Untouched
  <2>. QED BY <2>1
<1>7. HasIdata /\ Complete
  BY <1>6 DEF ImageInv, StagesInv, Complete
<1>8. sections[2].va \in Nat
  BY <1>7, CompleteIs, PlacesAre
<1>9. IatAt \in Nat /\ SlotStart(i, k) \in Nat
  BY <1>1, <1>4, <1>7, ImportOffsets, SlotStarts
<1>10. addr[f] \in Nat
  BY <1>5, <1>8, <1>9 DEF VA
<1>. QED BY <1>1, <1>3, <1>10, EntryIs

\* A function found in a dll has an address once the walk is over.
LEMMA AllPassed ==
  ASSUME ImageInv, stage \in {"patch", "copytext", "copydata", "done"},
         NEW i \in DOMAIN entries, NEW k \in DOMAIN entries[i].fs
  PROVE  HasIdata /\ Precedes(i, k, walk.dll, walk.f) /\ i < walk.dll
<1>1. EntriesOK
  BY DEF ImageInv, ProgramInv
<1>2. PICK n \in Nat : n = Len(entries) /\ DOMAIN entries = 1..n
  BY <1>1, RoomsAre
<1>3. HasIdata
  <2>1. functions # <<>>
    <3>1. entries[i].fs[k] \in Range(functions)
      BY <1>1, EntryIs
    <3>2. functions = <<>> => Range(functions) = {}
      BY DEF Range
    <3>. QED BY <3>1, <3>2
  <2>2. entries # <<>>
    BY <1>2
  <2>3. IdataSize > 0
    <3>1. DescriptorsSize = Descriptor * (n + 1)
      BY <1>2, <2>2 DEF DescriptorsSize
    <3>2. Descriptor \in Nat \ {0}
      BY StructuresAssumption
    <3>3. Descriptor * (n + 1) > 0
      BY <3>2
    <3>4. PICK a \in Nat, b \in Nat, c \in Nat, e \in Nat :
            a = DescriptorsSize /\ b = TablesSize /\ c = NamesSize /\ e = ModulesSize
      BY <1>1, SizesAre
    <3>. QED BY <3>1, <3>3, <3>4 DEF IdataSize
  <2>. QED BY <2>1, <2>3 DEF HasIdata
<1>4. walk.dll = n + 1
  BY <1>2, <1>3 DEF ImageInv, StagesInv
<1>. QED BY <1>2, <1>3, <1>4 DEF Precedes

LEMMA FoundAddress ==
  ASSUME ImageInv, stage \in {"patch", "copytext", "copydata", "done"}, NEW f \in Found
  PROVE  f \in DOMAIN addr
<1>1. PICK i \in DOMAIN entries : f \in Range(entries[i].fs)
  BY DEF Found
<1>2. PICK k \in DOMAIN entries[i].fs : f = entries[i].fs[k]
  BY <1>1 DEF Range
<1>3. Precedes(i, k, walk.dll, walk.f)
  BY AllPassed
<1>. QED BY <1>2, <1>3 DEF ImageInv, TablesInv, AddressesRight

LEMMA RangeSmall ==
  ASSUME EntriesOK
  PROVE  IsFiniteSet(Range(functions)) /\ Cardinality(Range(functions)) <= Len(functions)
<1>1. PICK m \in Nat : m = Len(functions) /\ DOMAIN functions = 1..m
  BY DEF EntriesOK
<1>2. functions \in [1..m -> Range(functions)]
  <2>1. functions \in Seq(Externals)
    BY DEF EntriesOK
  <2>. QED BY <1>1, <2>1 DEF Range
<1>3. functions \in Surjection(1..m, Range(functions))
  BY <1>1, <1>2 DEF Surjection, Range
<1>4. IsFiniteSet(1..m) /\ Cardinality(1..m) = m
  BY FS_Interval
<1>. QED BY <1>1, <1>3, <1>4, FS_Surjection

LEMMA ImageTypes ==
  ASSUME ImageInv
  PROVE  ImageTypeOK
<1>1. EntriesOK /\ text \in TextSizes /\ data \in DataSizes
  BY DEF ImageInv, ProgramInv
<1>2. \A i \in DOMAIN sections : sections[i] \in
        [name : {"text", "idata", "data"}, size : Nat \ {0}, raw : Nat, va : Nat, ptr : Nat]
  <2>1. \A i \in DOMAIN sections : Aligned(sections[i])
    BY SectionsInOrder DEF ImageInv
  <2>. QED BY <2>1 DEF Aligned
<1>3. PICK n \in Nat : n = Len(entries) /\ DOMAIN entries = 1..n
  BY <1>1, RoomsAre
<1>4. Place(walk.dll, Upcoming)
  BY WalkPlace
<1>5. walk.dll \in 1..(Len(entries) + 1) /\ Upcoming \in Nat /\ Upcoming >= 1
  BY <1>1, <1>4, PlaceIs
<1>6. walk.hint \in 1..(Len(functions) + 1)
  <2>1. Already(walk.dll, Upcoming) \subseteq Range(functions)
    <3>1. Already(walk.dll, Upcoming) \subseteq Found
      BY <1>1, <1>4, AlreadyFound
    <3>2. Found \subseteq Range(functions)
      BY <1>1 DEF Found, EntriesOK
    <3>. QED BY <3>1, <3>2
  <2>2. PICK m \in Nat : m = Len(functions) /\ DOMAIN functions = 1..m
    BY <1>1 DEF EntriesOK
  <2>3. IsFiniteSet(Range(functions)) /\ Cardinality(Range(functions)) <= m
    BY <1>1, <2>2, RangeSmall
  <2>4. PICK c \in Nat, e \in Nat :
          c = Cardinality(Already(walk.dll, Upcoming)) /\ e = Cardinality(Range(functions))
    BY <2>1, <2>3, FS_Subset, FS_CardinalityType
  <2>5. c <= e /\ e <= m
    BY <2>1, <2>3, <2>4, FS_Subset
  <2>6. walk.hint = 1 + c
    BY <2>4 DEF ImageInv, WalkInv
  <2>. QED BY <2>2, <2>5, <2>6
<1>7. {walk.f, walk.slot, walk.table, walk.name, walk.module} \subseteq Nat
  <2>1. walk.f \in Nat
    <3>1. \A i \in DOMAIN entries : Len(entries[i].fs) \in Nat
      BY <1>1, EntryIs
    <3>. QED BY <3>1 DEF ImageInv, WalkInv
  <2>2. walk.table \in Nat /\ walk.module \in Nat
    BY <1>1, <1>5, TableStarts, ModuleStarts DEF ImageInv, WalkInv
  <2>3. walk.name \in Nat
    BY <1>1, <1>4, NameStarts DEF ImageInv, WalkInv
  <2>4. walk.slot \in Nat
    <3>1. walk.slot = TableStart(walk.dll) + (Upcoming - 1) * SlotSize
      BY DEF ImageInv, WalkInv, SlotStart
    <3>2. TableStart(walk.dll) \in Nat
      BY <1>1, <1>5, TableStarts
    <3>3. Upcoming - 1 \in Nat /\ SlotSize \in Nat
      BY <1>5, StructuresAssumption
    <3>4. (Upcoming - 1) * SlotSize \in Nat
      BY <3>3
    <3>. QED BY <3>1, <3>2, <3>4
  <2>. QED BY <2>1, <2>2, <2>3, <2>4
<1>8. DOMAIN addr \subseteq Range(functions)
  BY ImportAddress
<1>9. code \in [Range(functions) -> Nat]
  <2>1. ASSUME NEW f \in Range(functions), stage \in {"copytext", "copydata", "done"}, f \in Found
        PROVE  addr[f] + ImageBase \in Nat
    BY <2>1, FoundAddress, ImportAddress, StructuresAssumption
  <2>. QED BY <2>1 DEF ImageInv, CodeInv
<1>10. \A w \in writes : w.at \in Nat /\ w.size \in Nat
  <2>1. ASSUME NEW w \in writes PROVE w.at \in Nat /\ w.size \in Nat
    <3>1. Complete /\ Planned(w)
      BY DEF ImageInv, StagesInv, WritesInv, Complete
    <3>. QED BY <3>1, WrittenWithin DEF InPart
  <2>. QED BY <2>1
<1>11. stage \in {"text", "idata", "data", "headers", "fill", "patch", "copytext", "copydata",
                  "crash", "done"}
  BY DEF ImageInv, StagesInv
<1>. QED BY <1>1, <1>2, <1>5, <1>6, <1>7, <1>8, <1>9, <1>10, <1>11 DEF ImageTypeOK

LEMMA InPlace ==
  ASSUME ImageInv
  PROVE  WritesInPlace
<1>1. EntriesOK /\ ProgramInv
  BY DEF ImageInv, ProgramInv
<1>2. ASSUME NEW v \in writes, NEW w \in writes, v # w
      PROVE  Apart(v.at, v.size, w.at, w.size)
  <2>1. Complete /\ Planned(v) /\ Planned(w)
    BY DEF ImageInv, StagesInv, WritesInv, Complete
  <2>2. CASE v.what = w.what
    BY <1>2, <2>1, <2>2, SameKindApart
  <2>3. CASE v.what # w.what
    <3>1. /\ v.what \in Outside \union Inside /\ w.what \in Outside \union Inside
          /\ v.what \in Inside \/ w.what \in Inside => HasIdata
          /\ v.what = "data" \/ w.what = "data" => data > 0
      BY <2>1, WrittenWithin
    <3>2. High(v.what) <= Low(w.what) \/ High(w.what) <= Low(v.what)
      BY <2>1, <2>3, <3>1, PartsApart
    <3>3. InPart(v) /\ InPart(w)
      BY <2>1, WrittenWithin
    <3>5. /\ Low(v.what) \in Nat /\ High(v.what) \in Nat
          /\ Low(w.what) \in Nat /\ High(w.what) \in Nat
      BY <2>1, <3>1, PartsAre
    <3>. QED BY <3>2, <3>3, <3>5 DEF InPart, Apart
  <2>. QED BY <2>2, <2>3
<1>3. ASSUME NEW w \in writes
      PROVE  IF w.what = "headers" THEN w.at + w.size <= HeadersSize
             ELSE IF w.what = "data" /\ ~HasIdata THEN w.at = FileSize
             ELSE \E i \in DOMAIN sections : /\ sections[i].name = SectionOf(w.what)
                                             /\ sections[i].ptr <= w.at
                                             /\ w.at + w.size <= sections[i].ptr + sections[i].size
  <2>1. Complete /\ Planned(w)
    BY DEF ImageInv, StagesInv, WritesInv, Complete
  <2>2. InPart(w) /\ w.what \in Outside \union Inside
    BY <2>1, WrittenWithin
  <2>3. CASE w.what = "headers"
    BY <2>2, <2>3 DEF InPart, High
  <2>4. CASE w.what = "text"
    <3>1. /\ 1 \in DOMAIN sections /\ sections[1].name = "text"
          /\ sections[1].ptr = HeadersSize
          /\ sections[1].size = text
      BY <1>1, <2>1, CompleteIs, SectionsAre
    <3>2. HeadersSize <= w.at /\ w.at + w.size <= HeadersSize + text
      BY <2>2, <2>4 DEF InPart, Low, High
    <3>3. SectionOf(w.what) = "text"
      BY <2>4 DEF SectionOf
    <3>. QED BY <2>4, <3>1, <3>2, <3>3
  <2>5. CASE w.what = "data" /\ ~HasIdata
    <3>1. w.at = DataPlace /\ data > 0
      BY <2>1, <2>5, WrittenWithin DEF DataWritten
    <3>. QED BY <2>1, <2>5, <3>1, PlacesAre
  <2>6. CASE w.what = "data" /\ HasIdata
    <3>1. w = DataWritten /\ data > 0
      BY <2>1, <2>6, WrittenWithin
    <3>2. /\ 3 \in DOMAIN sections /\ sections[3].name = "data"
          /\ sections[3].ptr = DataPlace
          /\ sections[3].size = data
      BY <1>1, <2>1, <2>6, <3>1, CompleteIs, SectionsAre, PlacesAre
    <3>3. w.at = DataPlace /\ w.size = data /\ DataPlace \in Nat /\ data \in Nat
      BY <2>1, <2>6, <3>1, PlacesAre DEF DataWritten
    <3>4. SectionOf(w.what) = "data"
      BY <2>6 DEF SectionOf
    <3>. QED BY <2>6, <3>2, <3>3, <3>4
  <2>7. CASE w.what \in Inside
    <3>1. HasIdata
      BY <2>1, <2>7, WrittenWithin
    <3>2. /\ 2 \in DOMAIN sections /\ sections[2].name = "idata" /\ sections[2].ptr = Idata
          /\ sections[2].size = IdataSize
      BY <1>1, <2>1, <3>1, CompleteIs, SectionsAre, PlacesAre
    <3>3. Idata \in Nat /\ w.at \in Nat /\ w.size \in Nat
      BY <2>1, <2>2, PlacesAre DEF InPart
    <3>4. Idata <= w.at /\ w.at + w.size <= Idata + IdataSize
      <4>3. Idata <= Low(w.what) /\ High(w.what) <= Idata + IdataSize
            /\ Low(w.what) \in Nat /\ High(w.what) \in Nat
        BY <2>1, <2>7, <3>1, PartsAre DEF Inside
      <4>4. Low(w.what) <= w.at /\ w.at + w.size <= High(w.what) /\ IdataSize \in Nat
        BY <1>1, <2>2, SizesAre DEF InPart
      <4>. QED BY <3>3, <4>3, <4>4
    <3>5. SectionOf(w.what) = "idata"
      BY <2>7 DEF SectionOf, Inside
    <3>. QED BY <2>7, <3>2, <3>4, <3>5 DEF Inside
  <2>. QED BY <2>2, <2>3, <2>4, <2>5, <2>6, <2>7 DEF Outside
<1>. QED BY <1>2, <1>3, ImageTypes DEF WritesInPlace

-----------------------------------------------------------------------------
(* What the loader reads *)

\* A slot is in the table just if it is one of the functions', not the one
\* after the last.
LEMMA SlotsOfTable ==
  ASSUME EntriesOK, NEW t0 \in Nat, NEW T, SlotsRight(t0, T, Len(entries) + 1, 0),
         NEW i \in DOMAIN entries
  PROVE  /\ \A j \in 0 .. Len(entries[i].fs) - 1 :
              /\ t0 + TableStart(i) + j * SlotSize \in DOMAIN T
              /\ T[t0 + TableStart(i) + j * SlotSize] = VA(NamesAt + NameStart(i, j + 1))
         /\ t0 + TableStart(i) + Len(entries[i].fs) * SlotSize \notin DOMAIN T
<1>1. PICK n \in Nat : n = Len(entries) /\ DOMAIN entries = 1..n
  BY RoomsAre
<1>2. PICK l \in Nat : l = Len(entries[i].fs) /\ DOMAIN entries[i].fs = 1..l
  BY EntryIs
<1>3. PICK s \in Nat : s = TableStart(i)
  BY <1>1, TableStarts
<1>4. SlotSize \in Nat \ {0}
  BY StructuresAssumption
<1>5. TableRoom(i) = SlotSize * (l + 1)
  BY <1>2 DEF TableRoom
<1>6. i \in 1..n
  BY <1>1
<1>7. ASSUME NEW j \in 0 .. l - 1
      PROVE  /\ t0 + s + j * SlotSize \in DOMAIN T
             /\ T[t0 + s + j * SlotSize] = VA(NamesAt + NameStart(i, j + 1))
  <2>1. j + 1 \in DOMAIN entries[i].fs /\ (j + 1) - 1 = j /\ j \in Nat
    BY <1>2
  <2>2. j * SlotSize \in Nat
    BY <1>4, <2>1
  <2>3. t0 + SlotStart(i, j + 1) = t0 + s + j * SlotSize
    BY <1>3, <2>1, <2>2 DEF SlotStart
  <2>4. Precedes(i, j + 1, n + 1, 0)
    BY <1>6 DEF Precedes
  <2>5. t0 + SlotStart(i, j + 1) \in DOMAIN T
        /\ T[t0 + SlotStart(i, j + 1)] = VA(NamesAt + NameStart(i, j + 1))
    BY <1>1, <2>1, <2>4 DEF SlotsRight
  <2>. QED BY <2>3, <2>5
<1>8. ASSUME t0 + s + l * SlotSize \in DOMAIN T PROVE FALSE
  <2>1. PICK j \in DOMAIN entries : \E k \in DOMAIN entries[j].fs :
          t0 + s + l * SlotSize = t0 + SlotStart(j, k)
    BY <1>1, <1>8 DEF SlotsRight
  <2>2. PICK k \in DOMAIN entries[j].fs : t0 + s + l * SlotSize = t0 + SlotStart(j, k)
    BY <2>1
  <2>3. Valid(j, k) /\ j \in 1..n /\ k \in 1..Len(entries[j].fs)
        /\ Len(entries[j].fs) \in Nat
    BY <1>1, EntryIs DEF Valid
  <2>4. PICK t \in Nat : t = TableStart(j)
    BY <1>1, <2>3, TableStarts
  <2>5. PICK x \in Nat, y \in Nat : x = l * SlotSize /\ y = (k - 1) * SlotSize
    <3>1. k - 1 \in Nat
      BY <2>3
    <3>. QED BY <1>4, <3>1
  <2>6. s + x = t + y
    <3>1. SlotStart(j, k) = t + y
      BY <2>4, <2>5 DEF SlotStart
    <3>2. t0 + s + x = t0 + (t + y)
      BY <2>2, <2>5, <3>1
    <3>. QED BY <3>2
  <2>7. CASE j < i
    <3>1. SlotStart(j, k) + 2 * SlotSize <= TableStart(i)
      BY <1>1, <1>6, <2>3, <2>7, SlotStarts
    <3>2. t + y + 2 * SlotSize <= s
      BY <1>3, <2>4, <2>5, <3>1 DEF SlotStart
    <3>. QED BY <1>4, <2>6, <3>2
  <2>8. CASE j = i
    <3>1. x = y
      BY <1>3, <2>4, <2>6, <2>8
    <3>2. k <= l
      BY <1>2, <2>3, <2>8
    <3>3. k * SlotSize <= l * SlotSize /\ (k - 1) * SlotSize + SlotSize = k * SlotSize
      BY <1>4, <2>3, <3>2
    <3>. QED BY <1>4, <2>5, <3>1, <3>3
  <2>9. CASE i < j
    <3>1. s + SlotSize * (l + 1) <= t
      BY <1>1, <1>3, <1>5, <1>6, <2>3, <2>4, <2>9, TableStarts
    <3>2. SlotSize * (l + 1) = x + SlotSize
      BY <1>4, <2>5
    <3>. QED BY <1>4, <2>6, <3>1, <3>2
  <2>. QED BY <1>6, <2>3, <2>7, <2>8, <2>9
<1>. QED BY <1>2, <1>3, <1>7, <1>8

LEMMA ManyFunctions ==
  ASSUME EntriesOK, NEW i \in DOMAIN entries
  PROVE  Len(entries[i].fs) <= Len(functions)
<1>1. PICK l \in Nat : l = Len(entries[i].fs) /\ DOMAIN entries[i].fs = 1..l
  BY EntryIs
<1>2. PICK g : g = entries[i].fs
  OBVIOUS
<1>3. g \in [1..l -> Range(functions)] /\ IsInjective(g)
  <2>1. g \in Seq(Externals) /\ \A k \in 1..l : g[k] \in Range(functions)
    BY <1>1, <1>2, EntryIs
  <2>. QED BY <1>1, <1>2, <2>1 DEF EntriesOK
<1>4. g \in Injection(1..l, Range(functions))
  BY <1>1, <1>2, <1>3 DEF Injection, IsInjective
<1>5. Cardinality(1..l) = l
  BY FS_Interval
<1>6. IsFiniteSet(Range(functions)) /\ Cardinality(Range(functions)) <= Len(functions)
  BY RangeSmall
<1>7. l <= Cardinality(Range(functions)) /\ Cardinality(Range(functions)) \in Nat
  BY <1>4, <1>5, <1>6, FS_Injection, FS_CardinalityType
<1>8. Len(functions) \in Nat
  BY DEF EntriesOK
<1>. QED BY <1>1, <1>6, <1>7, <1>8

LEMMA TableRead ==
  ASSUME EntriesOK, NEW t0 \in Nat, NEW T, SlotsRight(t0, T, Len(entries) + 1, 0),
         NamesRight(tables.names, Len(entries) + 1, 0), sections[2].va \in Nat, NamesAt \in Nat,
         NEW i \in DOMAIN entries
  PROVE  TableFrom(T, t0 + TableStart(i)) = entries[i].fs
<1>1. PICK l \in Nat : l = Len(entries[i].fs) /\ DOMAIN entries[i].fs = 1..l
  BY EntryIs
<1>2. PICK m \in Nat : m = Len(functions) /\ l <= m
  <2>1. Len(functions) \in Nat
    BY DEF EntriesOK
  <2>. QED BY <1>1, <2>1, ManyFunctions
<1>3. PICK o : o = t0 + TableStart(i)
  OBVIOUS
<1>4. /\ \A j \in 0 .. l - 1 : /\ o + j * SlotSize \in DOMAIN T
                               /\ T[o + j * SlotSize] = VA(NamesAt + NameStart(i, j + 1))
      /\ o + l * SlotSize \notin DOMAIN T
  BY <1>1, <1>3, SlotsOfTable
<1>. DEFINE used == {k \in 0..m : \A j \in 0..k : o + j * SlotSize \in DOMAIN T}
<1>5. used = 0 .. l - 1
  <2>1. ASSUME NEW k \in used PROVE k \in 0 .. l - 1
    <3>1. ~(l \in 0..k)
      BY <1>4
    <3>. QED BY <3>1
  <2>2. ASSUME NEW k \in 0 .. l - 1 PROVE k \in used
    <3>1. k \in 0..m /\ \A j \in 0..k : j \in 0 .. l - 1
      BY <1>2
    <3>. QED BY <1>4, <3>1
  <2>. QED BY <2>1, <2>2
<1>6. Cardinality(used) = l
  <2>. HIDE DEF used
  <2>. QED BY <1>5, FS_Interval
<1>. DEFINE Named(k) == tables.names[Offset(T[o + (k - 1) * SlotSize])].f
<1>7. ASSUME NEW k \in 1..l PROVE Named(k) = entries[i].fs[k]
  <2>1. PICK j \in 0 .. l - 1 : j = k - 1 /\ k = j + 1
    BY <1>7
  <2>2. T[o + (k - 1) * SlotSize] = VA(NamesAt + NameStart(i, k))
    BY <1>4, <2>1
  <2>3. Valid(i, k)
    BY <1>1 DEF Valid
  <2>4. PICK x \in Nat : x = NamesAt + NameStart(i, k)
    BY <2>3, NameStarts, ValidIs
  <2>5. Offset(VA(x)) = x
    BY <2>4 DEF Offset, VA
  <2>6. Precedes(i, k, Len(entries) + 1, 0)
    BY <2>3, ValidIs DEF Precedes
  <2>7. tables.names[x].f = entries[i].fs[k]
    BY <1>1, <2>4, <2>6 DEF NamesRight
  <2>. QED BY <2>2, <2>4, <2>5, <2>7
<1>8. TableFrom(T, o) = [k \in 1..Cardinality(used) |-> Named(k)]
  BY <1>2 DEF TableFrom
<1>9. entries[i].fs = [k \in 1..l |-> entries[i].fs[k]]
  BY <1>1, EntryIs
<1>. HIDE DEF Named, used
<1>10. [k \in 1..l |-> Named(k)] = [k \in 1..l |-> entries[i].fs[k]]
  BY <1>7
<1>. QED BY <1>3, <1>6, <1>8, <1>9, <1>10

LEMMA FilledTables ==
  ASSUME ImageInv, stage \in {"copytext", "copydata", "done"}, HasIdata
  PROVE  /\ SlotsRight(IntAt, tables.int, Len(entries) + 1, 0)
         /\ SlotsRight(IatAt, tables.iat, Len(entries) + 1, 0)
         /\ NamesRight(tables.names, Len(entries) + 1, 0)
         /\ ModulesRight(tables.modules, Len(entries) + 1)
         /\ DOMAIN tables.descriptors = DOMAIN entries
         /\ \A i \in DOMAIN entries : tables.descriptors[i] = DescriptorOf(i)
         /\ sections[2].va \in Nat /\ Complete
<1>1. PICK n \in Nat : n = Len(entries) /\ DOMAIN entries = 1..n
  BY RoomsAre DEF ImageInv, ProgramInv
<1>2. walk.dll = n + 1 /\ walk.f = 0
  <2>1. walk.dll = n + 1
    BY <1>1 DEF ImageInv, StagesInv
  <2>. QED BY <1>1, <2>1 DEF ImageInv, WalkInv
<1>3. Complete /\ sections[2].va \in Nat
  <2>1. Complete
    BY DEF Complete
  <2>. QED BY <2>1, CompleteIs, PlacesAre
<1>4. Len(tables.descriptors) = n /\ tables.descriptors = [i \in 1..n |-> DescriptorOf(i)]
  BY <1>2 DEF ImageInv, TablesInv, DescriptorsRight
<1>5. DOMAIN tables.descriptors = 1..n /\ \A i \in 1..n : tables.descriptors[i] = DescriptorOf(i)
  BY <1>4
<1>. QED BY <1>1, <1>2, <1>3, <1>5 DEF ImageInv, TablesInv

LEMMA LoaderFinds ==
  ASSUME ImageInv
  PROVE  LoaderFindsImports
<1>1. SUFFICES ASSUME stage \in {"copytext", "copydata", "done"}
      PROVE  /\ HasIdata =>
                  /\ ImportsRead = [i \in DOMAIN entries |->
                       [dll |-> entries[i].dll, int |-> entries[i].fs, iat |-> entries[i].fs]]
                  /\ \A w \in writes : w.what # "descriptor" =>
                       Apart(w.at, w.size, Idata + Len(entries) * Descriptor, Descriptor)
             /\ \A i \in DOMAIN entries : \A k \in DOMAIN entries[i].fs :
                  code[entries[i].fs[k]] = ImageBase + SlotAddress(i, k)
             /\ \A f \in DOMAIN code \ Found : code[f] = 0
  BY DEF LoaderFindsImports
<1>2. EntriesOK /\ Complete
  BY <1>1 DEF ImageInv, ProgramInv, Complete
<1>3. ASSUME HasIdata
      PROVE  ImportsRead = [i \in DOMAIN entries |->
               [dll |-> entries[i].dll, int |-> entries[i].fs, iat |-> entries[i].fs]]
  <2>1. /\ SlotsRight(IntAt, tables.int, Len(entries) + 1, 0)
        /\ SlotsRight(IatAt, tables.iat, Len(entries) + 1, 0)
        /\ NamesRight(tables.names, Len(entries) + 1, 0)
        /\ ModulesRight(tables.modules, Len(entries) + 1)
        /\ DOMAIN tables.descriptors = DOMAIN entries
        /\ \A i \in DOMAIN entries : tables.descriptors[i] = DescriptorOf(i)
        /\ sections[2].va \in Nat
    BY <1>1, <1>3, FilledTables
  <2>2. IntAt \in Nat /\ NamesAt \in Nat /\ IatAt \in Nat /\ ModulesAt \in Nat
    BY <1>2, <1>3, ImportOffsets
  <2>3. ASSUME NEW i \in DOMAIN entries
        PROVE  /\ tables.modules[Offset(tables.descriptors[i].module)] = entries[i].dll
               /\ TableFrom(tables.int, Offset(tables.descriptors[i].int)) = entries[i].fs
               /\ TableFrom(tables.iat, Offset(tables.descriptors[i].iat)) = entries[i].fs
    <3>1. i \in 1..Len(entries) /\ i < Len(entries) + 1 /\ i \in 1..Len(entries) + 1
      BY <1>2, RoomsAre
    <3>2. PICK s \in Nat, m \in Nat : s = TableStart(i) /\ m = ModuleStart(i)
      BY <1>2, <3>1, TableStarts, ModuleStarts
    <3>3. \A x \in Nat : Offset(VA(x)) = x
      BY <2>1 DEF Offset, VA
    <3>4. IntAt + s \in Nat /\ IatAt + s \in Nat /\ ModulesAt + m \in Nat
      BY <2>2
    <3>5. /\ tables.descriptors[i].int = VA(IntAt + s)
          /\ tables.descriptors[i].iat = VA(IatAt + s)
          /\ tables.descriptors[i].module = VA(ModulesAt + m)
      <4>1. tables.descriptors[i] = DescriptorOf(i)
        BY <2>1
      <4>. QED BY <3>2, <4>1 DEF DescriptorOf
    <3>6. tables.modules[ModulesAt + m] = entries[i].dll
      BY <2>1, <3>1, <3>2 DEF ModulesRight
    <3>7. TableFrom(tables.int, IntAt + s) = entries[i].fs
      BY <1>2, <2>1, <2>2, <3>2, TableRead
    <3>8. TableFrom(tables.iat, IatAt + s) = entries[i].fs
      BY <1>2, <2>1, <2>2, <3>2, TableRead
    <3>. QED BY <3>3, <3>4, <3>5, <3>6, <3>7, <3>8
  <2>. QED BY <2>1, <2>3 DEF ImportsRead
<1>4. ASSUME HasIdata, NEW w \in writes, w.what # "descriptor"
      PROVE  Apart(w.at, w.size, Idata + Len(entries) * Descriptor, Descriptor)
  <2>1. Planned(w)
    BY DEF ImageInv, WritesInv
  <2>2. /\ InPart(w) /\ w.what \in Outside \union Inside
        /\ w.what \in Inside => HasIdata
        /\ w.what = "data" => data > 0
    BY <1>2, <2>1, WrittenWithin
  <2>3. PICK a : a = w.what
    OBVIOUS
  <2>4. Low(a) \in Nat /\ High(a) \in Nat
    BY <1>2, <2>2, <2>3, PartsAre
  <2>5. PICK n \in Nat, t \in Nat, m \in Nat, u \in Nat :
          n = Len(entries) * Descriptor /\ t = TablesSize /\ m = NamesSize
          /\ u = ModulesSize
    BY <1>2, <1>4, ImportOffsets
  <2>6. /\ IntAt \in Nat /\ NamesAt \in Nat /\ IatAt \in Nat /\ ModulesAt \in Nat
        /\ NamesAt = IntAt + t /\ IatAt = NamesAt + m /\ ModulesAt = IatAt + t
        /\ IdataSize = ModulesAt + u /\ IntAt = n + Descriptor /\ Descriptor \in Nat
    BY <1>2, <1>4, <2>5, ImportOffsets
  <2>7. /\ HeadersSize \in Nat /\ Idata \in Nat /\ text \in Nat
        /\ HeadersSize + text <= Idata /\ DataPlace \in Nat
        /\ Idata + IdataSize <= DataPlace
    BY <1>2, <1>4, PlacesAre
  <2>8. High(a) <= Idata \/ Idata + IntAt <= Low(a)
    <3>1. CASE a = "headers" \/ a = "text"
      BY <2>7, <3>1 DEF High
    <3>2. CASE a \in {"int", "name", "iat", "module", "data"}
      BY <2>6, <2>7, <3>2 DEF Low
    <3>. QED BY <1>4, <2>2, <2>3, <3>1, <3>2 DEF Outside, Inside
  <2>9. Low(a) <= w.at /\ w.at + w.size <= High(a) /\ w.at \in Nat /\ w.size \in Nat
    BY <2>2, <2>3 DEF InPart
  <2>10. w.at + w.size <= Idata + n \/ Idata + n + Descriptor <= w.at
    BY <2>4, <2>6, <2>7, <2>8, <2>9
  <2>. QED BY <2>5, <2>10 DEF Apart
<1>5. ASSUME NEW i \in DOMAIN entries, NEW k \in DOMAIN entries[i].fs
      PROVE  code[entries[i].fs[k]] = ImageBase + SlotAddress(i, k)
  <2>1. HasIdata /\ Precedes(i, k, walk.dll, walk.f)
    BY <1>1, AllPassed
  <2>2. PICK f : f = entries[i].fs[k]
    OBVIOUS
  <2>3. f \in Found /\ f \in Range(functions)
    BY <1>2, <2>2, EntryIs
  <2>4. addr[f] = VA(IatAt + SlotStart(i, k))
    BY <2>1, <2>2 DEF ImageInv, TablesInv, AddressesRight
  <2>5. code[f] = addr[f] + ImageBase
    BY <1>1, <2>3 DEF ImageInv, CodeInv
  <2>6. tables.descriptors[i].iat = VA(IatAt + TableStart(i))
    <3>1. tables.descriptors[i] = DescriptorOf(i)
      BY <1>1, <2>1, FilledTables
    <3>. QED BY <3>1 DEF DescriptorOf
  <2>7. sections[2].va \in Nat /\ IatAt \in Nat /\ ImageBase \in Nat
    BY <1>1, <1>2, <2>1, FilledTables, ImportOffsets, StructuresAssumption
  <2>8. PICK s \in Nat, q \in Nat : s = TableStart(i) /\ q = (k - 1) * SlotSize
    <3>1. k \in 1..Len(entries[i].fs) /\ i \in 1..Len(entries) + 1
      BY <1>2, EntryIs, RoomsAre
    <3>2. k - 1 \in Nat /\ SlotSize \in Nat
      BY <3>1, StructuresAssumption
    <3>3. (k - 1) * SlotSize \in Nat
      BY <3>2
    <3>. QED BY <1>2, <3>1, <3>3, TableStarts
  <2>9. SlotStart(i, k) = s + q
    BY <2>8 DEF SlotStart
  <2>10. SlotAddress(i, k) = sections[2].va + (IatAt + s) + q
    BY <2>6, <2>8 DEF SlotAddress, VA
  <2>11. code[f] = sections[2].va + (IatAt + (s + q)) + ImageBase
    BY <2>4, <2>5, <2>9 DEF VA
  <2>. QED BY <2>2, <2>7, <2>10, <2>11
<1>6. \A f \in DOMAIN code \ Found : code[f] = 0
  BY DEF ImageInv, CodeInv
<1>. QED BY <1>3, <1>4, <1>5, <1>6

-----------------------------------------------------------------------------
(* The theorems *)

\* The sections of every executable are apart, in memory and in the file,
\* aligned and in the image (pe_add_section).
THEOREM SectionsAreApart == ImageSpec => []SectionsApart
<1>1. ImageInv => SectionsApart
  BY OrderedAreApart DEF ImageInv
<1>. QED BY <1>1, ImageInvariance, PTL

\* What is written to the file stays in its section and overwrites nothing,
\* however many dlls and functions there are and however long their names
\* (write_pe_exe).
THEOREM WritesStayInPlace == ImageSpec => []WritesInPlace
<1>1. ImageInv => WritesInPlace
  BY InPlace
<1>. QED BY <1>1, ImageInvariance, PTL

\* The loader reads back the functions found, dll by dll, and each call goes
\* to the slot of its function.
THEOREM ImportsAreFound == ImageSpec => []LoaderFindsImports
<1>1. ImageInv => LoaderFindsImports
  BY LoaderFinds
<1>. QED BY <1>1, ImageInvariance, PTL

\* The data is where main.c expects it just if there are imports and they fit
\* a page.
THEOREM DataIsExpectedBehindImports == ImageSpec => []DataWhereExpected
<1>1. ImageInv => DataWhereExpected
  BY DataIsWhereExpected DEF ImageInv
<1>. QED BY <1>1, ImageInvariance, PTL
=============================================================================
