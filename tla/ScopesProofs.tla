---------------------------- MODULE ScopesProofs ----------------------------
(***************************************************************************)
(* Proofs about Scopes for every program: names are found only in the      *)
(* blocks and functions around their use, the code generator loses no name *)
(* but one that sema has reported (SymbolsVisible), and it finds what sema *)
(* found, or a symbol declared since (ResolvedAlike).                      *)
(*                                                                         *)
(* The blocks around a block are the smallest set that holds it and is     *)
(* closed under parents, so that they follow by a step from those of the   *)
(* parent (AncestorsOf).  The stack of each pass holds exactly the blocks  *)
(* around the statement it is at (Stacked), a block's symbols are declared *)
(* in it or around it (Declared), and what sema has found in one of these  *)
(* blocks stays there for the generator (Findable).                        *)
(*                                                                         *)
(* The stack is different at each statement, so for ResolvedAlike a        *)
(* statement's lookup is first told without it: what is found is with the  *)
(* innermost block around the statement that has the name (Innermost).     *)
(* That says what an entry made since can change: the entry itself is      *)
(* found, or nothing has changed (EntryFound).                             *)
(***************************************************************************)
EXTENDS Scopes, FiniteSetTheorems, WellFoundedInduction, SequenceTheorems, TLAPS

-----------------------------------------------------------------------------
(* The inductive invariant of SymbolsVisible *)

Statements == [op : {"scope", "func", "proto", "end", "decl", "use", "call"},
               name : Names \union {NULL}, init : Names \union {NULL},
               params : SUBSET Names, block : Nat, body : Nat]
Blocks == [parent : Nat, func : Nat,
           locals : [Names -> [decl : Nat, kind : {"var", "func", "param", "none"}]]]
Items == [kind : {"scope", "func"}, id : Nat]
Types == /\ prog \in Seq(Statements) /\ blocks \in Seq(Blocks)
         /\ at \in 0..Len(prog) /\ success \in BOOLEAN
         /\ pc \in {"parse", "sema", "gen", "rejected", "crash", "lost", "sizeless", "done"}

\* The blocks form a tree, and a body belongs to the statement that opens it.
Opens(p) == prog[p].op \in {"scope", "func"}
IsTree(B) == /\ Len(B) \in Nat /\ Len(B) >= 1 /\ B[1].parent = 0 /\ B[1].func = 0
             /\ \A b \in 2..Len(B) : B[b].parent \in 1..(b - 1)
Tree == /\ IsTree(blocks)
        /\ \A b \in 1..Len(blocks) : blocks[b].func # 0 =>
             /\ blocks[b].func \in 1..Len(prog)
             /\ prog[blocks[b].func].op = "func" /\ prog[blocks[b].func].body = b
        /\ \A p \in 1..Len(prog) : Opens(p) =>
             /\ prog[p].body \in 2..Len(blocks)
             /\ blocks[prog[p].body].parent = prog[p].block
             /\ blocks[prog[p].body].func = (IF prog[p].op = "func" THEN p ELSE 0)
        /\ \A p \in 1..Len(prog) : prog[p].op \in {"func", "proto", "decl", "use", "call"} =>
             prog[p].name \in Names
        /\ \A p \in 1..Len(prog) : prog[p].op \in {"use", "call"} => prog[p].block # 1

\* Each statement is in the block that the one before it leaves its pass in.
After(p) == IF p = 0 THEN 1
            ELSE IF Opens(p) THEN prog[p].body
            ELSE IF prog[p].op = "end" THEN blocks[prog[p].block].parent
            ELSE prog[p].block
Nested == \A p \in 1..Len(prog) :
            prog[p].block = After(p - 1) /\ {prog[p].block, After(p)} \subseteq 1..Len(blocks)

\* The stack holds the block the pass is in and those around it, and below the
\* body of a function the function, which the parser does not push.
Linked(B, parsing, s, j) ==
    LET b == s[j].id
    IN  /\ b \in 2..Len(B)
        /\ IF parsing \/ B[b].func = 0
             THEN s[j - 1] = BlockItem(B[b].parent)
             ELSE /\ j > 2 /\ s[j - 1] = FunctionItem(B[b].func)
                  /\ s[j - 2] = BlockItem(B[b].parent)
Stack(B, parsing, s, b) ==
    /\ s \in Seq(Items) /\ s # <<>>
    /\ s[1] = BlockItem(1) /\ s[Len(s)] = BlockItem(b)
    /\ \A j \in 2..Len(s) : s[j].kind = "scope" => Linked(B, parsing, s, j)
    /\ \A j \in 1..Len(s) : s[j].kind = "func" =>
         j < Len(s) /\ \E c \in 2..Len(B) : /\ s[j + 1] = BlockItem(c)
                                            /\ s[j].id # 0 /\ B[c].func = s[j].id
    /\ \A j \in 1..Len(s) : s[j].kind = "scope" =>
         AncestorsIn(B, s[j].id) = {s[i].id : i \in {k \in 1..j : s[k].kind = "scope"}}
Reached == IF pc = "parse" THEN Len(prog) ELSE at
Stacked == Stack(blocks, pc = "parse", scopes, After(Reached))

\* A block's symbols are declared in it or around it.
Declared == \A b \in 1..Len(blocks), n \in Names : blocks[b].locals[n] # None =>
              LET symbol == blocks[b].locals[n]
              IN  /\ symbol.decl \in 1..Len(prog) /\ symbol.kind \in {"var", "func"}
                  /\ prog[symbol.decl].block \in Ancestors(b)

\* What sema resolved can be found again by the generator, if it has a value.
NameUsed(p) == IF prog[p].op = "decl" THEN prog[p].init ELSE prog[p].name
FindableFrom(b, n) ==
    \E a \in Ancestors(b) : \/ blocks[a].locals[n] # None
                            \/ blocks[a].func # 0 /\ n \in prog[blocks[a].func].params
Findable(p) == FindableFrom(prog[p].block, NameUsed(p))
ResolvedOnes ==
    /\ DOMAIN res \subseteq 1..Len(prog)
    /\ \A p \in DOMAIN res :
         /\ NameUsed(p) \in Names /\ prog[p].op \in {"decl", "use", "call"}
         /\ res[p] = None \/ res[p] \in [decl : 1..Len(prog), kind : {"var", "func", "param"}]
         /\ res[p].kind \in {"var", "param"} => Findable(p)

\* The errors that sema lets pass are those of initializers.
Checked == CASE pc = "sema" -> at [] pc = "gen" -> Len(prog) [] OTHER -> 0
Passed == /\ pc = "sema" /\ Len(scopes) = 1 => success
          /\ pc = "gen" => success
          /\ \A p \in 1..Checked :
               /\ prog[p].op = "use" => p \in DOMAIN res /\ (success => res[p] # None)
               /\ prog[p].op = "decl" /\ prog[p].init # NULL =>
                    p \in DOMAIN res /\ (success => res[p].kind # "func")

IInv == /\ Types /\ Tree /\ Nested /\ Stacked /\ Declared /\ ResolvedOnes /\ Passed
        /\ IF pc = "parse" THEN at = 0 /\ res = <<>> /\ success ELSE After(Len(prog)) = 1
        /\ pc = "lost" => Here.op = "decl" /\ res[at + 1] = None

-----------------------------------------------------------------------------
(* The inductive invariant of ResolvedAlike *)

\* What the two lookups find with a block: its own symbol, or that of the
\* function whose body it is.
Lookups == {"local_exist", "symbol_gen"}
InBlock(by, a, n) ==
    LET f == blocks[a].func
    IN  IF blocks[a].locals[n] # None THEN blocks[a].locals[n]
        ELSE IF f = 0 THEN None
        ELSE IF by = "local_exist" /\ prog[f].name = n THEN Symbol(f, "func")
        ELSE IF n \in prog[f].params THEN Symbol(f, "param")
        ELSE None

\* An inner block has the greater number.
Innermost(by, b, n) ==
    LET hits == {a \in Ancestors(b) : InBlock(by, a, n) # None}
    IN  IF hits = {} THEN None ELSE InBlock(by, Max(hits), n)

\* Whatever has been entered since, both lookups find what sema found, or a
\* symbol entered since; symbol_gen only if it was not a function's name.
Same(y, p) == y = res[p] \/ (y.kind \in {"var", "func"} /\ y.decl >= p)
Alike ==
    /\ pc \in {"parse", "sema"} => DOMAIN res \subseteq 1..at
    /\ \A p \in DOMAIN res, by \in Lookups :
         by = "local_exist" \/ res[p].kind # "func" =>
           Same(Innermost(by, prog[p].block, NameUsed(p)), p)

-----------------------------------------------------------------------------
(* Sets of places, and blocks around blocks *)

LEMMA Greatest ==
  ASSUME NEW N \in Nat, NEW S \in SUBSET (1..N), S # {}
  PROVE  Max(S) \in S /\ \A j \in S : j <= Max(S)
<1>. DEFINE T == {N - j : j \in S}
<1>1. T \in SUBSET Nat /\ T # {}
  <2>1. \A j \in S : j \in 1..N
    OBVIOUS
  <2>2. \A j \in S : N - j \in Nat
    BY <2>1
  <2>3. PICK j \in S : TRUE
    OBVIOUS
  <2>4. N - j \in T
    OBVIOUS
  <2>. QED BY <2>2, <2>4
<1>2. PICK m \in T : \A n \in T : m <= n
  <2>. DEFINE R == OpToRel(<, Nat)
  <2>1. \A x, y \in Nat : <<x, y>> \in R <=> x < y
    BY DEF OpToRel
  <2>2. IsWellFoundedOn(R, Nat)
    BY NatLessThanWellFounded, Zenon
  <2>. HIDE DEF R, T
  <2>3. PICK m \in T : \A n \in T : ~(<<n, m>> \in R)
    BY <1>1, <2>2, WFMin
  <2>4. \A n \in T : ~(n < m)
    BY <1>1, <2>1, <2>3
  <2>5. \A n \in T : m <= n
    BY <1>1, <2>4
  <2>. QED BY <2>5
<1>3. PICK j \in S : m = N - j
  BY <1>2
<1>4. \A i \in S : j >= i
  BY <1>2, <1>3
<1>5. \E x \in S : \A y \in S : x >= y
  BY <1>4
<1>6. Max(S) \in S /\ \A y \in S : Max(S) >= y
  BY <1>5 DEF Max
<1>. QED BY <1>6

\* The global block has nothing around it but itself.
LEMMA AncestorsOfFirst ==
  ASSUME NEW B, IsTree(B)
  PROVE  AncestorsIn(B, 1) = {1}
<1>1. 1 \in 1..Len(B)
  BY DEF IsTree
<1>2. \A a \in AncestorsIn(B, 1) : a = 1
  BY <1>1 DEF AncestorsIn
<1>. QED BY <1>1, <1>2 DEF AncestorsIn

LEMMA AncestorsClosed ==
  ASSUME NEW B, IsTree(B), NEW b \in 1..Len(B)
  PROVE  /\ b \in AncestorsIn(B, b) /\ AncestorsIn(B, b) \subseteq 1..Len(B)
         /\ \A c \in AncestorsIn(B, b) \ {1} : B[c].parent \in AncestorsIn(B, b)
         /\ \A c \in AncestorsIn(B, b) : AncestorsIn(B, c) \subseteq AncestorsIn(B, b)
<1>1. b \in AncestorsIn(B, b) /\ AncestorsIn(B, b) \subseteq 1..Len(B)
  BY DEF AncestorsIn
<1>2. ASSUME NEW c \in AncestorsIn(B, b) \ {1} PROVE B[c].parent \in AncestorsIn(B, b)
  <2>1. c \in 2..Len(B)
    BY <1>1 DEF IsTree
  <2>2. B[c].parent \in 1..Len(B)
    BY <2>1 DEF IsTree
  <2>3. ASSUME NEW S \in SUBSET (1..Len(B)), b \in S,
               \A d \in S \ {1} : B[d].parent \in S
        PROVE  B[c].parent \in S
    BY <2>3 DEF AncestorsIn
  <2>. QED BY <2>2, <2>3 DEF AncestorsIn
<1>3. ASSUME NEW c \in AncestorsIn(B, b) PROVE AncestorsIn(B, c) \subseteq AncestorsIn(B, b)
  BY DEF AncestorsIn
<1>. QED BY <1>1, <1>2, <1>3

LEMMA AncestorsOf ==
  ASSUME NEW B, IsTree(B), NEW b \in 2..Len(B)
  PROVE  AncestorsIn(B, b) = {b} \union AncestorsIn(B, B[b].parent)
<1>. DEFINE q == B[b].parent
<1>1. b \in 1..Len(B) /\ q \in 1..Len(B)
  BY DEF IsTree
<1>2. {b} \union AncestorsIn(B, q) \subseteq AncestorsIn(B, b)
  BY <1>1, AncestorsClosed
<1>3. ASSUME NEW a \in AncestorsIn(B, b) PROVE a \in {b} \union AncestorsIn(B, q)
  <2>. DEFINE S == {b} \union AncestorsIn(B, q)
  <2>1. S \in SUBSET (1..Len(B)) /\ b \in S
    BY <1>1, AncestorsClosed
  <2>2. ASSUME NEW c \in S \ {1} PROVE B[c].parent \in S
    BY <1>1, AncestorsClosed
  <2>. QED BY <2>1, <2>2 DEF AncestorsIn
<1>. QED BY <1>2, <1>3

\* C has the blocks of B, where they were, and perhaps more.
Extends(C, B) == /\ IsTree(C) /\ Len(B) <= Len(C)
                 /\ \A b \in 1..Len(B) : C[b].parent = B[b].parent /\ C[b].func = B[b].func

\* A block added elsewhere changes nothing around a block.
LEMMA AncestorsKept ==
  ASSUME NEW B, NEW C, IsTree(B), Extends(C, B), NEW b \in 1..Len(B)
  PROVE  AncestorsIn(C, b) = AncestorsIn(B, b)
<1>1. 1..Len(B) \subseteq 1..Len(C)
  BY DEF IsTree, Extends
<1>2. ASSUME NEW a \in AncestorsIn(B, b) PROVE a \in AncestorsIn(C, b)
  <2>1. ASSUME NEW S \in SUBSET (1..Len(C)), b \in S, \A c \in S \ {1} : C[c].parent \in S
        PROVE  a \in S
    <3>. DEFINE T == S \intersect (1..Len(B))
    <3>1. T \in SUBSET (1..Len(B)) /\ b \in T
      BY <2>1
    <3>2. ASSUME NEW c \in T \ {1} PROVE B[c].parent \in T
      <4>1. c \in 2..Len(B)
        BY DEF IsTree
      <4>2. B[c].parent \in 1..Len(B)
        BY <4>1 DEF IsTree
      <4>. QED BY <2>1, <4>2 DEF Extends
    <3>. HIDE DEF T
    <3>3. a \in T
      BY <3>1, <3>2 DEF AncestorsIn
    <3>. QED BY <3>3 DEF T
  <2>2. a \in 1..Len(C)
    BY <1>1 DEF AncestorsIn
  <2>. QED BY <2>1, <2>2 DEF AncestorsIn
<1>3. ASSUME NEW a \in AncestorsIn(C, b) PROVE a \in AncestorsIn(B, b)
  <2>1. ASSUME NEW S \in SUBSET (1..Len(B)), b \in S, \A c \in S \ {1} : B[c].parent \in S
        PROVE  a \in S
    <3>1. S \in SUBSET (1..Len(C))
      BY <1>1
    <3>2. \A c \in S \ {1} : C[c].parent \in S
      BY <2>1 DEF Extends
    <3>. QED BY <2>1, <3>1, <3>2 DEF AncestorsIn
  <2>2. a \in 1..Len(B)
    <3>1. \A c \in (1..Len(B)) \ {1} : B[c].parent \in 1..Len(B)
      BY DEF IsTree
    <3>2. \A c \in (1..Len(B)) \ {1} : C[c].parent \in 1..Len(B)
      BY <3>1 DEF Extends
    <3>. QED BY <1>1, <3>2 DEF AncestorsIn
  <2>. QED BY <2>1, <2>2 DEF AncestorsIn
<1>. QED BY <1>2, <1>3

-----------------------------------------------------------------------------
(* The stack *)

LEMMA ItemKinds ==
  ASSUME NEW b \in Nat
  PROVE  /\ BlockItem(b) \in Items /\ BlockItem(b).kind = "scope" /\ BlockItem(b).id = b
         /\ FunctionItem(b) \in Items /\ FunctionItem(b).kind = "func" /\ FunctionItem(b).id = b
BY DEF BlockItem, FunctionItem, Items

\* The ids of the blocks among the first j items
Below(s, j) == {s[i].id : i \in {k \in 1..j : s[k].kind = "scope"}}

LEMMA StackBasics ==
  ASSUME NEW B, IsTree(B), NEW par, NEW s, NEW b \in Nat, Stack(B, par, s, b)
  PROVE  /\ Len(s) \in Nat /\ Len(s) >= 1
         /\ \A j \in 1..Len(s) : s[j] \in Items /\ s[j].id \in Nat
         /\ s[1].kind = "scope" /\ s[1].id = 1
         /\ s[Len(s)].kind = "scope" /\ s[Len(s)].id = b
         /\ b \in 1..Len(B)
         /\ Len(s) > 1 => b # 1 /\ Linked(B, par, s, Len(s))
         /\ \A j \in 1..Len(s) : s[j].kind = "scope" => s[j].id \in 1..Len(B)
         /\ AncestorsIn(B, b) = Below(s, Len(s))
<1>1. PICK N \in Nat : N = Len(s) /\ s # <<>> /\ s \in Seq(Items)
  BY LenProperties DEF Stack
<1>2. N >= 1
  BY <1>1, EmptySeq
<1>3. \A j \in 1..N : s[j] \in Items /\ s[j].id \in Nat
  <2>1. \A j \in 1..N : s[j] \in Items
    BY <1>1, ElementOfSeq
  <2>. QED BY <2>1 DEF Items
<1>4. s[1].kind = "scope" /\ s[1].id = 1
  BY ItemKinds DEF Stack
<1>5. s[N].kind = "scope" /\ s[N].id = b
  BY <1>1, ItemKinds DEF Stack
<1>6. \A j \in 2..N : s[j].kind = "scope" => s[j].id \in 2..Len(B)
  BY <1>1 DEF Stack, Linked
<1>7. \A j \in 1..N : s[j].kind = "scope" => s[j].id \in 1..Len(B)
  <2>1. ASSUME NEW j \in 1..N, s[j].kind = "scope" PROVE s[j].id \in 1..Len(B)
    <3>1. CASE j = 1
      BY <3>1, <1>4 DEF IsTree
    <3>2. CASE j \in 2..N
      BY <3>2, <2>1, <1>6 DEF IsTree
    <3>. QED BY <3>1, <3>2
  <2>. QED BY <2>1
<1>8. N \in 1..N /\ b \in 1..Len(B)
  BY <1>2, <1>5, <1>7
<1>9. N > 1 => b # 1 /\ Linked(B, par, s, N)
  <2>1. ASSUME N > 1 PROVE N \in 2..N
    BY <2>1
  <2>2. N > 1 => Linked(B, par, s, N)
    BY <2>1, <1>1, <1>5 DEF Stack
  <2>3. N > 1 => b \in 2..Len(B)
    BY <2>1, <1>5, <1>6
  <2>. QED BY <2>2, <2>3 DEF IsTree
<1>10. AncestorsIn(B, b) = Below(s, N)
  BY <1>1, <1>5, <1>8 DEF Stack, Below
<1>. QED BY <1>1, <1>2, <1>3, <1>4, <1>5, <1>7, <1>8, <1>9, <1>10

\* A stack is one for more blocks, or others of the same tree, too.
LEMMA StackKept ==
  ASSUME NEW B, NEW C, IsTree(B), Extends(C, B), NEW par, NEW s, NEW b \in Nat,
         Stack(B, par, s, b)
  PROVE  Stack(C, par, s, b)
<1>1. 1..Len(B) \subseteq 1..Len(C) /\ 2..Len(B) \subseteq 2..Len(C) /\ 2..Len(B) \subseteq 1..Len(B)
  BY DEF IsTree, Extends
<1>2. \A j \in 1..Len(s) : s[j].kind = "scope" => s[j].id \in 1..Len(B)
  BY StackBasics
<1>3. ASSUME NEW j \in 2..Len(s), s[j].kind = "scope" PROVE Linked(C, par, s, j)
  <2>1. Linked(B, par, s, j) /\ s[j].id \in 2..Len(B)
    BY <1>3 DEF Stack, Linked
  <2>2. C[s[j].id].parent = B[s[j].id].parent /\ C[s[j].id].func = B[s[j].id].func
    BY <2>1, <1>1 DEF Extends
  <2>. QED BY <2>1, <2>2, <1>1 DEF Linked
<1>4. ASSUME NEW j \in 1..Len(s), s[j].kind = "func"
      PROVE  j < Len(s) /\ \E c \in 2..Len(C) : /\ s[j + 1] = BlockItem(c)
                                                /\ s[j].id # 0 /\ C[c].func = s[j].id
  <2>1. j < Len(s)
    BY <1>4 DEF Stack
  <2>2. PICK c \in 2..Len(B) : s[j + 1] = BlockItem(c) /\ s[j].id # 0 /\ B[c].func = s[j].id
    BY <1>4 DEF Stack
  <2>3. C[c].func = B[c].func
    BY <1>1 DEF Extends
  <2>. QED BY <2>1, <2>2, <2>3, <1>1
<1>5. ASSUME NEW j \in 1..Len(s), s[j].kind = "scope"
      PROVE  AncestorsIn(C, s[j].id) = Below(s, j)
  <2>1. AncestorsIn(C, s[j].id) = AncestorsIn(B, s[j].id)
    BY <1>2, <1>5, AncestorsKept
  <2>2. AncestorsIn(B, s[j].id) = Below(s, j)
    BY <1>5 DEF Stack, Below
  <2>. QED BY <2>1, <2>2
<1>. QED BY <1>3, <1>4, <1>5 DEF Stack, Below

\* What holds of the items of a stack holds of them on a higher one.
LEMMA BelowKept ==
  ASSUME NEW B, IsTree(B), NEW par, NEW s, NEW b \in Nat, Stack(B, par, s, b),
         NEW t, \A j \in 1..Len(s) : t[j] = s[j]
  PROVE  /\ \A j \in 2..Len(s) : t[j].kind = "scope" => Linked(B, par, t, j)
         /\ \A j \in 1..Len(s) : t[j].kind = "func" =>
              j < Len(s) /\ \E c \in 2..Len(B) : /\ t[j + 1] = BlockItem(c)
                                                 /\ t[j].id # 0 /\ B[c].func = t[j].id
         /\ \A j \in 1..Len(s) : t[j].kind = "scope" => AncestorsIn(B, t[j].id) = Below(t, j)
<1>1. PICK N \in Nat : N = Len(s)
  BY StackBasics
<1>2. ASSUME NEW j \in 2..N, t[j].kind = "scope" PROVE Linked(B, par, t, j)
  <2>1. j \in 1..N /\ j - 1 \in 1..N /\ (j > 2 => j - 2 \in 1..N)
    BY <1>1
  <2>2. t[j] = s[j] /\ t[j - 1] = s[j - 1] /\ (j > 2 => t[j - 2] = s[j - 2])
    BY <1>1, <2>1
  <2>3. Linked(B, par, s, j)
    BY <1>1, <1>2, <2>2 DEF Stack
  <2>. QED BY <2>2, <2>3 DEF Linked
<1>3. ASSUME NEW j \in 1..N, t[j].kind = "func"
      PROVE  j < N /\ \E c \in 2..Len(B) : /\ t[j + 1] = BlockItem(c)
                                           /\ t[j].id # 0 /\ B[c].func = t[j].id
  <2>1. t[j] = s[j]
    BY <1>1
  <2>2. j < N
    BY <1>1, <1>3, <2>1 DEF Stack
  <2>3. j + 1 \in 1..N
    BY <2>2
  <2>4. t[j + 1] = s[j + 1]
    BY <1>1, <2>3
  <2>. QED BY <1>1, <1>3, <2>1, <2>2, <2>4 DEF Stack
<1>4. ASSUME NEW j \in 1..N, t[j].kind = "scope"
      PROVE  AncestorsIn(B, t[j].id) = Below(t, j)
  <2>1. \A i \in 1..j : i \in 1..N
    BY <1>1
  <2>2. \A i \in 1..j : t[i] = s[i]
    BY <1>1, <2>1
  <2>3. Below(t, j) = Below(s, j)
    BY <2>2 DEF Below
  <2>4. AncestorsIn(B, s[j].id) = Below(s, j)
    BY <1>1, <1>4 DEF Stack, Below
  <2>. QED BY <1>1, <2>3, <2>4
<1>. QED BY <1>1, <1>2, <1>3, <1>4

\* push_scope of a block whose parent is on top (parser.c:320-322)
LEMMA PushBlock ==
  ASSUME NEW B, IsTree(B), NEW par, NEW s, NEW b \in Nat, Stack(B, par, s, b),
         NEW c \in 2..Len(B), B[c].parent = b, par \/ B[c].func = 0
  PROVE  Stack(B, par, Append(s, BlockItem(c)), c)
<1>. DEFINE t == Append(s, BlockItem(c))
<1>1. PICK N \in Nat : N = Len(s) /\ N >= 1 /\ s \in Seq(Items)
  BY StackBasics DEF Stack
<1>2. c \in Nat /\ c \in 1..Len(B)
  BY DEF IsTree
<1>3. /\ t \in Seq(Items) /\ Len(t) = N + 1 /\ t # <<>> /\ t[N + 1] = BlockItem(c)
      /\ \A j \in 1..N : t[j] = s[j]
  BY <1>1, <1>2, ItemKinds, AppendProperties
<1>. HIDE DEF t
<1>4. /\ \A j \in 2..N : t[j].kind = "scope" => Linked(B, par, t, j)
      /\ \A j \in 1..N : t[j].kind = "func" =>
              j < N /\ \E d \in 2..Len(B) : /\ t[j + 1] = BlockItem(d)
                                            /\ t[j].id # 0 /\ B[d].func = t[j].id
      /\ \A j \in 1..N : t[j].kind = "scope" => AncestorsIn(B, t[j].id) = Below(t, j)
  <2>1. \A j \in 1..Len(s) : t[j] = s[j]
    BY <1>1, <1>3
  <2>. QED BY <1>1, <2>1, BelowKept
<1>5. \A j \in 1..(N + 1) : j \in 1..N \/ j = N + 1
  BY <1>1
<1>6. t[N + 1].kind = "scope" /\ t[N + 1].id = c /\ t[N] = BlockItem(b)
  BY <1>1, <1>2, <1>3, ItemKinds DEF Stack
<1>7. Linked(B, par, t, N + 1)
  BY <1>1, <1>6 DEF Linked
<1>8. AncestorsIn(B, c) = Below(t, N + 1)
  <2>1. AncestorsIn(B, c) = {c} \union AncestorsIn(B, b)
    BY AncestorsOf
  <2>2. AncestorsIn(B, b) = Below(t, N)
    <3>1. t[N].kind = "scope" /\ t[N].id = b /\ N \in 1..N
      BY <1>1, <1>6, ItemKinds
    <3>. QED BY <3>1, <1>4
  <2>3. Below(t, N + 1) = {c} \union Below(t, N)
    BY <1>1, <1>5, <1>6 DEF Below
  <2>. QED BY <2>1, <2>2, <2>3
<1>9. t[1] = BlockItem(1)
  BY <1>1, <1>3 DEF Stack
<1>10. \A j \in 2..(N + 1) : t[j].kind = "scope" => Linked(B, par, t, j)
  BY <1>4, <1>5, <1>7
<1>11. \A j \in 1..(N + 1) : t[j].kind = "func" =>
         j < N + 1 /\ \E d \in 2..Len(B) : /\ t[j + 1] = BlockItem(d)
                                           /\ t[j].id # 0 /\ B[d].func = t[j].id
  <2>1. ASSUME NEW j \in 1..(N + 1), t[j].kind = "func" PROVE j \in 1..N
    BY <2>1, <1>5, <1>6
  <2>2. \A j \in 1..N : j < N + 1
    BY <1>1
  <2>. QED BY <2>1, <2>2, <1>4
<1>12. \A j \in 1..(N + 1) : t[j].kind = "scope" => AncestorsIn(B, t[j].id) = Below(t, j)
  BY <1>4, <1>5, <1>6, <1>8
<1>. QED BY <1>3, <1>9, <1>10, <1>11, <1>12 DEF Stack, Below, t

\* push_scope of a function and of its body (sema.c:548-549, x86_asm.c:535-536)
LEMMA PushFunction ==
  ASSUME NEW B, IsTree(B), NEW par, par = FALSE, NEW s, NEW b \in Nat, Stack(B, par, s, b),
         NEW c \in 2..Len(B), B[c].parent = b, NEW f \in Nat, f # 0, B[c].func = f
  PROVE  Stack(B, par, s \o <<FunctionItem(f), BlockItem(c)>>, c)
<1>. DEFINE t == s \o <<FunctionItem(f), BlockItem(c)>>
<1>1. PICK N \in Nat : N = Len(s) /\ N >= 1 /\ s \in Seq(Items)
  BY StackBasics DEF Stack
<1>2. c \in Nat /\ c \in 1..Len(B)
  BY DEF IsTree
<1>3. /\ t \in Seq(Items) /\ Len(t) = N + 2 /\ t # <<>>
      /\ t[N + 1] = FunctionItem(f) /\ t[N + 2] = BlockItem(c)
      /\ \A j \in 1..N : t[j] = s[j]
  <2>. DEFINE u == <<FunctionItem(f), BlockItem(c)>>
  <2>1. u \in Seq(Items) /\ Len(u) = 2 /\ u[1] = FunctionItem(f) /\ u[2] = BlockItem(c)
    BY <1>2, ItemKinds
  <2>. HIDE DEF u
  <2>2. /\ s \o u \in Seq(Items) /\ Len(s \o u) = N + 2
        /\ \A j \in 1..N : (s \o u)[j] = s[j]
        /\ (s \o u)[N + 1] = u[1] /\ (s \o u)[N + 2] = u[2]
    <3>0. /\ s \o u \in Seq(Items)
          /\ Len(s \o u) = Len(s) + Len(u)
          /\ \A j \in 1..(Len(s) + Len(u)) :
               (s \o u)[j] = IF j <= Len(s) THEN s[j] ELSE u[j - Len(s)]
      <4>1. s \in Seq(Items) /\ u \in Seq(Items)
        BY <1>1, <2>1
      <4>. QED BY <4>1, ConcatProperties, Zenon
    <3>1. Len(s \o u) = N + 2 /\ s \o u \in Seq(Items)
      BY <1>1, <2>1, <3>0
    <3>2. \A j \in 1..(N + 2) : (s \o u)[j] = IF j <= N THEN s[j] ELSE u[j - N]
      BY <1>1, <2>1, <3>0
    <3>3. N + 1 \in 1..(N + 2) /\ N + 2 \in 1..(N + 2) /\ (N + 1) - N = 1 /\ (N + 2) - N = 2
          /\ 1..N \subseteq 1..(N + 2) /\ ~(N + 1 <= N) /\ ~(N + 2 <= N) /\ \A j \in 1..N : j <= N
      BY <1>1
    <3>. QED BY <3>1, <3>2, <3>3
  <2>3. t = s \o u
    BY DEF u
  <2>. HIDE DEF t
  <2>4. t # <<>>
    BY <2>2, <2>3, <1>1, EmptySeq
  <2>. QED BY <2>1, <2>2, <2>3, <2>4
<1>. HIDE DEF t
<1>4. /\ \A j \in 2..N : t[j].kind = "scope" => Linked(B, par, t, j)
      /\ \A j \in 1..N : t[j].kind = "func" =>
              j < N /\ \E d \in 2..Len(B) : /\ t[j + 1] = BlockItem(d)
                                            /\ t[j].id # 0 /\ B[d].func = t[j].id
      /\ \A j \in 1..N : t[j].kind = "scope" => AncestorsIn(B, t[j].id) = Below(t, j)
  <2>1. \A j \in 1..Len(s) : t[j] = s[j]
    BY <1>1, <1>3
  <2>. QED BY <1>1, <2>1, BelowKept
<1>5. \A j \in 1..(N + 2) : j \in 1..N \/ j = N + 1 \/ j = N + 2
  BY <1>1
<1>6. /\ t[N + 2].kind = "scope" /\ t[N + 2].id = c /\ t[N] = BlockItem(b)
      /\ t[N + 1].kind = "func" /\ t[N + 1].id = f
  BY <1>1, <1>2, <1>3, ItemKinds DEF Stack
<1>7. Linked(B, par, t, N + 2)
  <2>1. (N + 2) - 1 = N + 1 /\ (N + 2) - 2 = N /\ N + 2 > 2
    BY <1>1
  <2>. QED BY <2>1, <1>3, <1>6 DEF Linked
<1>8. AncestorsIn(B, c) = Below(t, N + 2)
  <2>1. AncestorsIn(B, c) = {c} \union AncestorsIn(B, b)
    BY AncestorsOf
  <2>2. AncestorsIn(B, b) = Below(t, N)
    <3>1. t[N].kind = "scope" /\ t[N].id = b /\ N \in 1..N
      BY <1>1, <1>6, ItemKinds
    <3>. QED BY <3>1, <1>4
  <2>3. Below(t, N + 2) = {c} \union Below(t, N)
    BY <1>1, <1>5, <1>6 DEF Below
  <2>. QED BY <2>1, <2>2, <2>3
<1>9. t[1] = BlockItem(1)
  BY <1>1, <1>3 DEF Stack
<1>10. \A j \in 2..(N + 2) : t[j].kind = "scope" => Linked(B, par, t, j)
  <2>1. ASSUME NEW j \in 2..(N + 2), t[j].kind = "scope" PROVE j \in 2..N \/ j = N + 2
    BY <2>1, <1>5, <1>6
  <2>. QED BY <2>1, <1>4, <1>7
<1>11. \A j \in 1..(N + 2) : t[j].kind = "func" =>
         j < N + 2 /\ \E d \in 2..Len(B) : /\ t[j + 1] = BlockItem(d)
                                           /\ t[j].id # 0 /\ B[d].func = t[j].id
  <2>1. ASSUME NEW j \in 1..(N + 2), t[j].kind = "func" PROVE j \in 1..N \/ j = N + 1
    BY <2>1, <1>5, <1>6
  <2>2. \A j \in 1..N : j < N + 2
    BY <1>1
  <2>3. N + 1 < N + 2 /\ (N + 1) + 1 = N + 2
    BY <1>1
  <2>. QED BY <2>1, <2>2, <2>3, <1>3, <1>4, <1>6
<1>12. \A j \in 1..(N + 2) : t[j].kind = "scope" => AncestorsIn(B, t[j].id) = Below(t, j)
  <2>1. ASSUME NEW j \in 1..(N + 2), t[j].kind = "scope" PROVE j \in 1..N \/ j = N + 2
    BY <2>1, <1>5, <1>6
  <2>. QED BY <2>1, <1>4, <1>6, <1>8
<1>. QED BY <1>3, <1>9, <1>10, <1>11, <1>12 DEF Stack, Below, t

\* pop_scope of a block, and of a block and its function (parser.c:324-326)
LEMMA PopItems ==
  ASSUME NEW B, IsTree(B), NEW par, NEW s, NEW b \in Nat, Stack(B, par, s, b), b # 1,
         NEW k \in {1, 2}, k = IF par \/ B[b].func = 0 THEN 1 ELSE 2
  PROVE  /\ Len(s) > k
         /\ Stack(B, par, SubSeq(s, 1, Len(s) - k), B[b].parent)
<1>. DEFINE q == B[b].parent
            t == SubSeq(s, 1, Len(s) - k)
<1>1. PICK N \in Nat : N = Len(s) /\ N >= 1 /\ s \in Seq(Items)
  BY StackBasics DEF Stack
<1>2. s[N].kind = "scope" /\ s[N].id = b /\ N # 1
  BY <1>1, StackBasics
<1>3. N \in 2..N /\ Linked(B, par, s, N)
  BY <1>1, <1>2 DEF Stack
<1>4. N > k /\ s[N - k] = BlockItem(q)
  BY <1>1, <1>2, <1>3 DEF Linked
<1>5. PICK M \in Nat : M = N - k /\ M >= 1 /\ M < N
  BY <1>1, <1>4
<1>6. q \in Nat /\ q \in 1..Len(B)
  BY <1>2, <1>3 DEF Linked, IsTree
<1>7. /\ t \in Seq(Items) /\ Len(t) = M /\ \A j \in 1..M : t[j] = s[j]
  <2>1. t = SubSeq(s, 1, M)
    BY <1>1, <1>5
  <2>2. M \in 1..Len(s) /\ 1 \in 1..Len(s)
    BY <1>1, <1>5
  <2>. HIDE DEF t
  <2>3. t \in Seq(Items)
    BY <1>1, <2>1, <2>2, SubSeqProperties
  <2>4. Len(t) = M
    <3>1. \A j \in 1..M : s[j] \in Items
      BY <1>1, <1>5, ElementOfSeq
    <3>2. Len(SubSeq(s, 1, M)) = IF 1 <= M THEN M - 1 + 1 ELSE 0
      BY <3>1, SubSeqProperties
    <3>. QED BY <1>5, <2>1, <3>2
  <2>5. \A j \in 1..M : t[j] = s[j]
    BY <1>1, <1>5, <2>1, <2>2
  <2>. QED BY <2>3, <2>4, <2>5
<1>. HIDE DEF t
<1>8. t # <<>>
  BY <1>5, <1>7, EmptySeq
<1>9. t[1] = BlockItem(1) /\ t[M] = BlockItem(q)
  BY <1>1, <1>4, <1>5, <1>7 DEF Stack
<1>10. ASSUME NEW j \in 2..M, t[j].kind = "scope" PROVE Linked(B, par, t, j)
  <2>1. j \in 1..M /\ j - 1 \in 1..M /\ (j > 2 => j - 2 \in 1..M) /\ j \in 2..N
    BY <1>1, <1>5
  <2>2. t[j] = s[j] /\ t[j - 1] = s[j - 1] /\ (j > 2 => t[j - 2] = s[j - 2])
    BY <1>7, <2>1
  <2>3. Linked(B, par, s, j)
    BY <1>1, <1>10, <2>1, <2>2 DEF Stack
  <2>. QED BY <2>2, <2>3 DEF Linked
<1>11. ASSUME NEW j \in 1..M, t[j].kind = "func"
       PROVE  j < M /\ \E d \in 2..Len(B) : /\ t[j + 1] = BlockItem(d)
                                            /\ t[j].id # 0 /\ B[d].func = t[j].id
  <2>1. j # M
    BY <1>9, <1>6, <1>11, ItemKinds
  <2>2. j \in 1..N /\ j + 1 \in 1..M /\ j < M
    BY <1>1, <1>5, <2>1
  <2>3. t[j] = s[j] /\ t[j + 1] = s[j + 1]
    BY <1>7, <2>2
  <2>. QED BY <1>1, <1>11, <2>2, <2>3 DEF Stack
<1>12. ASSUME NEW j \in 1..M, t[j].kind = "scope"
       PROVE  AncestorsIn(B, t[j].id) = Below(t, j)
  <2>1. \A i \in 1..j : i \in 1..M
    BY <1>5
  <2>2. \A i \in 1..j : t[i] = s[i]
    BY <1>7, <2>1
  <2>3. Below(t, j) = Below(s, j)
    BY <2>2 DEF Below
  <2>4. j \in 1..N /\ s[j].kind = "scope" /\ t[j] = s[j]
    BY <1>1, <1>5, <1>7, <1>12
  <2>5. AncestorsIn(B, s[j].id) = Below(s, j)
    BY <1>1, <2>4 DEF Stack, Below
  <2>. QED BY <2>3, <2>4, <2>5
<1>. QED BY <1>1, <1>4, <1>7, <1>8, <1>9, <1>10, <1>11, <1>12 DEF Stack, Below, t

-----------------------------------------------------------------------------
(* Blocks with one more symbol, and one more block *)

Records == [decl : Nat, kind : {"var", "func", "param", "none"}]

LEMMA SymbolKinds ==
  /\ None \in Records
  /\ \A p \in Nat, k \in {"var", "func", "param"} :
       /\ Symbol(p, k) \in Records /\ Symbol(p, k) # None
       /\ Symbol(p, k).decl = p /\ Symbol(p, k).kind = k
BY DEF None, Symbol, Records

LEMMA SymbolAdded ==
  ASSUME NEW B \in Seq(Blocks), IsTree(B), NEW b \in 1..Len(B), NEW n \in Names, NEW y \in Records,
         NEW C, C = AddSymbol(B, b, n, y)
  PROVE  /\ C \in Seq(Blocks) /\ Len(C) = Len(B) /\ Extends(C, B)
         /\ \A a \in 1..Len(B), m \in Names :
              C[a].locals[m] = IF a = b /\ m = n THEN y ELSE B[a].locals[m]
<1>1. PICK N \in Nat : N = Len(B) /\ B \in [1..N -> Blocks] /\ b \in 1..N
  BY LenProperties
<1>2. PICK r \in Blocks : r = B[b]
  BY <1>1
<1>. DEFINE t == [r EXCEPT !.locals[n] = y]
<1>3. /\ t \in Blocks /\ t.parent = r.parent /\ t.func = r.func
      /\ \A m \in Names : t.locals[m] = IF m = n THEN y ELSE r.locals[m]
  BY <1>2 DEF Blocks, Records
<1>4. C = [B EXCEPT ![b] = t]
  BY <1>1, <1>2 DEF AddSymbol
<1>. HIDE DEF t
<1>5. /\ C \in [1..N -> Blocks] /\ C[b] = t /\ \A a \in 1..N : a # b => C[a] = B[a]
  BY <1>1, <1>3, <1>4
<1>6. C \in Seq(Blocks) /\ Len(C) = N
  BY <1>1, <1>3, <1>4, ExceptSeq
<1>7. \A a \in 1..N : C[a].parent = B[a].parent /\ C[a].func = B[a].func
  BY <1>2, <1>3, <1>5
<1>8. IsTree(C) /\ Extends(C, B)
  <2>1. N >= 1 /\ 1 \in 1..N /\ \A a \in 2..N : a \in 1..N
    BY <1>1 DEF IsTree
  <2>2. IsTree(C)
    BY <1>1, <1>6, <1>7, <2>1 DEF IsTree
  <2>. QED BY <1>1, <1>6, <1>7, <2>2 DEF Extends
<1>9. ASSUME NEW a \in 1..N, NEW m \in Names
      PROVE  C[a].locals[m] = IF a = b /\ m = n THEN y ELSE B[a].locals[m]
  BY <1>2, <1>3, <1>5
<1>. QED BY <1>1, <1>6, <1>8, <1>9

LEMMA NewBlockType ==
  ASSUME NEW q \in Nat, NEW f \in Nat, NEW t, t = NewBlock(q, f)
  PROVE  t \in Blocks /\ t.parent = q /\ t.func = f /\ \A m \in Names : t.locals[m] = None
BY SymbolKinds DEF NewBlock, Blocks, Records

LEMMA BlockAdded ==
  ASSUME NEW B, IsTree(B), NEW N \in Nat, N = Len(B), NEW q \in 1..N,
         NEW C, Len(C) = N + 1, C[N + 1].parent = q, \A a \in 1..N : C[a] = B[a]
  PROVE  Extends(C, B)
<1>1. \A a \in 2..(N + 1) : a \in 2..N \/ a = N + 1
  OBVIOUS
<1>2. \A a \in 2..N : a \in 1..N
  OBVIOUS
<1>3. ASSUME NEW a \in 2..(N + 1) PROVE C[a].parent \in 1..(a - 1)
  BY <1>1, <1>2, <1>3 DEF IsTree
<1>. QED BY <1>3 DEF IsTree, Extends

-----------------------------------------------------------------------------
(* Where the pass is, and what it finds *)

LEMMA Place ==
  ASSUME Types, Tree, Nested, Stacked, NEW b, b = After(Reached)
  PROVE  /\ Len(prog) \in Nat /\ at \in Nat /\ Reached \in 0..Len(prog)
         /\ b \in 1..Len(blocks) /\ b \in Nat /\ Len(blocks) \in Nat
         /\ Stack(blocks, pc = "parse", scopes, b)
         /\ Len(scopes) \in Nat /\ Len(scopes) >= 1 /\ Curr = b
         /\ Len(scopes) = 1 <=> b = 1
         /\ Ancestors(b) = Below(scopes, Len(scopes))
<1>1. PICK N \in Nat : N = Len(prog)
  BY LenProperties DEF Types
<1>2. at \in 0..N /\ Reached \in 0..N
  BY <1>1 DEF Types, Reached
<1>3. IsTree(blocks)
  BY DEF Tree
<1>4. b \in 1..Len(blocks)
  <2>1. CASE Reached = 0
    BY <2>1, <1>3 DEF After, IsTree
  <2>2. CASE Reached \in 1..N
    BY <1>1, <2>2 DEF Nested
  <2>. QED BY <1>2, <2>1, <2>2
<1>5. b \in Nat /\ Len(blocks) \in Nat
  BY <1>3, <1>4 DEF IsTree
<1>6. PICK par : par = (pc = "parse")
  OBVIOUS
<1>7. Stack(blocks, par, scopes, b)
  BY <1>6 DEF Stacked
<1>8. /\ Len(scopes) \in Nat /\ Len(scopes) >= 1 /\ scopes[Len(scopes)].id = b
      /\ scopes[1].id = 1 /\ (Len(scopes) > 1 => b # 1)
      /\ AncestorsIn(blocks, b) = Below(scopes, Len(scopes))
  BY <1>3, <1>5, <1>7, StackBasics
<1>9. Len(scopes) = 1 <=> b = 1
  <2>1. PICK K \in Nat : K = Len(scopes)
    BY <1>8
  <2>2. K = 1 => b = 1
    BY <1>8, <2>1
  <2>3. K > 1 => b # 1
    BY <1>8, <2>1
  <2>. QED BY <1>8, <2>1, <2>2, <2>3
<1>. QED BY <1>1, <1>2, <1>4, <1>5, <1>6, <1>7, <1>8, <1>9 DEF Curr, Ancestors

Good(y, n, b) == /\ y \in [decl : 1..Len(prog), kind : {"var", "func", "param"}]
                 /\ Home(y) \in Ancestors(b)
                 /\ y.kind # "func" => FindableFrom(b, n)

\* A block's own symbol
LEMMA BlockSymbol ==
  ASSUME Types, Tree, Declared, NEW b \in 1..Len(blocks), NEW a \in Ancestors(b), NEW n \in Names,
         blocks[a].locals[n] # None
  PROVE  Good(blocks[a].locals[n], n, b)
<1>. DEFINE y == blocks[a].locals[n]
<1>1. a \in 1..Len(blocks) /\ Ancestors(a) \subseteq Ancestors(b)
  BY AncestorsClosed DEF Tree, Ancestors
<1>2. y.decl \in 1..Len(prog) /\ y.kind \in {"var", "func"} /\ prog[y.decl].block \in Ancestors(a)
  BY <1>1 DEF Declared
<1>3. blocks[a] \in Blocks
  BY <1>1, ElementOfSeq DEF Types
<1>4. y \in Records
  BY <1>3 DEF Blocks, Records
<1>. HIDE DEF y
<1>5. y \in [decl : 1..Len(prog), kind : {"var", "func", "param"}]
  BY <1>2, <1>4 DEF Records
<1>6. Home(y) \in Ancestors(b)
  BY <1>1, <1>2 DEF Home
<1>7. FindableFrom(b, n)
  BY DEF FindableFrom
<1>. QED BY <1>5, <1>6, <1>7 DEF Good, y

\* A function on the stack, and its parameters
LEMMA FunctionSymbols ==
  ASSUME Types, Tree, NEW b \in 1..Len(blocks), NEW c \in Ancestors(b), NEW n \in Names,
         NEW f, f # 0, blocks[c].func = f
  PROVE  /\ Good(Symbol(f, "func"), n, b)
         /\ n \in prog[f].params => Good(Symbol(f, "param"), n, b)
<1>1. c \in 1..Len(blocks) /\ c # 1
  BY AncestorsClosed DEF Tree, Ancestors, IsTree
<1>2. f \in 1..Len(prog) /\ prog[f].op = "func" /\ prog[f].body = c
  BY <1>1 DEF Tree
<1>3. blocks[c].parent = prog[f].block /\ prog[f].block \in Ancestors(b)
  <2>1. blocks[c].parent = prog[f].block
    BY <1>2 DEF Tree, Opens
  <2>2. blocks[c].parent \in Ancestors(b)
    BY <1>1, AncestorsClosed DEF Tree, Ancestors
  <2>. QED BY <2>1, <2>2
<1>4. /\ Symbol(f, "func") \in [decl : 1..Len(prog), kind : {"var", "func", "param"}]
      /\ Symbol(f, "param") \in [decl : 1..Len(prog), kind : {"var", "func", "param"}]
      /\ Symbol(f, "func").kind = "func" /\ Symbol(f, "func").decl = f
      /\ Symbol(f, "param").kind = "param" /\ Symbol(f, "param").decl = f
  BY <1>2 DEF Symbol
<1>5. Home(Symbol(f, "func")) \in Ancestors(b) /\ Home(Symbol(f, "param")) \in Ancestors(b)
  BY <1>2, <1>3, <1>4 DEF Home
<1>6. n \in prog[f].params => FindableFrom(b, n)
  BY DEF FindableFrom
<1>. QED BY <1>4, <1>5, <1>6 DEF Good

LEMMA CandidateGood ==
  ASSUME Types, Tree, Nested, Stacked, Declared, NEW b, b = After(Reached),
         NEW n \in Names, NEW j \in 1..Len(scopes),
         NEW y, y # None, y \in {Candidate(scopes[j], n), GenCandidate(scopes[j], n)}
  PROVE  Good(y, n, b)
<1>1. b \in 1..Len(blocks) /\ Ancestors(b) = Below(scopes, Len(scopes)) /\ Len(scopes) \in Nat
      /\ Stack(blocks, pc = "parse", scopes, b)
  BY Place
<1>2. CASE scopes[j].kind = "scope"
  <2>1. scopes[j].id \in Ancestors(b)
    BY <1>1, <1>2 DEF Below
  <2>2. y = blocks[scopes[j].id].locals[n]
    BY <1>2 DEF Candidate, GenCandidate
  <2>. QED BY <1>1, <2>1, <2>2, BlockSymbol
<1>3. CASE scopes[j].kind = "func"
  <2>1. /\ j < Len(scopes)
        /\ \E c \in 2..Len(blocks) : /\ scopes[j + 1] = BlockItem(c)
                                     /\ scopes[j].id # 0 /\ blocks[c].func = scopes[j].id
    BY <1>1, <1>3 DEF Stack
  <2>2. PICK c \in 2..Len(blocks) : /\ scopes[j + 1] = BlockItem(c)
                                    /\ scopes[j].id # 0 /\ blocks[c].func = scopes[j].id
    BY <2>1
  <2>3. scopes[j + 1].kind = "scope" /\ scopes[j + 1].id = c
    BY <2>2 DEF BlockItem
  <2>4. c \in Ancestors(b)
    <3>1. j + 1 \in 1..Len(scopes)
      BY <1>1, <2>1
    <3>. QED BY <3>1, <2>3, <1>1 DEF Below
  <2>5. PICK f : f = scopes[j].id
    OBVIOUS
  <2>6. \/ y = Symbol(f, "func")
        \/ y = Symbol(f, "param") /\ n \in prog[f].params
    BY <1>3, <2>5 DEF Candidate, GenCandidate
  <2>. QED BY <1>1, <2>2, <2>4, <2>5, <2>6, FunctionSymbols
<1>4. scopes[j].kind \in {"scope", "func"}
  <2>1. scopes[j] \in Items
    BY <1>1, ElementOfSeq DEF Stack
  <2>. QED BY <2>1 DEF Items
<1>. QED BY <1>2, <1>3, <1>4

\* local_exist finds names of the blocks and functions around only.
LEMMA LocalExistGood ==
  ASSUME Types, Tree, Nested, Stacked, Declared, NEW b, b = After(Reached),
         NEW n \in Names, LocalExist(n) # None
  PROVE  Good(LocalExist(n), n, b)
<1>. DEFINE hits == {j \in 2..Len(scopes) : Candidate(scopes[j], n) # None}
<1>1. PICK N \in Nat : N = Len(scopes) /\ N >= 1 /\ scopes[1] = BlockItem(1)
  BY Place DEF Stack
<1>2. CASE hits = {}
  <2>1. LocalExist(n) = Candidate(scopes[1], n)
    <3>1. LocalExist(n) = blocks[1].locals[n]
      BY <1>2 DEF LocalExist
    <3>. QED BY <1>1, <3>1 DEF Candidate, BlockItem
  <2>2. 1 \in 1..Len(scopes)
    BY <1>1
  <2>. QED BY <2>1, <2>2, CandidateGood
<1>3. CASE hits # {}
  <2>1. hits \in SUBSET (1..N)
    BY <1>1
  <2>2. LocalExist(n) = Candidate(scopes[Max(hits)], n)
    BY <1>3 DEF LocalExist
  <2>. HIDE DEF hits
  <2>3. Max(hits) \in 1..Len(scopes)
    BY <1>1, <1>3, <2>1, Greatest
  <2>. QED BY <2>2, <2>3, CandidateGood
<1>. QED BY <1>2, <1>3

\* So does symbol_gen.
LEMMA SymbolGenGood ==
  ASSUME Types, Tree, Nested, Stacked, Declared, NEW b, b = After(Reached),
         NEW n \in Names, SymbolGen(n) # None
  PROVE  Good(SymbolGen(n), n, b)
<1>1. PICK N \in Nat : N = Len(scopes)
  BY Place
<1>2. Hits(n) \in SUBSET (1..N) /\ Hits(n) # {}
  BY <1>1 DEF Hits, SymbolGen
<1>3. Max(Hits(n)) \in 1..Len(scopes)
  BY <1>1, <1>2, Greatest
<1>4. SymbolGen(n) = GenCandidate(scopes[Max(Hits(n))], n)
  BY <1>2 DEF SymbolGen
<1>. QED BY <1>3, <1>4, CandidateGood

\* symbol_gen finds what is in a block around, or a parameter of a function
\* around, since the functions are on its stack.
LEMMA SymbolGenFinds ==
  ASSUME Types, Tree, Nested, Stacked, pc # "parse", NEW b, b = After(Reached),
         NEW n \in Names, FindableFrom(b, n)
  PROVE  SymbolGen(n) # None
<1>1. PICK N \in Nat : N = Len(scopes)
  BY Place
<1>2. PICK a \in Ancestors(b) : \/ blocks[a].locals[n] # None
                                \/ blocks[a].func # 0 /\ n \in prog[blocks[a].func].params
  BY DEF FindableFrom
<1>3. PICK i \in 1..N : scopes[i].kind = "scope" /\ scopes[i].id = a
  BY <1>1, <1>2, Place DEF Below
<1>4. \E j \in 1..N : GenCandidate(scopes[j], n) # None
  <2>1. CASE blocks[a].locals[n] # None
    BY <1>3, <2>1 DEF GenCandidate
  <2>2. CASE blocks[a].func # 0 /\ n \in prog[blocks[a].func].params
    <3>1. a # 1 /\ i # 1
      <4>1. scopes[1].id = 1
        BY Place DEF Stack, BlockItem
      <4>. QED BY <2>2, <1>3, <4>1 DEF Tree, IsTree
    <3>2. i \in 2..N
      BY <3>1
    <3>3. Linked(blocks, pc = "parse", scopes, i)
      BY <1>1, <1>3, <3>2, Place DEF Stack
    <3>4. i - 1 \in 1..N /\ scopes[i - 1] = FunctionItem(blocks[a].func)
      BY <1>3, <2>2, <3>2, <3>3 DEF Linked
    <3>5. GenCandidate(scopes[i - 1], n) = Symbol(blocks[a].func, "param")
      BY <3>4, <2>2 DEF GenCandidate, FunctionItem
    <3>6. Symbol(blocks[a].func, "param") # None
      BY DEF Symbol, None
    <3>. QED BY <3>4, <3>5, <3>6
  <2>. QED BY <1>2, <2>1, <2>2
<1>5. Hits(n) \in SUBSET (1..N) /\ Hits(n) # {}
  BY <1>1, <1>4 DEF Hits
<1>6. Max(Hits(n)) \in Hits(n)
  BY <1>5, Greatest
<1>7. GenCandidate(scopes[Max(Hits(n))], n) # None
  BY <1>6 DEF Hits
<1>. QED BY <1>5, <1>7 DEF SymbolGen

-----------------------------------------------------------------------------
(* What a step leaves as it was *)

\* A step of sema or of the generator enters one symbol at most.
EntersOne ==
    \/ blocks' = blocks
    \/ \E c \in 1..Len(blocks), n \in Names, y \in Records :
         /\ blocks' = AddSymbol(blocks, c, n, y)
         /\ y # None /\ y.decl \in 1..Len(prog) /\ y.kind \in {"var", "func"}
         /\ prog[y.decl].block \in Ancestors(c)

LEMMA EnterKeeps ==
  ASSUME Types, Tree, EntersOne
  PROVE  /\ blocks' \in Seq(Blocks) /\ Len(blocks') = Len(blocks) /\ Extends(blocks', blocks)
         /\ \A a \in 1..Len(blocks), m \in Names :
              \/ blocks'[a].locals[m] = blocks[a].locals[m]
              \/ /\ blocks'[a].locals[m].decl \in 1..Len(prog)
                 /\ blocks'[a].locals[m].kind \in {"var", "func"}
                 /\ prog[blocks'[a].locals[m].decl].block \in Ancestors(a)
                 /\ blocks'[a].locals[m] # None
<1>1. blocks \in Seq(Blocks) /\ IsTree(blocks) /\ Extends(blocks, blocks)
  BY DEF Types, Tree, Extends, IsTree
<1>2. CASE blocks' = blocks
  BY <1>1, <1>2
<1>3. ASSUME NEW c \in 1..Len(blocks), NEW n \in Names, NEW y \in Records,
             blocks' = AddSymbol(blocks, c, n, y),
             y # None, y.decl \in 1..Len(prog), y.kind \in {"var", "func"},
             prog[y.decl].block \in Ancestors(c)
      PROVE  /\ blocks' \in Seq(Blocks) /\ Len(blocks') = Len(blocks) /\ Extends(blocks', blocks)
             /\ \A a \in 1..Len(blocks), m \in Names :
                  blocks'[a].locals[m] = IF a = c /\ m = n THEN y ELSE blocks[a].locals[m]
  BY <1>1, <1>3, SymbolAdded
<1>. QED BY <1>2, <1>3 DEF EntersOne

\* The blocks around a block stay.
LEMMA AncestorsStay ==
  ASSUME Tree, Extends(blocks', blocks), NEW b \in 1..Len(blocks)
  PROVE  Ancestors(b)' = Ancestors(b)
BY AncestorsKept DEF Ancestors, Tree

LEMMA TreeKept ==
  ASSUME Types, Tree, Nested, prog' = prog, Extends(blocks', blocks), Len(blocks') = Len(blocks)
  PROVE  /\ Tree' /\ Nested'
         /\ \A p \in 0..Len(prog) : After(p)' = After(p)
<1>1. \A b \in 1..Len(blocks) : blocks'[b].parent = blocks[b].parent /\ blocks'[b].func = blocks[b].func
  BY DEF Extends
<1>2. \A p \in 1..Len(prog) : Opens(p)' = Opens(p)
  BY DEF Opens
<1>3. IsTree(blocks')
  BY DEF Extends
<1>4. ASSUME NEW p \in 1..Len(prog), Opens(p)
      PROVE  /\ prog[p].body \in 2..Len(blocks')
             /\ blocks'[prog[p].body].parent = prog[p].block
             /\ blocks'[prog[p].body].func = (IF prog[p].op = "func" THEN p ELSE 0)
  <2>1. prog[p].body \in 2..Len(blocks) /\ prog[p].body \in 1..Len(blocks)
    BY <1>4 DEF Tree
  <2>. QED BY <1>1, <1>4, <2>1 DEF Tree
<1>5. Tree'
  BY <1>1, <1>2, <1>3, <1>4 DEF Tree
<1>6. Len(prog) \in Nat
  BY LenProperties DEF Types
<1>7. \A p \in 0..Len(prog) : After(p)' = After(p)
  <2>1. ASSUME NEW p \in 0..Len(prog), p # 0 PROVE After(p)' = After(p)
    <3>1. p \in 1..Len(prog)
      BY <1>6, <2>1
    <3>2. prog[p].block \in 1..Len(blocks)
      BY <3>1 DEF Nested
    <3>. QED BY <1>1, <1>2, <2>1, <3>1, <3>2 DEF After
  <2>. QED BY <2>1 DEF After
<1>8. Nested'
  <2>1. \A p \in 1..Len(prog) : p \in 0..Len(prog) /\ p - 1 \in 0..Len(prog)
    BY <1>6
  <2>2. ASSUME NEW p \in 1..Len(prog)
        PROVE  prog[p].block = After(p - 1)' /\ {prog[p].block, After(p)'} \subseteq 1..Len(blocks)
    BY <2>1, <1>7 DEF Nested
  <2>. QED BY <2>2 DEF Nested
<1>. QED BY <1>5, <1>7, <1>8

\* Statements and blocks are added, and symbols of the place they are put in.
LEMMA DeclaredStep ==
  ASSUME Tree, Declared, Extends(blocks', blocks),
         \A p \in 1..Len(prog) : p \in 1..Len(prog') /\ prog'[p] = prog[p],
         \A a \in 1..Len(blocks'), m \in Names :
           \/ blocks'[a].locals[m] = None
           \/ /\ a \in 1..Len(blocks)
              /\ \/ blocks'[a].locals[m] = blocks[a].locals[m]
                 \/ /\ blocks'[a].locals[m].decl \in 1..Len(prog')
                    /\ blocks'[a].locals[m].kind \in {"var", "func"}
                    /\ prog'[blocks'[a].locals[m].decl].block \in Ancestors(a)
  PROVE  Declared'
<1>1. ASSUME NEW a \in 1..Len(blocks'), NEW m \in Names, blocks'[a].locals[m] # None
      PROVE  /\ blocks'[a].locals[m].decl \in 1..Len(prog')
             /\ blocks'[a].locals[m].kind \in {"var", "func"}
             /\ prog'[blocks'[a].locals[m].decl].block \in Ancestors(a)'
  <2>1. a \in 1..Len(blocks) /\ Ancestors(a)' = Ancestors(a)
    BY <1>1, AncestorsStay
  <2>2. CASE blocks'[a].locals[m] = blocks[a].locals[m]
    <3>1. PICK y : y = blocks[a].locals[m]
      OBVIOUS
    <3>2. y.decl \in 1..Len(prog) /\ y.kind \in {"var", "func"} /\ prog[y.decl].block \in Ancestors(a)
      BY <1>1, <2>1, <2>2, <3>1 DEF Declared
    <3>. QED BY <2>1, <2>2, <3>1, <3>2
  <2>. QED BY <1>1, <2>1, <2>2
<1>. QED BY <1>1 DEF Declared

LEMMA FindableKept ==
  ASSUME Types, Tree, EntersOne, prog' = prog,
         NEW b \in 1..Len(blocks), NEW n \in Names, FindableFrom(b, n)
  PROVE  FindableFrom(b, n)'
<1>1. PICK a \in Ancestors(b) : \/ blocks[a].locals[n] # None
                                \/ blocks[a].func # 0 /\ n \in prog[blocks[a].func].params
  BY DEF FindableFrom
<1>2. a \in 1..Len(blocks)
  BY AncestorsClosed DEF Tree, Ancestors
<1>3. a \in Ancestors(b)'
  BY EnterKeeps, AncestorsStay
<1>4. blocks'[a].func = blocks[a].func
  BY <1>2, EnterKeeps DEF Extends
<1>5. blocks[a].locals[n] # None => blocks'[a].locals[n] # None
  BY <1>2, EnterKeeps
<1>. QED BY <1>1, <1>3, <1>4, <1>5 DEF FindableFrom

-----------------------------------------------------------------------------
(* Steps of sema and of the generator *)

\* What a step over a statement does to the stack
Moves ==
    \/ Here.op \notin {"scope", "func", "end"} /\ scopes' = scopes
    \/ Here.op = "scope" /\ scopes' = Append(scopes, BlockItem(Here.body))
    \/ Here.op = "func" /\ scopes' = scopes \o <<FunctionItem(at + 1), BlockItem(Here.body)>>
    \/ Here.op = "end" /\ scopes' = Popped(IF blocks[Curr].func = 0 THEN 1 ELSE 2)

LEMMA StackStep ==
  ASSUME Types, Tree, Nested, Stacked, prog' = prog, Extends(blocks', blocks),
         Len(blocks') = Len(blocks), pc # "parse", pc' # "parse",
         at < Len(prog), at' = at + 1, Moves
  PROVE  Stacked'
<1>1. PICK b : b = After(at)
  OBVIOUS
<1>2. b = After(Reached) /\ Reached = at
  BY <1>1 DEF Reached
<1>3. PICK p : p = at + 1
  OBVIOUS
<1>4. /\ Len(prog) \in Nat /\ at \in Nat /\ b \in 1..Len(blocks) /\ b \in Nat
      /\ Stack(blocks, pc = "parse", scopes, b) /\ Curr = b
  BY <1>2, Place
<1>5. p \in 1..Len(prog) /\ p - 1 = at /\ p # 0 /\ p \in Nat
  BY <1>3, <1>4
<1>6. prog[p].block = b /\ After(p) \in 1..Len(blocks)
  BY <1>1, <1>5 DEF Nested
<1>7. PICK par : par = FALSE
  OBVIOUS
<1>8. Stack(blocks, par, scopes, b) /\ IsTree(blocks)
  BY <1>4, <1>7 DEF Tree
<1>9. Stack(blocks, par, scopes', After(p))
  <2>1. CASE Here.op \notin {"scope", "func", "end"} /\ scopes' = scopes
    <3>1. After(p) = b
      BY <1>3, <1>5, <1>6, <2>1 DEF After, Opens, Here
    <3>. QED BY <1>8, <2>1, <3>1
  <2>2. CASE Here.op = "scope" /\ scopes' = Append(scopes, BlockItem(Here.body))
    <3>1. After(p) = prog[p].body
      BY <1>3, <1>5, <2>2 DEF After, Opens, Here
    <3>2. /\ prog[p].body \in 2..Len(blocks) /\ blocks[prog[p].body].parent = b
          /\ blocks[prog[p].body].func = 0
      BY <1>3, <1>5, <1>6, <2>2 DEF Tree, Opens, Here
    <3>. QED BY <1>3, <1>4, <1>8, <2>2, <3>1, <3>2, PushBlock DEF Here
  <2>3. CASE Here.op = "func" /\ scopes' = scopes \o <<FunctionItem(at + 1), BlockItem(Here.body)>>
    <3>1. After(p) = prog[p].body
      BY <1>3, <1>5, <2>3 DEF After, Opens, Here
    <3>2. /\ prog[p].body \in 2..Len(blocks) /\ blocks[prog[p].body].parent = b
          /\ blocks[prog[p].body].func = p
      BY <1>3, <1>5, <1>6, <2>3 DEF Tree, Opens, Here
    <3>3. scopes' = scopes \o <<FunctionItem(p), BlockItem(prog[p].body)>>
      BY <1>3, <2>3 DEF Here
    <3>. QED BY <1>4, <1>5, <1>7, <1>8, <3>1, <3>2, <3>3, PushFunction
  <2>4. CASE Here.op = "end" /\ scopes' = Popped(IF blocks[Curr].func = 0 THEN 1 ELSE 2)
    <3>1. After(p) = blocks[b].parent
      BY <1>3, <1>5, <1>6, <2>4 DEF After, Opens, Here
    <3>2. b # 1
      BY <1>6, <1>8, <3>1 DEF IsTree
    <3>3. PICK k \in {1, 2} : k = IF blocks[b].func = 0 THEN 1 ELSE 2
      OBVIOUS
    <3>4. scopes' = SubSeq(scopes, 1, Len(scopes) - k)
      BY <1>4, <2>4, <3>3 DEF Popped
    <3>5. k = IF par \/ blocks[b].func = 0 THEN 1 ELSE 2
      BY <1>7, <3>3
    <3>. QED BY <1>4, <1>8, <3>1, <3>2, <3>4, <3>5, PopItems
  <2>. QED BY <2>1, <2>2, <2>3, <2>4 DEF Moves
<1>10. Stack(blocks', par, scopes', After(p))
  <2>1. After(p) \in Nat
    BY <1>6, <1>8 DEF IsTree
  <2>. QED BY <1>8, <1>9, <2>1, StackKept
<1>11. After(p) = After(Reached)'
  <2>1. p \in 0..Len(prog)
    BY <1>5
  <2>2. After(p)' = After(p)
    BY <2>1, TreeKept
  <2>3. Reached' = p
    BY <1>3 DEF Reached
  <2>. QED BY <2>2, <2>3
<1>. QED BY <1>7, <1>10, <1>11 DEF Stacked

\* What sema resolves it has found in the blocks and functions around.
LEMMA ResolvedKept ==
  ASSUME Types, Tree, Nested, Stacked, Declared, ResolvedOnes, EntersOne, prog' = prog,
         pc # "parse", at < Len(prog),
         NEW n, n = NameUsed(at + 1),
         \/ res' = res
         \/ n \in Names /\ Here.op \in {"decl", "use", "call"} /\ res' = Resolution(at + 1, n)
  PROVE  ResolvedOnes'
<1>1. PICK p : p = at + 1
  OBVIOUS
<1>2. PICK b : b = After(at)
  OBVIOUS
<1>3. b = After(Reached)
  BY <1>2 DEF Reached
<1>4. Len(prog) \in Nat /\ at \in Nat /\ b \in 1..Len(blocks)
  BY <1>3, Place
<1>5. p \in 1..Len(prog) /\ prog[p].block = b
  BY <1>1, <1>2, <1>4 DEF Nested
<1>6. \A q \in 1..Len(prog) : prog[q].block \in 1..Len(blocks)
  BY DEF Nested
<1>7. ASSUME NEW q \in DOMAIN res
      PROVE  /\ q \in 1..Len(prog) /\ NameUsed(q)' \in Names /\ prog[q].op \in {"decl", "use", "call"}
             /\ res[q] = None \/ res[q] \in [decl : 1..Len(prog), kind : {"var", "func", "param"}]
             /\ res[q].kind \in {"var", "param"} => Findable(q)'
  <2>1. q \in 1..Len(prog) /\ NameUsed(q) \in Names /\ NameUsed(q)' = NameUsed(q)
    BY DEF ResolvedOnes, NameUsed
  <2>2. Findable(q) => Findable(q)'
    BY <1>6, <2>1, FindableKept DEF Findable
  <2>. QED BY <2>1, <2>2 DEF ResolvedOnes
<1>8. ASSUME n \in Names, NEW y, y = LocalExist(n)
      PROVE  /\ y = None \/ y \in [decl : 1..Len(prog), kind : {"var", "func", "param"}]
             /\ y.kind \in {"var", "param"} => Findable(p)'
  <2>1. CASE y = None
    BY <2>1 DEF None, Symbol
  <2>2. CASE y # None
    <3>1. Good(y, n, b)
      BY <1>3, <1>8, <2>2, LocalExistGood
    <3>2. y.kind # "func" => FindableFrom(b, n)'
      BY <1>4, <1>8, <3>1, FindableKept DEF Good
    <3>3. NameUsed(p)' = n
      BY <1>1 DEF NameUsed
    <3>. QED BY <1>5, <3>1, <3>2, <3>3 DEF Good, Findable
  <2>. QED BY <2>1, <2>2
<1>9. CASE res' = res
  <2>1. DOMAIN res \subseteq 1..Len(prog)
    BY DEF ResolvedOnes
  <2>. QED BY <1>7, <1>9, <2>1 DEF ResolvedOnes
<1>10. CASE n \in Names /\ Here.op \in {"decl", "use", "call"} /\ res' = Resolution(at + 1, n)
  <2>1. DOMAIN res' = DOMAIN res \union {p}
    BY <1>1, <1>10 DEF Resolution
  <2>2. res'[p] = LocalExist(n) /\ \A q \in DOMAIN res : q # p => res'[q] = res[q]
    BY <1>1, <1>10 DEF Resolution
  <2>3. DOMAIN res' \subseteq 1..Len(prog)
    BY <1>5, <2>1 DEF ResolvedOnes
  <2>4. NameUsed(p)' \in Names /\ prog[p].op \in {"decl", "use", "call"}
    BY <1>1, <1>10 DEF NameUsed, Here
  <2>5. PICK y : y = LocalExist(n)
    OBVIOUS
  <2>6. /\ res'[p] = None \/ res'[p] \in [decl : 1..Len(prog), kind : {"var", "func", "param"}]
        /\ res'[p].kind \in {"var", "param"} => Findable(p)'
    BY <1>8, <1>10, <2>2, <2>5
  <2>7. ASSUME NEW q \in DOMAIN res'
        PROVE  /\ NameUsed(q)' \in Names /\ prog[q].op \in {"decl", "use", "call"}
               /\ res'[q] = None \/ res'[q] \in [decl : 1..Len(prog), kind : {"var", "func", "param"}]
               /\ res'[q].kind \in {"var", "param"} => Findable(q)'
    <3>1. CASE q = p
      BY <2>4, <2>6, <3>1
    <3>2. CASE q # p
      BY <1>7, <2>1, <2>2, <3>2
    <3>. QED BY <3>1, <3>2
  <2>8. None' = None
    BY DEF None, Symbol
  <2>. QED BY <2>3, <2>7, <2>8 DEF ResolvedOnes
<1>. QED BY <1>9, <1>10

\* The statement the pass is at
LEMMA AtStatement ==
  ASSUME Types, Tree, Nested, Stacked, pc # "parse", at < Len(prog)
  PROVE  /\ at + 1 \in 1..Len(prog) /\ at + 1 \in Nat /\ at + 1 # 0 /\ Len(prog) \in Nat
         /\ Here \in Statements /\ Here.block = Curr /\ Curr = After(at)
         /\ Curr \in 1..Len(blocks) /\ (Len(scopes) = 1 <=> Curr = 1)
         /\ Curr \in Ancestors(Curr)
<1>1. PICK b : b = After(at)
  OBVIOUS
<1>2. b = After(Reached)
  BY <1>1 DEF Reached
<1>3. /\ Len(prog) \in Nat /\ at \in Nat /\ b \in 1..Len(blocks) /\ Curr = b
      /\ (Len(scopes) = 1 <=> b = 1)
  BY <1>2, Place
<1>4. PICK p : p = at + 1 /\ p \in 1..Len(prog) /\ p - 1 = at
  BY <1>3
<1>5. prog[p].block = b
  BY <1>1, <1>4 DEF Nested
<1>6. prog[p] \in Statements
  BY <1>4, ElementOfSeq DEF Types
<1>7. b \in Ancestors(b)
  BY <1>3, AncestorsClosed DEF Tree, Ancestors
<1>. QED BY <1>1, <1>3, <1>4, <1>5, <1>6, <1>7 DEF Here

LEMMA SemaStep ==
  ASSUME IInv, pc = "sema", at < Len(prog), at' = at + 1, prog' = prog, EntersOne, Moves,
         pc' \in {"sema", "rejected", "crash"}, success' \in BOOLEAN, success' => success,
         pc' = "sema" /\ Len(scopes') = 1 => success',
         NEW n, n = NameUsed(at + 1),
         \/ res' = res /\ Here.op # "use" /\ (Here.op = "decl" => Here.init = NULL)
         \/ /\ n \in Names /\ Here.op \in {"decl", "use", "call"} /\ res' = Resolution(at + 1, n)
            /\ Here.op = "use" /\ success' => LocalExist(n) # None
            /\ Here.op = "decl" /\ success' => LocalExist(n).kind # "func"
  PROVE  IInv'
<1>1. Types /\ Tree /\ Nested /\ Stacked /\ Declared /\ ResolvedOnes /\ Passed
  BY DEF IInv
<1>2. /\ blocks' \in Seq(Blocks) /\ Len(blocks') = Len(blocks) /\ Extends(blocks', blocks)
      /\ \A a \in 1..Len(blocks), m \in Names :
              \/ blocks'[a].locals[m] = blocks[a].locals[m]
              \/ /\ blocks'[a].locals[m].decl \in 1..Len(prog)
                 /\ blocks'[a].locals[m].kind \in {"var", "func"}
                 /\ prog[blocks'[a].locals[m].decl].block \in Ancestors(a)
  BY <1>1, EnterKeeps
<1>3. PICK p : p = at + 1 /\ p \in 1..Len(prog) /\ p \in Nat /\ at \in Nat
  BY <1>1, AtStatement DEF Types
<1>4. Types'
  BY <1>1, <1>2, <1>3 DEF Types
<1>5. /\ Tree' /\ Nested'
      /\ \A q \in 0..Len(prog) : After(q)' = After(q)
  BY <1>1, <1>2, TreeKept
<1>6. Stacked'
  BY <1>1, <1>2, StackStep
<1>7. Declared'
  BY <1>1, <1>2, DeclaredStep
<1>8. ResolvedOnes'
  BY <1>1, ResolvedKept
<1>9. Passed'
  <2>1. ASSUME NEW q \in 1..p
        PROVE  /\ prog[q].op = "use" => q \in DOMAIN res' /\ (success' => res'[q] # None)
               /\ prog[q].op = "decl" /\ prog[q].init # NULL =>
                    q \in DOMAIN res' /\ (success' => res'[q].kind # "func")
    <3>1. CASE q \in 1..at
      <4>1. /\ prog[q].op = "use" => q \in DOMAIN res /\ (success => res[q] # None)
            /\ prog[q].op = "decl" /\ prog[q].init # NULL =>
                 q \in DOMAIN res /\ (success => res[q].kind # "func")
        BY <1>1, <3>1 DEF Passed, Checked
      <4>2. q # p
        BY <1>3, <3>1
      <4>3. q \in DOMAIN res => q \in DOMAIN res' /\ res'[q] = res[q]
        BY <1>3, <4>2 DEF Resolution
      <4>. QED BY <4>1, <4>3
    <3>2. CASE q = p
      <4>1. CASE res' = res /\ Here.op # "use" /\ (Here.op = "decl" => Here.init = NULL)
        BY <1>3, <3>2, <4>1 DEF Here
      <4>2. CASE /\ n \in Names /\ Here.op \in {"decl", "use", "call"} /\ res' = Resolution(at + 1, n)
                 /\ Here.op = "use" /\ success' => LocalExist(n) # None
                 /\ Here.op = "decl" /\ success' => LocalExist(n).kind # "func"
        <5>1. p \in DOMAIN res' /\ res'[p] = LocalExist(n)
          BY <1>3, <4>2 DEF Resolution
        <5>. QED BY <1>3, <3>2, <4>2, <5>1 DEF Here
      <4>. QED BY <4>1, <4>2
    <3>. QED BY <1>3, <3>1, <3>2
  <2>2. Checked' = p \/ Checked' = 0
    BY <1>3 DEF Checked
  <2>3. \A q \in 1..Checked' : q \in 1..p
    BY <2>2
  <2>4. None' = None
    BY DEF None, Symbol
  <2>. QED BY <2>1, <2>3, <2>4 DEF Passed
<1>10. After(Len(prog))' = 1
  <2>1. Len(prog) \in 0..Len(prog)
    BY <1>3, LenProperties, <1>1 DEF Types
  <2>. QED BY <2>1, <1>5 DEF IInv
<1>. QED BY <1>4, <1>5, <1>6, <1>7, <1>8, <1>9, <1>10 DEF IInv

\* A symbol of the statement, entered where its block is around
LEMMA Enters ==
  ASSUME Types, Tree, Nested, Stacked, pc # "parse", at < Len(prog),
         NEW c \in 1..Len(blocks), NEW n \in Names, NEW k \in {"var", "func"},
         Curr \in Ancestors(c), blocks' = AddSymbol(blocks, c, n, Symbol(at + 1, k))
  PROVE  EntersOne
<1>1. PICK p : p = at + 1 /\ p \in 1..Len(prog) /\ p \in Nat /\ prog[p].block = Curr
  BY AtStatement DEF Here
<1>2. PICK y : y = Symbol(p, k)
  OBVIOUS
<1>3. y \in Records /\ y # None /\ y.decl = p /\ y.kind = k
  BY <1>1, <1>2, SymbolKinds
<1>. QED BY <1>1, <1>2, <1>3 DEF EntersOne

LEMMA SemaScopes == IInv /\ (SemaScope \/ SemaEnd) => IInv'
<1>. SUFFICES ASSUME IInv, SemaScope \/ SemaEnd PROVE IInv'
  OBVIOUS
<1>1. /\ pc = "sema" /\ at < Len(prog) /\ at' = at + 1 /\ prog' = prog /\ res' = res
      /\ blocks' = blocks /\ success' = success /\ Here.op \in {"scope", "end"}
  BY DEF SemaScope, SemaEnd, Walk
<1>2. Types /\ Tree /\ Nested /\ Stacked /\ Passed
  BY DEF IInv
<1>3. Moves /\ EntersOne
  BY <1>1 DEF Moves, EntersOne, SemaScope, SemaEnd, Walk
<1>4. pc' \in {"sema", "rejected"} /\ (pc' = "sema" /\ Len(scopes') = 1 => success')
  <2>1. CASE SemaScope
    <3>1. scopes \in Seq(Items) /\ scopes # <<>> /\ BlockItem(Here.body) \in Items
      <4>1. Here.body \in Nat
        BY <1>1, <1>2, AtStatement DEF Statements
      <4>. QED BY <1>2, <4>1, ItemKinds DEF Stacked, Stack
    <3>2. Len(scopes') # 1
      BY <2>1, <3>1, AppendProperties, EmptySeq DEF SemaScope
    <3>. QED BY <1>1, <2>1, <3>2 DEF SemaScope
  <2>2. CASE SemaEnd
    BY <1>1, <2>2 DEF SemaEnd, IInv, Types
  <2>. QED BY <2>1, <2>2
<1>. QED BY <1>1, <1>2, <1>3, <1>4, SemaStep DEF Types

LEMMA SemaFunctions == IInv /\ (SemaFunction \/ SemaPrototype) => IInv'
<1>. SUFFICES ASSUME IInv, SemaFunction \/ SemaPrototype PROVE IInv'
  OBVIOUS
<1>1. /\ pc = "sema" /\ at < Len(prog) /\ at' = at + 1 /\ prog' = prog /\ res' = res /\ pc' = pc
      /\ Here.op \in {"func", "proto"}
  BY DEF SemaFunction, SemaPrototype, Walk
<1>2. Types /\ Tree /\ Nested /\ Stacked /\ Passed
  BY DEF IInv
<1>3. PICK p : p = at + 1 /\ p \in 1..Len(prog) /\ Here = prog[p] /\ prog[p].block = Curr
  BY <1>1, <1>2, AtStatement DEF Here
<1>4. Here.name \in Names /\ (Len(scopes) = 1 => Curr = 1) /\ Curr \in Ancestors(Curr)
      /\ Curr \in 1..Len(blocks)
  BY <1>1, <1>2, <1>3, AtStatement DEF Tree
<1>5. CASE SemaFunction
  <2>1. /\ Here.body \in 2..Len(blocks) /\ Here.body \in 1..Len(blocks)
        /\ blocks[Here.body].parent = Curr
    BY <1>1, <1>2, <1>3, <1>5 DEF Tree, Opens, SemaFunction, Walk
  <2>2. Curr \in Ancestors(Here.body)
    BY <1>2, <1>4, <2>1, AncestorsOf DEF Tree, Ancestors
  <2>3. EntersOne
    <3>1. CASE Len(scopes) = 1
      BY <1>1, <1>2, <1>4, <1>5, <3>1, Enters DEF SemaFunction
    <3>2. CASE Len(scopes) # 1
      BY <1>1, <1>2, <1>4, <1>5, <2>1, <2>2, <3>2, Enters DEF SemaFunction
    <3>. QED BY <3>1, <3>2
  <2>4. Moves
    BY <1>5 DEF Moves, SemaFunction, Walk
  <2>5. Len(scopes') # 1
    <3>1. scopes \in Seq(Items) /\ FunctionItem(at + 1) \in Items /\ BlockItem(Here.body) \in Items
      <4>1. Here.body \in Nat /\ at + 1 \in Nat
        BY <1>1, <1>2, AtStatement DEF Statements
      <4>. QED BY <1>2, <4>1, ItemKinds DEF Stacked, Stack
    <3>2. Len(scopes') = Len(scopes) + 2 /\ Len(scopes) \in Nat
      BY <1>5, <3>1, LenProperties DEF SemaFunction
    <3>. QED BY <3>2
  <2>6. success' = success /\ Here.op = "func"
    BY <1>5 DEF SemaFunction, Walk
  <2>. QED BY <1>1, <1>2, <2>3, <2>4, <2>5, <2>6, SemaStep DEF Types
<1>6. CASE SemaPrototype
  <2>1. EntersOne
    <3>1. CASE Len(scopes) = 1
      <4>1. blocks' = AddSymbol(blocks, 1, Here.name, Symbol(at + 1, "func"))
        BY <1>6, <3>1 DEF SemaPrototype
      <4>. QED BY <1>1, <1>2, <1>4, <3>1, <4>1, Enters
    <3>2. CASE Len(scopes) # 1
      BY <1>6, <3>2 DEF SemaPrototype, EntersOne
    <3>. QED BY <3>1, <3>2
  <2>2. Moves /\ scopes' = scopes /\ Here.op = "proto"
    BY <1>6 DEF Moves, SemaPrototype, Walk
  <2>3. success' = (success /\ Len(scopes) = 1) /\ success \in BOOLEAN
    BY <1>2, <1>6 DEF SemaPrototype, Types
  <2>4. Len(scopes) = 1 => success
    BY <1>1, <1>2 DEF Passed
  <2>. QED BY <1>1, <1>2, <2>1, <2>2, <2>3, <2>4, SemaStep
<1>. QED BY <1>5, <1>6

LEMMA SemaDeclarations == IInv /\ SemaDecl => IInv'
<1>. SUFFICES ASSUME IInv, SemaDecl PROVE IInv'
  OBVIOUS
<1>1. /\ pc = "sema" /\ at < Len(prog) /\ at' = at + 1 /\ prog' = prog /\ scopes' = scopes
      /\ Here.op = "decl"
  BY DEF SemaDecl, Walk
<1>2. Types /\ Tree /\ Nested /\ Stacked /\ Passed
  BY DEF IInv
<1>3. PICK p : p = at + 1 /\ p \in 1..Len(prog) /\ Here = prog[p] /\ prog[p].block = Curr
  BY <1>1, <1>2, AtStatement DEF Here
<1>4. /\ Here.name \in Names /\ Here.init \in Names \union {NULL}
      /\ Curr \in Ancestors(Curr) /\ Curr \in 1..Len(blocks)
  BY <1>1, <1>2, <1>3, AtStatement DEF Tree, Statements
<1>5. PICK n : n = NameUsed(at + 1) /\ n = Here.init
  BY <1>1 DEF NameUsed, Here
<1>6. Moves
  BY <1>1 DEF Moves
<1>7. \/ n = NULL /\ res' = res
      \/ n # NULL /\ n \in Names /\ res' = Resolution(at + 1, n)
  BY <1>4, <1>5 DEF SemaDecl, Resolve
<1>8. Len(scopes) = 1 => success
  BY <1>1, <1>2 DEF Passed
<1>9. CASE n # NULL /\ LocalExist(n).kind = "func"
  <2>1. success' = FALSE /\ pc' = (IF Len(scopes) = 1 THEN "rejected" ELSE pc) /\ blocks' = blocks
    BY <1>5, <1>9 DEF SemaDecl
  <2>2. EntersOne
    BY <2>1 DEF EntersOne
  <2>. QED BY <1>1, <1>5, <1>6, <1>7, <2>1, <2>2, SemaStep
<1>10. CASE ~(n # NULL /\ LocalExist(n).kind = "func")
  <2>1. /\ blocks' = AddSymbol(blocks, Curr, Here.name, Symbol(at + 1, "var"))
        /\ success' = success /\ pc' = pc
    BY <1>5, <1>10 DEF SemaDecl
  <2>2. EntersOne
    BY <1>1, <1>2, <1>4, <2>1, Enters
  <2>3. success \in BOOLEAN
    BY <1>2 DEF Types
  <2>. QED BY <1>1, <1>5, <1>6, <1>7, <1>8, <1>10, <2>1, <2>2, <2>3, SemaStep
<1>. QED BY <1>9, <1>10

LEMMA SemaUses == IInv /\ (SemaUse \/ SemaCall) => IInv'
<1>. SUFFICES ASSUME IInv, SemaUse \/ SemaCall PROVE IInv'
  OBVIOUS
<1>1. /\ pc = "sema" /\ at < Len(prog) /\ at' = at + 1 /\ prog' = prog /\ scopes' = scopes
      /\ blocks' = blocks /\ Here.op \in {"use", "call"} /\ res' = Resolution(at + 1, Here.name)
  BY DEF SemaUse, SemaCall, Walk, Resolve
<1>2. Types /\ Tree /\ Nested /\ Stacked
  BY DEF IInv
<1>3. PICK p : p = at + 1 /\ p \in 1..Len(prog) /\ Here = prog[p] /\ prog[p].block = Curr
  BY <1>1, <1>2, AtStatement DEF Here
<1>4. Here.name \in Names /\ Len(scopes) # 1
  <2>1. Curr # 1
    BY <1>1, <1>2, <1>3 DEF Tree
  <2>. QED BY <1>1, <1>2, <1>3, <2>1, AtStatement DEF Tree
<1>5. PICK n : n = NameUsed(at + 1) /\ n = Here.name
  BY <1>1 DEF NameUsed, Here
<1>6. Moves /\ EntersOne
  BY <1>1 DEF Moves, EntersOne
<1>7. pc' \in {"sema", "crash"} /\ success' \in BOOLEAN /\ (success' => success)
      /\ (Here.op = "use" /\ success' => LocalExist(n) # None)
  <2>1. success \in BOOLEAN
    BY <1>2 DEF Types
  <2>2. CASE SemaUse
    BY <1>1, <1>5, <2>1, <2>2 DEF SemaUse
  <2>3. CASE SemaCall
    BY <1>1, <2>1, <2>3 DEF SemaCall, Walk
  <2>. QED BY <2>2, <2>3
<1>. QED BY <1>1, <1>4, <1>5, <1>6, <1>7, SemaStep

\* Steps that only change pc, and those that start a pass
LEMMA Untouched ==
  ASSUME IInv, prog' = prog, blocks' = blocks
  PROVE  /\ Tree' /\ Nested' /\ Declared'
         /\ \A p \in 0..Len(prog) : After(p)' = After(p)
         /\ res' = res => ResolvedOnes'
<1>1. Types /\ Tree /\ Nested /\ Declared /\ ResolvedOnes
  BY DEF IInv
<1>2. EntersOne
  BY DEF EntersOne
<1>3. Extends(blocks', blocks)
  BY <1>1, <1>2, EnterKeeps
<1>4. Tree' /\ Nested' /\ \A p \in 0..Len(prog) : After(p)' = After(p)
  BY <1>1, <1>3, TreeKept
<1>5. Declared'
  BY <1>1, <1>3, DeclaredStep
<1>6. ASSUME res' = res PROVE ResolvedOnes'
  <2>1. \A q \in 1..Len(prog) : NameUsed(q)' = NameUsed(q)
    BY DEF NameUsed
  <2>2. \A q \in 1..Len(prog) : prog[q].block \in 1..Len(blocks)
    BY <1>1 DEF Nested
  <2>3. \A q \in 1..Len(prog) : NameUsed(q) \in Names /\ Findable(q) => Findable(q)'
    BY <1>1, <1>2, <2>1, <2>2, FindableKept DEF Findable
  <2>4. None' = None
    BY DEF None, Symbol
  <2>. QED BY <1>1, <1>6, <2>1, <2>3, <2>4 DEF ResolvedOnes
<1>. QED BY <1>4, <1>5, <1>6

LEMMA Stops ==
  ASSUME IInv, prog' = prog, blocks' = blocks, scopes' = scopes, at' = at, success' = success,
         res' = res, pc # "parse", pc' \in {"lost", "sizeless", "done"},
         pc' = "lost" => Here.op = "decl" /\ res[at + 1] = None
  PROVE  IInv'
<1>1. Types /\ Stacked
  BY DEF IInv
<1>2. Tree' /\ Nested' /\ Declared' /\ ResolvedOnes' /\ \A p \in 0..Len(prog) : After(p)' = After(p)
  BY Untouched
<1>3. Len(prog) \in Nat /\ at \in 0..Len(prog)
  BY <1>1, LenProperties DEF Types
<1>4. Types'
  BY <1>1 DEF Types
<1>5. Stacked'
  <2>1. After(Reached)' = After(Reached)
    BY <1>2, <1>3 DEF Reached
  <2>. QED BY <1>1, <2>1 DEF Stacked
<1>6. Passed'
  BY DEF Passed, Checked
<1>7. After(Len(prog))' = 1
  BY <1>2, <1>3 DEF IInv
<1>8. pc' = "lost" => Here.op' = "decl" /\ res'[at' + 1] = None'
  BY DEF Here, None, Symbol
<1>. QED BY <1>2, <1>4, <1>5, <1>6, <1>7, <1>8 DEF IInv

LEMMA PassesStart == IInv /\ (ParseDone \/ SemaDone) => IInv'
<1>. SUFFICES ASSUME IInv, ParseDone \/ SemaDone PROVE IInv'
  OBVIOUS
<1>1. /\ UNCHANGED <<prog, blocks, scopes, success, res>> /\ at' = 0
      /\ \/ pc = "parse" /\ pc' = "sema" /\ Len(scopes) = 1
         \/ pc = "sema" /\ pc' = "gen" /\ at = Len(prog)
  BY DEF ParseDone, SemaDone, IInv
<1>2. Types /\ Tree /\ Nested /\ Stacked /\ Passed
  BY DEF IInv
<1>3. Tree' /\ Nested' /\ Declared' /\ ResolvedOnes' /\ \A p \in 0..Len(prog) : After(p)' = After(p)
  BY <1>1, Untouched
<1>4. PICK N \in Nat : N = Len(prog)
  BY <1>2, LenProperties DEF Types
<1>5. Reached = N /\ After(N) = 1
  <2>1. CASE pc = "parse"
    <3>1. Reached = N
      BY <1>4, <2>1 DEF Reached
    <3>2. PICK b : b = After(Reached)
      OBVIOUS
    <3>3. b = 1
      BY <1>1, <1>2, <2>1, <3>2, Place
    <3>. QED BY <3>1, <3>2, <3>3
  <2>2. CASE pc = "sema"
    BY <1>1, <1>4, <2>2 DEF Reached, IInv
  <2>. QED BY <1>1, <2>1, <2>2
<1>6. Len(scopes) = 1 /\ Len(scopes) \in Nat
  <2>1. PICK b : b = After(Reached) /\ b = 1
    BY <1>5
  <2>. QED BY <1>2, <2>1, Place
<1>7. Types'
  BY <1>1, <1>2, <1>4 DEF Types
<1>8. Stacked'
  <2>1. PICK par : par = (pc = "parse")
    OBVIOUS
  <2>2. PICK new : new = (pc' = "parse")
    OBVIOUS
  <2>3. Stack(blocks, par, scopes, 1)
    BY <1>2, <1>5, <2>1 DEF Stacked
  <2>4. \A j \in 2..Len(scopes) : FALSE
    BY <1>6
  <2>5. Stack(blocks, new, scopes, 1)
    BY <2>3, <2>4 DEF Stack
  <2>6. After(Reached)' = 1
    BY <1>1 DEF After, Reached
  <2>. QED BY <1>1, <2>2, <2>5, <2>6 DEF Stacked
<1>9. Passed'
  <2>1. None' = None
    BY DEF None, Symbol
  <2>2. CASE pc = "parse"
    <3>1. Checked' = 0 /\ \A p \in 1..0 : FALSE
      BY <1>1, <2>2 DEF Checked
    <3>2. success
      BY <2>2 DEF IInv
    <3>. QED BY <1>1, <2>2, <3>1, <3>2 DEF Passed
  <2>3. CASE pc = "sema"
    <3>1. success
      BY <1>2, <1>6, <2>3 DEF Passed
    <3>2. Checked' = Checked
      BY <1>1, <2>3 DEF Checked
    <3>. QED BY <1>1, <1>2, <2>1, <2>3, <3>1, <3>2 DEF Passed
  <2>. QED BY <1>1, <2>2, <2>3
<1>10. After(Len(prog))' = 1 /\ pc' \notin {"parse", "lost"}
  BY <1>1, <1>3, <1>4, <1>5
<1>. QED BY <1>3, <1>7, <1>8, <1>9, <1>10 DEF IInv

LEMMA GenWalks ==
  IInv /\ (GenScope \/ GenFunction \/ GenPrototype \/ GenEnd \/ GenDecl \/ GenUse \/ GenCall) => IInv'
<1>. SUFFICES ASSUME IInv, GenScope \/ GenFunction \/ GenPrototype \/ GenEnd \/ GenDecl
                             \/ GenUse \/ GenCall
              PROVE  IInv'
  OBVIOUS
<1>1. /\ pc = "gen" /\ at < Len(prog) /\ at' = at + 1 /\ prog' = prog /\ blocks' = blocks
      /\ success' = success /\ res' = res /\ pc' \in {"gen", "crash"}
  BY DEF GenScope, GenFunction, GenPrototype, GenEnd, GenDecl, GenUse, GenCall, Walk
<1>2. Types /\ Tree /\ Nested /\ Stacked /\ Passed
  BY DEF IInv
<1>3. Tree' /\ Nested' /\ Declared' /\ ResolvedOnes' /\ \A p \in 0..Len(prog) : After(p)' = After(p)
  BY <1>1, Untouched
<1>4. Moves
  BY DEF Moves, GenScope, GenFunction, GenPrototype, GenEnd, GenDecl, GenUse, GenCall, Walk
<1>5. PICK N \in Nat : N = Len(prog) /\ at \in 0..N
  BY <1>2, LenProperties DEF Types
<1>6. Types'
  BY <1>1, <1>2, <1>5 DEF Types
<1>7. Stacked'
  <2>1. EntersOne
    BY <1>1 DEF EntersOne
  <2>2. Extends(blocks', blocks)
    BY <1>2, <2>1, EnterKeeps
  <2>. QED BY <1>1, <1>2, <1>4, <2>2, StackStep
<1>8. Passed'
  <2>1. None' = None
    BY DEF None, Symbol
  <2>2. Checked' = Checked \/ Checked' = 0
    BY <1>1 DEF Checked
  <2>3. \A p \in 1..0 : FALSE
    OBVIOUS
  <2>. QED BY <1>1, <1>2, <2>1, <2>2, <2>3 DEF Passed
<1>9. After(Len(prog))' = 1
  BY <1>1, <1>3, <1>5 DEF IInv
<1>. QED BY <1>1, <1>3, <1>6, <1>7, <1>8, <1>9 DEF IInv

\* The name that symbol_gen does not find is in an initializer, and unknown.
LEMMA LostNames ==
  ASSUME IInv, GenLost
  PROVE  Here.op = "decl" /\ res[at + 1] = None
<1>1. Types /\ Tree /\ Nested /\ Stacked /\ ResolvedOnes /\ Passed
  BY DEF IInv
<1>2. pc = "gen" /\ at < Len(prog)
  BY DEF GenLost
<1>3. PICK p : p = at + 1 /\ p \in 1..Len(prog) /\ Here = prog[p]
  BY <1>1, <1>2, AtStatement DEF Here
<1>4. PICK b : b = After(at) /\ b = After(Reached) /\ prog[p].block = b
  BY <1>1, <1>2, <1>3, AtStatement DEF Reached, Here
<1>5. PICK n : n = NameUsed(p)
  OBVIOUS
<1>6. Findable(p) /\ n \in Names => SymbolGen(n) # None
  BY <1>1, <1>2, <1>4, <1>5, SymbolGenFinds DEF Findable
<1>7. success /\ Checked = Len(prog)
  BY <1>1, <1>2 DEF Passed, Checked
<1>8. p \in DOMAIN res => n \in Names /\ (res[p].kind \in {"var", "param"} => Findable(p))
      /\ (res[p] # None => res[p].kind \in {"var", "func", "param"})
  BY <1>1, <1>5 DEF ResolvedOnes
<1>9. CASE Here.op = "use" /\ res[at + 1].kind # "func" /\ SymbolGen(Here.name) = None
  <2>1. p \in DOMAIN res /\ res[p] # None
    BY <1>1, <1>3, <1>7, <1>9 DEF Passed
  <2>2. n = Here.name
    BY <1>3, <1>5, <1>9 DEF NameUsed
  <2>. QED BY <1>3, <1>6, <1>8, <1>9, <2>1, <2>2
<1>10. CASE Here.op = "decl" /\ Here.init # NULL /\ SymbolGen(Here.init) = None
  <2>1. p \in DOMAIN res /\ res[p].kind # "func"
    BY <1>1, <1>3, <1>7, <1>10 DEF Passed
  <2>2. n = Here.init
    BY <1>3, <1>5, <1>10 DEF NameUsed
  <2>. QED BY <1>3, <1>6, <1>8, <1>10, <2>1, <2>2
<1>. QED BY <1>9, <1>10 DEF GenLost

LEMMA GenStops == IInv /\ (GenLost \/ GenSizeless \/ GenDone) => IInv'
<1>. SUFFICES ASSUME IInv, GenLost \/ GenSizeless \/ GenDone PROVE IInv'
  OBVIOUS
<1>1. UNCHANGED <<prog, blocks, scopes, at, success, res>> /\ pc = "gen"
  BY DEF GenLost, GenSizeless, GenDone
<1>2. pc' \in {"lost", "sizeless", "done"} /\ (pc' = "lost" => GenLost)
  BY DEF GenLost, GenSizeless, GenDone
<1>. QED BY <1>1, <1>2, LostNames, Stops

-----------------------------------------------------------------------------
(* Steps of the parser *)

LEMMA TreeGrown ==
  ASSUME Types, Tree, Nested, Stacked, pc = "parse", NEW st \in Statements,
         NEW N \in Nat, N = Len(prog),
         prog' = Append(prog, st), st.block = Curr,
         Extends(blocks', blocks),
         \A c \in 1..Len(blocks') : blocks'[c].func # 0 =>
           \/ c \in 1..Len(blocks)
           \/ blocks'[c].func = N + 1 /\ st.op = "func" /\ st.body = c,
         st.op \in {"scope", "func"} =>
           /\ st.body \in 2..Len(blocks') /\ blocks'[st.body].parent = Curr
           /\ blocks'[st.body].func = (IF st.op = "func" THEN N + 1 ELSE 0),
         st.op \in {"func", "proto", "decl", "use", "call"} => st.name \in Names,
         st.op \in {"use", "call", "end"} => Curr # 1
  PROVE  /\ Tree' /\ Nested'
         /\ \A p \in 1..N : p \in 1..Len(prog') /\ prog'[p] = prog[p]
         /\ Len(prog') = N + 1 /\ prog'[N + 1] = st
         /\ After(N + 1)' = CASE st.op \in {"scope", "func"} -> st.body
                                      [] st.op = "end" -> blocks[Curr].parent
                                      [] OTHER -> Curr
<1>1. N \in Nat /\ N = Len(prog)
  OBVIOUS
<1>2. PICK b : b = After(Reached)
  OBVIOUS
<1>3. b = After(N) /\ b = Curr /\ b \in 1..Len(blocks)
  <2>1. b = Curr /\ b \in 1..Len(blocks)
    BY <1>2, Place
  <2>2. Reached = N
    BY <1>1 DEF Reached
  <2>. QED BY <1>2, <2>1, <2>2
<1>4. /\ Len(prog') = N + 1 /\ prog'[N + 1] = st
      /\ \A p \in 1..N : p \in 1..(N + 1) /\ prog'[p] = prog[p]
  <2>1. Len(prog') = N + 1 /\ prog'[N + 1] = st /\ \A p \in 1..N : prog'[p] = prog[p]
    BY <1>1, AppendProperties DEF Types
  <2>. QED BY <2>1
<1>5. \A p \in 1..(N + 1) : p \in 1..N \/ p = N + 1
  BY <1>1
<1>6. PICK M \in Nat : M = Len(blocks)
  BY DEF Tree, IsTree
<1>7. PICK L \in Nat : L = Len(blocks') /\ M <= L
  BY <1>6 DEF Extends, IsTree
<1>8. 1..M \subseteq 1..L /\ 2..M \subseteq 2..L /\ 2..M \subseteq 1..M /\ 2..L \subseteq 1..L
  BY <1>7
<1>9. \A c \in 1..M : blocks'[c].parent = blocks[c].parent /\ blocks'[c].func = blocks[c].func
  BY <1>6 DEF Extends
<1>10. Tree'
  <2>1. ASSUME NEW c \in 1..L, blocks'[c].func # 0
        PROVE  /\ blocks'[c].func \in 1..(N + 1)
               /\ prog'[blocks'[c].func].op = "func" /\ prog'[blocks'[c].func].body = c
    <3>1. CASE c \in 1..M
      <4>1. /\ blocks[c].func \in 1..N
            /\ prog[blocks[c].func].op = "func" /\ prog[blocks[c].func].body = c
        BY <1>1, <1>6, <1>9, <2>1, <3>1 DEF Tree
      <4>. QED BY <1>4, <1>9, <3>1, <4>1
    <3>2. CASE c \notin 1..M
      BY <1>1, <1>4, <1>6, <1>7, <2>1, <3>2
    <3>. QED BY <3>1, <3>2
  <2>2. ASSUME NEW p \in 1..(N + 1), prog'[p].op \in {"scope", "func"}
        PROVE  /\ prog'[p].body \in 2..L
               /\ blocks'[prog'[p].body].parent = prog'[p].block
               /\ blocks'[prog'[p].body].func = (IF prog'[p].op = "func" THEN p ELSE 0)
    <3>1. CASE p \in 1..N
      <4>1. /\ prog[p].body \in 2..M
            /\ blocks[prog[p].body].parent = prog[p].block
            /\ blocks[prog[p].body].func = (IF prog[p].op = "func" THEN p ELSE 0)
        BY <1>1, <1>4, <1>6, <2>2, <3>1 DEF Tree, Opens
      <4>. QED BY <1>4, <1>8, <1>9, <3>1, <4>1
    <3>2. CASE p = N + 1
      BY <1>1, <1>4, <1>7, <2>2, <3>2
    <3>. QED BY <1>5, <3>1, <3>2
  <2>3. ASSUME NEW p \in 1..(N + 1)
        PROVE  /\ prog'[p].op \in {"func", "proto", "decl", "use", "call"} => prog'[p].name \in Names
               /\ prog'[p].op \in {"use", "call"} => prog'[p].block # 1
    <3>1. CASE p \in 1..N
      BY <1>1, <1>4, <3>1 DEF Tree
    <3>2. CASE p = N + 1
      BY <1>4, <3>2
    <3>. QED BY <1>5, <3>1, <3>2
  <2>4. IsTree(blocks')
    BY DEF Extends
  <2>. QED BY <1>4, <1>7, <2>1, <2>2, <2>3, <2>4 DEF Tree, Opens
<1>11. \A p \in 0..N : After(p)' = After(p)
  <2>1. ASSUME NEW p \in 1..N PROVE After(p)' = After(p)
    <3>1. prog[p].block \in 1..M
      BY <1>1, <1>6 DEF Nested
    <3>2. p # 0 /\ prog'[p] = prog[p]
      BY <1>1, <1>4
    <3>. QED BY <1>9, <3>1, <3>2 DEF After, Opens
  <2>2. \A p \in 0..N : p = 0 \/ p \in 1..N
    BY <1>1
  <2>3. After(0)' = After(0)
    BY DEF After
  <2>. QED BY <2>1, <2>2, <2>3
<1>12. After(N + 1)' = CASE st.op \in {"scope", "func"} -> st.body
                         [] st.op = "end" -> blocks[b].parent
                         [] OTHER -> b
  <2>1. N + 1 # 0
    BY <1>1
  <2>2. blocks'[b].parent = blocks[b].parent
    BY <1>3, <1>6, <1>9
  <2>. QED BY <1>3, <1>4, <2>1, <2>2 DEF After, Opens
<1>13. Nested'
  <2>1. ASSUME NEW p \in 1..N
        PROVE  prog'[p].block = After(p - 1)' /\ {prog'[p].block, After(p)'} \subseteq 1..L
    <3>1. p \in 0..N /\ p - 1 \in 0..N
      BY <1>1
    <3>2. prog[p].block = After(p - 1) /\ {prog[p].block, After(p)} \subseteq 1..M
      BY <1>1, <1>6 DEF Nested
    <3>. QED BY <1>4, <1>8, <1>11, <3>1, <3>2
  <2>2. st.block = After(N)' /\ st.block \in 1..L
    <3>1. N \in 0..N
      BY <1>1
    <3>2. After(N)' = b
      BY <1>3, <1>11, <3>1
    <3>. QED BY <1>3, <1>6, <1>8, <3>2
  <2>3. After(N + 1)' \in 1..L
    <3>1. CASE st.op \in {"scope", "func"}
      BY <1>7, <1>8, <1>12, <3>1
    <3>2. CASE st.op = "end"
      <4>1. b \in 2..M
        BY <1>3, <1>6, <3>2
      <4>2. blocks[b].parent \in 1..M
        BY <1>6, <4>1 DEF Tree, IsTree
      <4>. QED BY <1>8, <1>12, <3>2, <4>2
    <3>3. CASE st.op \notin {"scope", "func", "end"}
      BY <1>3, <1>6, <1>8, <1>12, <3>3
    <3>. QED BY <3>1, <3>2, <3>3
  <2>4. (N + 1) - 1 = N
    BY <1>1
  <2>5. ASSUME NEW p \in 1..(N + 1)
        PROVE  prog'[p].block = After(p - 1)' /\ {prog'[p].block, After(p)'} \subseteq 1..L
    <3>1. CASE p = N + 1
      BY <1>4, <2>2, <2>3, <2>4, <3>1
    <3>. QED BY <1>5, <2>1, <3>1
  <2>. QED BY <1>4, <1>7, <2>5 DEF Nested
<1>. QED BY <1>1, <1>3, <1>4, <1>10, <1>12, <1>13

\* Where the parser is
LEMMA AtParse ==
  ASSUME IInv, pc = "parse"
  PROVE  /\ Types /\ Tree /\ Nested /\ Stacked /\ Declared
         /\ Len(prog) \in Nat /\ Len(blocks) \in Nat /\ Curr \in Nat
         /\ Curr \in 1..Len(blocks) /\ Curr \in Ancestors(Curr)
         /\ (Len(scopes) = 1 <=> Curr = 1) /\ Len(scopes) \in Nat /\ Len(scopes) >= 1
         /\ \A par : par = TRUE => Stack(blocks, par, scopes, Curr)
<1>1. Types /\ Tree /\ Nested /\ Stacked /\ Declared
  BY DEF IInv
<1>2. PICK b : b = After(Reached)
  OBVIOUS
<1>3. /\ Len(prog) \in Nat /\ Len(blocks) \in Nat /\ b \in Nat /\ Curr = b /\ b \in 1..Len(blocks)
      /\ (Len(scopes) = 1 <=> b = 1) /\ Len(scopes) \in Nat /\ Len(scopes) >= 1
      /\ Stack(blocks, pc = "parse", scopes, b)
  BY <1>1, <1>2, Place
<1>4. b \in Ancestors(b)
  BY <1>1, <1>3, AncestorsClosed DEF Tree, Ancestors
<1>5. ASSUME NEW par, par = TRUE PROVE Stack(blocks, par, scopes, b)
  <2>1. PICK old : old = (pc = "parse")
    OBVIOUS
  <2>2. Stack(blocks, old, scopes, b) /\ old = par
    BY <1>3, <1>5, <2>1
  <2>. QED BY <2>2
<1>. QED BY <1>1, <1>3, <1>4, <1>5

LEMMA Parsed ==
  ASSUME IInv, pc = "parse", NEW st \in Statements, Parse(st), blocks' \in Seq(Blocks),
         Tree', Nested', Declared', Stacked'
  PROVE  IInv'
<1>1. Types
  BY DEF IInv
<1>2. prog' = Append(prog, st) /\ UNCHANGED <<at, success, res, pc>>
  BY DEF Parse
<1>3. at = 0 /\ res = <<>> /\ success
  BY DEF IInv
<1>4. prog' \in Seq(Statements)
  BY <1>1, <1>2, AppendProperties DEF Types
<1>5. PICK M \in Nat : M = Len(prog')
  BY <1>4, LenProperties
<1>6. Types'
  BY <1>1, <1>2, <1>3, <1>4, <1>5 DEF Types
<1>7. DOMAIN res' = {}
  BY <1>2, <1>3
<1>8. ResolvedOnes'
  BY <1>7 DEF ResolvedOnes
<1>9. Passed'
  <2>1. Checked' = 0 /\ \A p \in 1..0 : FALSE
    BY <1>2 DEF Checked
  <2>. QED BY <1>2, <2>1 DEF Passed
<1>. QED BY <1>2, <1>3, <1>6, <1>8, <1>9 DEF IInv

LEMMA StatementType ==
  ASSUME IInv, pc = "parse", NEW op \in {"scope", "func", "proto", "end", "decl", "use", "call"},
         NEW n \in Names \union {NULL}, NEW init \in Names \union {NULL}, NEW ps \in SUBSET Names,
         NEW body \in Nat, NEW st, st = Statement(op, n, init, ps, body)
  PROVE  /\ st \in Statements /\ st.op = op /\ st.name = n /\ st.block = Curr /\ st.body = body
BY AtParse DEF Statement, Statements

LEMMA ParseOpens ==
  ASSUME IInv, NEW op \in {"scope", "func"}, NEW n \in Names \union {NULL}, NEW ps \in SUBSET Names,
         op = "func" => n \in Names, ParseOpen(op, n, ps)
  PROVE  IInv'
<1>1. pc = "parse" /\ pc' = pc
  BY DEF ParseOpen, Parse
<1>2. PICK N \in Nat : N = Len(prog)
  BY <1>1, AtParse
<1>3. PICK b \in Nat : b = Len(blocks) + 1
  BY <1>1, AtParse
<1>4. PICK st : st = Statement(op, n, NULL, ps, b)
  OBVIOUS
<1>5. st \in Statements /\ st.op = op /\ st.name = n /\ st.block = Curr /\ st.body = b
  BY <1>1, <1>4, StatementType
<1>6. Parse(st) /\ prog' = Append(prog, st)
  BY <1>3, <1>4 DEF ParseOpen, Parse
<1>7. PICK f \in Nat : f = IF op = "func" THEN N + 1 ELSE 0
  BY <1>2
<1>8. blocks' = Append(blocks, NewBlock(Curr, f)) /\ scopes' = Append(scopes, BlockItem(b))
  BY <1>2, <1>3, <1>7 DEF ParseOpen
<1>9. Types /\ Tree /\ Nested /\ Stacked /\ Declared /\ blocks \in Seq(Blocks) /\ IsTree(blocks)
  BY <1>1, AtParse DEF Types, Tree
<1>10. /\ blocks' \in Seq(Blocks) /\ Len(blocks') = b /\ Extends(blocks', blocks)
       /\ blocks'[b].parent = Curr /\ blocks'[b].func = f
       /\ \A m \in Names : blocks'[b].locals[m] = None
       /\ \A a \in 1..Len(blocks) : blocks'[a] = blocks[a]
  <2>1. PICK q \in Nat : q = Curr /\ q \in 1..Len(blocks)
    BY <1>1, AtParse
  <2>2. PICK t : t = NewBlock(q, f)
    OBVIOUS
  <2>3. t \in Blocks /\ t.parent = q /\ t.func = f /\ \A m \in Names : t.locals[m] = None
    BY <2>2, NewBlockType
  <2>4. PICK M \in Nat : M = Len(blocks)
    BY <1>1, AtParse
  <2>5. blocks' = Append(blocks, t)
    BY <1>8, <2>1, <2>2
  <2>6. /\ blocks' \in Seq(Blocks) /\ Len(blocks') = M + 1 /\ blocks'[M + 1] = t
        /\ \A a \in 1..M : blocks'[a] = blocks[a]
    BY <1>9, <2>3, <2>4, <2>5, AppendProperties
  <2>7. Extends(blocks', blocks)
    BY <1>9, <2>1, <2>3, <2>4, <2>6, BlockAdded
  <2>. QED BY <1>3, <2>1, <2>3, <2>4, <2>6, <2>7
<1>11. /\ b \in 2..Len(blocks') /\ \A c \in 1..Len(blocks') : c \in 1..Len(blocks) \/ c = b
  BY <1>1, <1>3, <1>10, AtParse
<1>12. /\ Tree' /\ Nested'
       /\ \A p \in 1..N : p \in 1..Len(prog') /\ prog'[p] = prog[p]
       /\ Len(prog') = N + 1 /\ After(N + 1)' = b
  BY <1>1, <1>2, <1>5, <1>6, <1>7, <1>9, <1>10, <1>11, TreeGrown
<1>13. Declared'
  BY <1>2, <1>9, <1>10, <1>11, <1>12, DeclaredStep
<1>14. Stacked'
  <2>1. PICK par : par = TRUE
    OBVIOUS
  <2>2. Stack(blocks', par, scopes, Curr) /\ IsTree(blocks')
    BY <1>1, <1>9, <1>10, <2>1, AtParse, StackKept DEF Extends
  <2>3. Stack(blocks', par, scopes', b)
    BY <1>1, <1>8, <1>10, <1>11, <2>1, <2>2, AtParse, PushBlock
  <2>4. After(Reached)' = b
    <3>1. Reached' = N + 1
      BY <1>1, <1>12 DEF Reached
    <3>. QED BY <1>12, <3>1
  <2>5. (pc = "parse")' = par
    BY <1>1, <2>1
  <2>. QED BY <2>3, <2>4, <2>5 DEF Stacked
<1>. QED BY <1>1, <1>5, <1>6, <1>10, <1>12, <1>13, <1>14, Parsed

LEMMA ParseEnds == IInv /\ ParseEnd => IInv'
<1>. SUFFICES ASSUME IInv, ParseEnd PROVE IInv'
  OBVIOUS
<1>1. pc = "parse" /\ pc' = pc
  BY DEF ParseEnd, Parse
<1>2. PICK N \in Nat : N = Len(prog)
  BY <1>1, AtParse
<1>3. PICK st : st = Statement("end", NULL, NULL, {}, 0)
  OBVIOUS
<1>4. st \in Statements /\ st.op = "end" /\ st.block = Curr
  BY <1>1, <1>3, StatementType
<1>5. Parse(st) /\ prog' = Append(prog, st) /\ blocks' = Entered(Curr) /\ scopes' = Popped(1)
  BY <1>3 DEF ParseEnd, Parse
<1>6. Types /\ Tree /\ Nested /\ Stacked /\ Declared /\ IsTree(blocks)
  BY <1>1, AtParse DEF Tree
<1>7. PICK b \in Nat : b = Curr /\ b \in 2..Len(blocks) /\ b \in 1..Len(blocks)
  <2>1. PICK c \in Nat : c = Curr /\ c \in 1..Len(blocks) /\ Len(blocks) \in Nat
    BY <1>1, AtParse
  <2>2. Len(scopes) # 1
    <3>1. PICK K \in Nat : K = Len(scopes)
      BY <1>1, AtParse
    <3>2. K > 1
      BY <3>1 DEF ParseEnd
    <3>. QED BY <3>1, <3>2
  <2>3. c # 1
    BY <1>1, <2>1, <2>2, AtParse
  <2>. QED BY <2>1, <2>3
<1>8. PICK q \in Nat : q = blocks[b].parent /\ q \in 1..Len(blocks)
  BY <1>6, <1>7 DEF IsTree
<1>9. EntersOne
  <2>1. CASE blocks[b].func = 0
    BY <1>5, <1>7, <2>1 DEF Entered, EntersOne
  <2>2. CASE blocks[b].func # 0
    <3>1. PICK f : f = blocks[b].func
      OBVIOUS
    <3>2. f \in 1..N /\ prog[f].op = "func" /\ prog[f].body = b
      BY <1>2, <1>6, <1>7, <2>2, <3>1 DEF Tree
    <3>3. prog[f].name \in Names /\ prog[f].block = q
      BY <1>2, <1>6, <1>8, <3>2 DEF Tree, Opens
    <3>4. q \in Ancestors(q)
      BY <1>6, <1>8, AncestorsClosed DEF Ancestors
    <3>5. PICK y : y = Symbol(f, "func")
      OBVIOUS
    <3>6. y \in Records /\ y # None /\ y.decl = f /\ y.kind = "func"
      BY <3>2, <3>5, SymbolKinds
    <3>7. blocks' = AddSymbol(blocks, q, prog[f].name, y)
      BY <1>5, <1>7, <1>8, <2>2, <3>1, <3>5 DEF Entered
    <3>. QED BY <1>2, <1>8, <3>2, <3>3, <3>4, <3>6, <3>7 DEF EntersOne
  <2>. QED BY <2>1, <2>2
<1>10. /\ blocks' \in Seq(Blocks) /\ Len(blocks') = Len(blocks) /\ Extends(blocks', blocks)
       /\ \A a \in 1..Len(blocks), m \in Names :
              \/ blocks'[a].locals[m] = blocks[a].locals[m]
              \/ /\ blocks'[a].locals[m].decl \in 1..Len(prog)
                 /\ blocks'[a].locals[m].kind \in {"var", "func"}
                 /\ prog[blocks'[a].locals[m].decl].block \in Ancestors(a)
  BY <1>6, <1>9, EnterKeeps
<1>11. /\ Tree' /\ Nested'
       /\ \A p \in 1..N : p \in 1..Len(prog') /\ prog'[p] = prog[p]
       /\ Len(prog') = N + 1 /\ After(N + 1)' = q
  BY <1>1, <1>2, <1>4, <1>5, <1>6, <1>7, <1>8, <1>10, TreeGrown
<1>12. Declared'
  BY <1>2, <1>6, <1>10, <1>11, DeclaredStep
<1>13. Stacked'
  <2>1. PICK par : par = TRUE
    OBVIOUS
  <2>2. Stack(blocks, par, scopes, b)
    BY <1>1, <1>7, <2>1, AtParse
  <2>3. Stack(blocks, par, SubSeq(scopes, 1, Len(scopes) - 1), q)
    <3>1. PICK k \in {1, 2} : k = 1
      OBVIOUS
    <3>2. k = IF par \/ blocks[b].func = 0 THEN 1 ELSE 2
      BY <2>1, <3>1
    <3>3. b # 1
      BY <1>7
    <3>4. Stack(blocks, par, SubSeq(scopes, 1, Len(scopes) - k), q)
      BY <1>6, <1>8, <2>2, <3>2, <3>3, PopItems
    <3>. QED BY <3>1, <3>4
  <2>4. Stack(blocks', par, scopes', q)
    BY <1>5, <1>6, <1>8, <1>10, <2>3, StackKept DEF Popped
  <2>5. After(Reached)' = q
    <3>1. Reached' = N + 1
      BY <1>1, <1>11 DEF Reached
    <3>. QED BY <1>11, <3>1
  <2>6. (pc = "parse")' = par
    BY <1>1, <2>1
  <2>. QED BY <2>4, <2>5, <2>6 DEF Stacked
<1>. QED BY <1>1, <1>4, <1>5, <1>10, <1>11, <1>12, <1>13, Parsed

\* A statement that opens and ends nothing
LEMMA ParsePlain ==
  ASSUME IInv, NEW op \in {"proto", "decl", "use", "call"}, NEW n \in Names,
         NEW init \in Names \union {NULL}, NEW ps \in SUBSET Names,
         NEW st, st = Statement(op, n, init, ps, 0), Parse(st), scopes' = scopes,
         op \in {"use", "call"} => Len(scopes) > 1,
         \/ blocks' = blocks
         \/ blocks' = AddSymbol(blocks, Curr, n, Symbol(Len(prog) + 1, "func"))
  PROVE  IInv'
<1>1. pc = "parse" /\ pc' = pc /\ prog' = Append(prog, st)
  BY DEF Parse
<1>2. PICK N \in Nat : N = Len(prog)
  BY <1>1, AtParse
<1>3. st \in Statements /\ st.op = op /\ st.name = n /\ st.block = Curr
  BY <1>1, StatementType
<1>4. Types /\ Tree /\ Nested /\ Stacked /\ Declared /\ IsTree(blocks) /\ blocks \in Seq(Blocks)
  BY <1>1, AtParse DEF Tree, Types
<1>5. PICK b \in Nat : b = Curr /\ b \in 1..Len(blocks) /\ b \in Ancestors(b)
  BY <1>1, AtParse
<1>6. op \in {"use", "call"} => b # 1
  <2>1. op \in {"use", "call"} => Len(scopes) # 1
    <3>1. PICK K \in Nat : K = Len(scopes)
      BY <1>1, AtParse
    <3>2. op \in {"use", "call"} => K > 1
      BY <3>1
    <3>. QED BY <3>1, <3>2
  <2>2. b # 1 \/ Len(scopes) = 1
    BY <1>1, <1>5, AtParse
  <2>. QED BY <2>1, <2>2
<1>7. PICK y : y = Symbol(N + 1, "func")
  OBVIOUS
<1>8. y \in Records /\ y.decl = N + 1 /\ y.kind = "func"
  BY <1>2, <1>7, SymbolKinds
<1>9. /\ blocks' \in Seq(Blocks) /\ Len(blocks') = Len(blocks) /\ Extends(blocks', blocks)
      /\ \A a \in 1..Len(blocks), m \in Names :
           \/ blocks'[a].locals[m] = blocks[a].locals[m]
           \/ a = b /\ blocks'[a].locals[m] = y
  <2>1. CASE blocks' = blocks
    BY <1>4, <2>1 DEF Extends, IsTree
  <2>2. CASE blocks' = AddSymbol(blocks, b, n, y)
    BY <1>4, <1>5, <1>8, <2>2, SymbolAdded
  <2>. QED BY <1>2, <1>5, <1>7, <2>1, <2>2
<1>10. /\ Tree' /\ Nested'
       /\ \A p \in 1..N : p \in 1..Len(prog') /\ prog'[p] = prog[p]
       /\ Len(prog') = N + 1 /\ prog'[N + 1] = st /\ After(N + 1)' = b
  BY <1>1, <1>2, <1>3, <1>4, <1>5, <1>6, <1>9, TreeGrown
<1>11. Declared'
  <2>1. y.decl \in 1..Len(prog') /\ prog'[y.decl].block = b
    BY <1>2, <1>3, <1>5, <1>8, <1>10
  <2>. QED BY <1>2, <1>4, <1>5, <1>8, <1>9, <1>10, <2>1, DeclaredStep
<1>12. Stacked'
  <2>1. PICK par : par = TRUE
    OBVIOUS
  <2>2. Stack(blocks', par, scopes', b)
    BY <1>1, <1>4, <1>5, <1>9, <2>1, AtParse, StackKept
  <2>3. After(Reached)' = b
    <3>1. Reached' = N + 1
      BY <1>1, <1>10 DEF Reached
    <3>. QED BY <1>10, <3>1
  <2>4. (pc = "parse")' = par
    BY <1>1, <2>1
  <2>. QED BY <2>2, <2>3, <2>4 DEF Stacked
<1>. QED BY <1>1, <1>3, <1>9, <1>10, <1>11, <1>12, Parsed

LEMMA ParseSteps == IInv /\ Parsing => IInv'
<1>. SUFFICES ASSUME IInv, Parsing PROVE IInv'
  OBVIOUS
<1>1. CASE ParseScope
  BY <1>1, ParseOpens DEF ParseScope
<1>2. CASE ParseFunction
  <2>1. PICK n \in Functions, ps \in Params : ParseOpen("func", n, ps)
    BY <1>2 DEF ParseFunction
  <2>2. n \in Names /\ ps \in SUBSET Names
    BY NamesAssumption, ParamsAssumption
  <2>. QED BY <2>1, <2>2, ParseOpens
<1>3. CASE ParseEnd
  BY <1>3, ParseEnds
<1>4. CASE ParsePrototype
  <2>1. PICK n \in Functions, ps \in Params :
          /\ Parse(Statement("proto", n, NULL, ps, 0))
          /\ blocks' = AddSymbol(blocks, Curr, n, Symbol(Len(prog) + 1, "func"))
          /\ scopes' = scopes
    BY <1>4 DEF ParsePrototype
  <2>2. n \in Names /\ ps \in SUBSET Names
    BY NamesAssumption, ParamsAssumption
  <2>. QED BY <2>1, <2>2, ParsePlain
<1>5. CASE ParseDecl
  <2>1. PICK n \in Names, init \in Names \union {NULL} :
          Parse(Statement("decl", n, init, {}, 0)) /\ blocks' = blocks /\ scopes' = scopes
    BY <1>5 DEF ParseDecl
  <2>. QED BY <2>1, ParsePlain
<1>6. CASE ParseUse
  <2>1. PICK op \in {"use", "call"}, n \in Names :
          /\ Len(scopes) > 1
          /\ Parse(Statement(op, n, NULL, {}, 0)) /\ blocks' = blocks /\ scopes' = scopes
    BY <1>6 DEF ParseUse
  <2>. QED BY <2>1, ParsePlain
<1>7. CASE ParseDone
  BY <1>7, PassesStart
<1>. QED BY <1>1, <1>2, <1>3, <1>4, <1>5, <1>6, <1>7 DEF Parsing

-----------------------------------------------------------------------------
(* The theorems *)

LEMMA InitIInv == Init => IInv
<1>. SUFFICES ASSUME Init PROVE IInv
  OBVIOUS
<1>1. /\ prog = <<>> /\ at = 0 /\ success = TRUE /\ res = <<>> /\ pc = "parse"
      /\ Len(prog) = 0 /\ \A p \in 1..Len(prog) : FALSE
  BY DEF Init
<1>2. PICK t : t = NewBlock(0, 0)
  OBVIOUS
<1>3. t \in Blocks /\ t.parent = 0 /\ t.func = 0 /\ \A m \in Names : t.locals[m] = None
  BY <1>2, NewBlockType
<1>4. blocks = <<t>> /\ scopes = <<BlockItem(1)>>
  BY <1>2 DEF Init
<1>5. blocks \in Seq(Blocks) /\ Len(blocks) = 1 /\ blocks[1] = t /\ \A b \in 2..Len(blocks) : FALSE
  BY <1>3, <1>4
<1>6. IsTree(blocks) /\ \A b \in 1..Len(blocks) : b = 1
  BY <1>3, <1>5 DEF IsTree
<1>7. PICK x : x = BlockItem(1) /\ x \in Items /\ x.kind = "scope" /\ x.id = 1
  BY ItemKinds
<1>8. scopes \in Seq(Items) /\ scopes # <<>> /\ Len(scopes) = 1 /\ scopes[1] = x
  BY <1>4, <1>7
<1>9. Types
  BY <1>1, <1>5 DEF Types
<1>10. Tree /\ Nested
  BY <1>1, <1>3, <1>5, <1>6 DEF Tree, Nested
<1>11. Stacked
  <2>1. After(Reached) = 1
    BY <1>1 DEF Reached, After
  <2>2. \A j \in 2..Len(scopes) : FALSE
    BY <1>8
  <2>3. \A j \in 1..Len(scopes) : j = 1
    BY <1>8
  <2>4. AncestorsIn(blocks, 1) = {1}
    BY <1>6, AncestorsOfFirst
  <2>5. Below(scopes, 1) = {1}
    BY <1>7, <1>8 DEF Below
  <2>6. PICK par : par = (pc = "parse")
    OBVIOUS
  <2>7. Stack(blocks, par, scopes, 1)
    BY <1>7, <1>8, <2>2, <2>3, <2>4, <2>5 DEF Stack, Below
  <2>. QED BY <2>1, <2>6, <2>7 DEF Stacked
<1>12. Declared
  BY <1>3, <1>5, <1>6 DEF Declared
<1>13. ResolvedOnes
  <2>1. DOMAIN res = {}
    BY <1>1
  <2>. QED BY <2>1 DEF ResolvedOnes
<1>14. Passed
  <2>1. Checked = 0 /\ \A p \in 1..0 : FALSE
    BY <1>1 DEF Checked
  <2>. QED BY <1>1, <2>1 DEF Passed
<1>. QED BY <1>1, <1>9, <1>10, <1>11, <1>12, <1>13, <1>14 DEF IInv

LEMMA NextIInv == IInv /\ [Next]_vars => IInv'
<1>. SUFFICES ASSUME IInv, [Next]_vars PROVE IInv'
  OBVIOUS
<1>1. CASE Parsing
  BY <1>1, ParseSteps
<1>2. CASE Sema
  BY <1>2, SemaScopes, SemaFunctions, SemaDeclarations, SemaUses, PassesStart DEF Sema
<1>3. CASE Gen
  BY <1>3, GenWalks, GenStops DEF Gen
<1>4. CASE UNCHANGED vars
  <2>1. /\ UNCHANGED <<prog, blocks, scopes, at, success, res, pc>>
    BY <1>4 DEF vars
  <2>2. Types /\ Stacked /\ Passed
    BY DEF IInv
  <2>3. Tree' /\ Nested' /\ Declared' /\ ResolvedOnes' /\ \A p \in 0..Len(prog) : After(p)' = After(p)
    BY <2>1, Untouched
  <2>4. PICK N \in Nat : N = Len(prog) /\ at \in 0..N
    BY <2>2, LenProperties DEF Types
  <2>5. Types'
    BY <2>1, <2>2 DEF Types
  <2>6. Stacked'
    <3>1. After(Reached)' = After(Reached)
      BY <2>1, <2>3, <2>4 DEF Reached
    <3>. QED BY <2>1, <2>2, <3>1 DEF Stacked
  <2>7. None' = None /\ Checked' = Checked
    BY <2>1 DEF None, Symbol, Checked
  <2>8. Passed'
    BY <2>1, <2>2, <2>7 DEF Passed
  <2>9. After(Len(prog))' = After(Len(prog)) /\ Here' = Here
    BY <2>1, <2>3, <2>4 DEF Here
  <2>. QED BY <2>1, <2>3, <2>5, <2>6, <2>7, <2>8, <2>9 DEF IInv
<1>. QED BY <1>1, <1>2, <1>3, <1>4 DEF Next

\* In every reachable state the blocks form a tree, the stack holds the blocks
\* and functions around the statement the pass is at, symbols are declared in
\* or around the block that holds them, and what sema resolved can be found
\* again (parser.c:320-374, sema.c:548-603, x86_asm.c:535-536).
THEOREM Invariance == Spec => []IInv
<1>. QED BY InitIInv, NextIInv, PTL DEF Spec

LEMMA TypesOfIInv == IInv => TypeOK
<1>. SUFFICES ASSUME IInv PROVE TypeOK
  OBVIOUS
<1>1. Types /\ Tree /\ Nested /\ Stacked /\ Declared /\ ResolvedOnes
  BY DEF IInv
<1>2. PICK N \in Nat : N = Len(prog) /\ at \in 0..N
  BY <1>1, LenProperties DEF Types
<1>3. None \in Symbols
  BY <1>2 DEF None, Symbol, Symbols
<1>4. ASSUME NEW p \in 1..N
      PROVE  /\ prog[p].op \in {"scope", "func", "proto", "end", "decl", "use", "call"}
             /\ prog[p].block \in 1..Len(blocks)
  <2>1. prog[p] \in Statements
    BY <1>1, <1>2, ElementOfSeq DEF Types
  <2>. QED BY <1>1, <1>2, <2>1 DEF Statements, Nested
<1>5. ASSUME NEW b \in 1..Len(blocks) PROVE blocks[b].locals \in [Names -> Symbols]
  <2>1. blocks[b] \in Blocks
    BY <1>1, ElementOfSeq DEF Types
  <2>2. ASSUME NEW n \in Names PROVE blocks[b].locals[n] \in Symbols
    <3>1. PICK y : y = blocks[b].locals[n]
      OBVIOUS
    <3>2. y \in Records
      BY <2>1, <3>1 DEF Blocks, Records
    <3>3. y # None => y.decl \in 1..N
      BY <1>1, <1>2, <3>1 DEF Declared
    <3>. QED BY <1>2, <1>3, <3>1, <3>2, <3>3 DEF Records, Symbols
  <2>. QED BY <2>1, <2>2 DEF Blocks
<1>6. PICK b \in Nat : /\ b = After(Reached) /\ b \in 1..Len(blocks)
                       /\ Stack(blocks, pc = "parse", scopes, b)
  <2>1. PICK b : b = After(Reached)
    OBVIOUS
  <2>. QED BY <1>1, <2>1, Place
<1>7. PICK par : Stack(blocks, par, scopes, b)
  BY <1>6
<1>8. scopes # <<>>
  BY <1>7 DEF Stack
<1>9. ASSUME NEW j \in 1..Len(scopes)
      PROVE  /\ scopes[j].kind \in {"scope", "func"}
             /\ scopes[j].id \in 1..(IF scopes[j].kind = "scope" THEN Len(blocks) ELSE N)
  <2>1. scopes[j].kind \in {"scope", "func"}
    <3>1. scopes[j] \in Items
      BY <1>7, ElementOfSeq DEF Stack
    <3>. QED BY <3>1 DEF Items
  <2>2. scopes[j].kind = "scope" => scopes[j].id \in 1..Len(blocks)
    BY <1>1, <1>7, StackBasics DEF Tree
  <2>3. scopes[j].kind = "func" => scopes[j].id \in 1..N
    <3>1. SUFFICES ASSUME scopes[j].kind = "func" PROVE scopes[j].id \in 1..N
      OBVIOUS
    <3>2. PICK c \in 2..Len(blocks) : scopes[j].id # 0 /\ blocks[c].func = scopes[j].id
      BY <1>7, <3>1 DEF Stack
    <3>3. c \in 1..Len(blocks)
      BY <1>1 DEF Tree, IsTree
    <3>. QED BY <1>1, <1>2, <3>2, <3>3 DEF Tree
  <2>. QED BY <2>1, <2>2, <2>3
<1>10. ASSUME NEW p \in DOMAIN res PROVE p \in 1..N /\ res[p] \in Symbols
  <2>1. p \in 1..N
    BY <1>1, <1>2 DEF ResolvedOnes
  <2>2. res[p] = None \/ res[p] \in [decl : 1..N, kind : {"var", "func", "param"}]
    BY <1>1, <1>2 DEF ResolvedOnes
  <2>. QED BY <1>2, <1>3, <2>1, <2>2 DEF Symbols
<1>. QED BY <1>1, <1>2, <1>4, <1>5, <1>8, <1>9, <1>10 DEF TypeOK, Types

\* What the generator finds is in a block or a function around the use, and a
\* name that it does not find is one in an initializer that sema has reported
\* (sema.c:569-603, x86_asm.c:77-117).
THEOREM NamesInSight == Spec => []SymbolsVisible
<1>1. IInv => SymbolsVisible
  <2>. SUFFICES ASSUME IInv PROVE SymbolsVisible
    OBVIOUS
  <2>1. Types /\ Tree /\ Nested /\ Stacked /\ Declared /\ ResolvedOnes
    BY DEF IInv
  <2>2. TypeOK
    BY TypesOfIInv
  <2>3. ASSUME GenUses, Found # None PROVE Home(Found) \in Ancestors(Here.block)
    <3>1. pc = "gen" /\ at < Len(prog) /\ at + 1 \in DOMAIN res
      BY <2>3 DEF GenUses
    <3>2. PICK b : b = After(at) /\ b = After(Reached) /\ Here.block = b
      BY <2>1, <3>1, AtStatement DEF Reached
    <3>3. PICK n \in Names : n = NameUsed(at + 1) /\ Here.op \in {"decl", "use", "call"}
      BY <2>1, <3>1 DEF ResolvedOnes, Here
    <3>4. n = IF Here.op = "decl" THEN Here.init ELSE Here.name
      BY <3>3 DEF NameUsed, Here
    <3>5. Found = SymbolGen(n) \/ Found = LocalExist(n)
      BY <3>3, <3>4 DEF Found
    <3>6. Good(Found, n, b)
      BY <2>1, <2>3, <3>2, <3>5, SymbolGenGood, LocalExistGood
    <3>. QED BY <3>2, <3>6 DEF Good
  <2>4. pc = "lost" => Here.op = "decl" /\ res[at + 1] = None
    BY DEF IInv
  <2>. QED BY <2>2, <2>3, <2>4 DEF SymbolsVisible
<1>. QED BY <1>1, Invariance, PTL

-----------------------------------------------------------------------------
(* The innermost block *)

LEMMA GreatestIs ==
  ASSUME NEW N \in Nat, NEW S \in SUBSET (1..N), NEW a \in S, \A d \in S : d <= a
  PROVE  Max(S) = a
<1>1. Max(S) \in S /\ \A d \in S : d <= Max(S)
  BY Greatest
<1>2. PICK m : m = Max(S)
  OBVIOUS
<1>3. m \in 1..N /\ a \in 1..N
  BY <1>1, <1>2
<1>4. m <= a /\ a <= m
  BY <1>1, <1>2
<1>. QED BY <1>2, <1>3, <1>4

\* Blocks around a block were opened before it.
LEMMA AncestorsBefore ==
  ASSUME NEW B, IsTree(B), NEW b \in 1..Len(B)
  PROVE  \A a \in AncestorsIn(B, b) : a \in 1..b
<1>. DEFINE S == 1..b
<1>1. PICK N \in Nat : N = Len(B)
  BY DEF IsTree
<1>2. S \in SUBSET (1..N) /\ b \in S
  BY <1>1
<1>3. ASSUME NEW c \in S \ {1} PROVE B[c].parent \in S
  <2>1. c \in 2..N /\ \A d \in 1..(c - 1) : d \in S
    BY <1>1
  <2>. QED BY <1>1, <2>1 DEF IsTree
<1>. QED BY <1>1, <1>2, <1>3 DEF AncestorsIn

LEMMA InnermostIs ==
  ASSUME Tree, NEW b \in 1..Len(blocks), NEW by, NEW n, NEW a \in Ancestors(b),
         InBlock(by, a, n) # None,
         \A d \in Ancestors(b) : InBlock(by, d, n) # None => d <= a
  PROVE  Innermost(by, b, n) = InBlock(by, a, n)
<1>. DEFINE hits == {d \in Ancestors(b) : InBlock(by, d, n) # None}
<1>1. PICK N \in Nat : N = Len(blocks)
  BY DEF Tree, IsTree
<1>2. hits \in SUBSET (1..N) /\ a \in hits /\ \A d \in hits : d <= a
  BY <1>1, AncestorsClosed DEF Tree, Ancestors
<1>3. Innermost(by, b, n) = IF hits = {} THEN None ELSE InBlock(by, Max(hits), n)
  BY DEF Innermost
<1>. HIDE DEF hits
<1>4. Max(hits) = a
  BY <1>2, GreatestIs
<1>. QED BY <1>2, <1>3, <1>4

LEMMA InnermostNone ==
  ASSUME NEW b, NEW by, NEW n, \A d \in Ancestors(b) : InBlock(by, d, n) = None
  PROVE  Innermost(by, b, n) = None
BY DEF Innermost

LEMMA InnermostExists ==
  ASSUME Tree, NEW b \in 1..Len(blocks), NEW by, NEW n
  PROVE  \/ \A d \in Ancestors(b) : InBlock(by, d, n) = None
         \/ \E a \in Ancestors(b) : /\ InBlock(by, a, n) # None
                                    /\ \A d \in Ancestors(b) : InBlock(by, d, n) # None => d <= a
<1>. DEFINE hits == {d \in Ancestors(b) : InBlock(by, d, n) # None}
<1>1. PICK N \in Nat : N = Len(blocks)
  BY DEF Tree, IsTree
<1>2. hits \in SUBSET (1..N)
  BY <1>1, AncestorsClosed DEF Tree, Ancestors
<1>3. CASE hits = {}
  BY <1>3
<1>4. CASE hits # {}
  <2>1. Max(hits) \in hits /\ \A d \in hits : d <= Max(hits)
    <3>. HIDE DEF hits
    <3>. QED BY <1>2, <1>4, Greatest
  <2>. QED BY <2>1
<1>. QED BY <1>3, <1>4

\* symbol_gen finds what local_exist finds, if that is no function.
LEMMA GenFindsAlike ==
  ASSUME Tree, NEW b \in 1..Len(blocks), NEW n, Innermost("local_exist", b, n).kind # "func"
  PROVE  Innermost("symbol_gen", b, n) = Innermost("local_exist", b, n)
<1>1. \A f : Symbol(f, "func").kind = "func"
  BY DEF Symbol
<1>2. \A d : InBlock("local_exist", d, n) = None => InBlock("symbol_gen", d, n) = None
  <2>1. ASSUME NEW d, InBlock("local_exist", d, n) = None PROVE InBlock("symbol_gen", d, n) = None
    <3>1. \A f : Symbol(f, "func") # None
      BY DEF Symbol, None
    <3>. QED BY <2>1, <3>1 DEF InBlock
  <2>. QED BY <2>1
<1>3. \A d : InBlock("local_exist", d, n).kind # "func" =>
               InBlock("symbol_gen", d, n) = InBlock("local_exist", d, n)
  BY <1>1 DEF InBlock
<1>4. CASE \A d \in Ancestors(b) : InBlock("local_exist", d, n) = None
  BY <1>2, <1>4, InnermostNone
<1>5. ASSUME NEW a \in Ancestors(b), InBlock("local_exist", a, n) # None,
             \A d \in Ancestors(b) : InBlock("local_exist", d, n) # None => d <= a
      PROVE  Innermost("symbol_gen", b, n) = Innermost("local_exist", b, n)
  <2>1. Innermost("local_exist", b, n) = InBlock("local_exist", a, n)
    BY <1>5, InnermostIs
  <2>2. InBlock("symbol_gen", a, n) = InBlock("local_exist", a, n)
    BY <1>3, <2>1
  <2>3. \A d \in Ancestors(b) : InBlock("symbol_gen", d, n) # None => d <= a
    BY <1>2, <1>5
  <2>4. Innermost("symbol_gen", b, n) = InBlock("symbol_gen", a, n)
    BY <1>5, <2>2, <2>3, InnermostIs
  <2>. QED BY <2>1, <2>2, <2>4
<1>. QED BY <1>4, <1>5, InnermostExists

-----------------------------------------------------------------------------
(* The lookups through the stack *)

\* An item higher up is of an inner block.
LEMMA StackRises ==
  ASSUME NEW B, IsTree(B), NEW par, NEW s, NEW b \in Nat, Stack(B, par, s, b),
         NEW i \in 1..Len(s), NEW j \in 1..Len(s), i < j,
         s[i].kind = "scope", s[j].kind = "scope"
  PROVE  s[i].id < s[j].id
<1>1. PICK N \in Nat : N = Len(s)
  BY StackBasics
<1>2. j \in 2..N /\ Linked(B, par, s, j)
  BY <1>1 DEF Stack
<1>3. PICK c : c = s[j].id /\ c \in 2..Len(B)
  BY <1>2 DEF Linked
<1>4. PICK q : q = B[c].parent /\ q \in 1..(c - 1)
  BY <1>3 DEF IsTree
<1>5. q \in Nat /\ q \in 1..Len(B) /\ c \in Nat
  BY <1>3, <1>4 DEF IsTree
<1>6. PICK k \in 1..N : s[k] = BlockItem(q) /\ i <= k
  <2>1. CASE s[j - 1] = BlockItem(q)
    BY <1>1, <1>2, <2>1
  <2>2. CASE j > 2 /\ s[j - 1] = FunctionItem(B[c].func) /\ s[j - 2] = BlockItem(q)
    <3>1. s[j - 1].kind # "scope"
      BY <2>2 DEF FunctionItem
    <3>2. i # j - 1
      BY <3>1
    <3>. QED BY <1>1, <1>2, <2>2, <3>2
  <2>. QED BY <1>2, <1>3, <1>4, <2>1, <2>2 DEF Linked
<1>7. s[k].kind = "scope" /\ s[k].id = q
  BY <1>5, <1>6, ItemKinds
<1>8. AncestorsIn(B, q) = Below(s, k)
  BY <1>1, <1>6, <1>7 DEF Stack, Below
<1>9. s[i].id \in AncestorsIn(B, q)
  <2>1. i \in 1..k
    BY <1>1, <1>6
  <2>. QED BY <1>8, <2>1 DEF Below
<1>10. s[i].id \in 1..q
  BY <1>5, <1>9, AncestorsBefore
<1>11. PICK x : x = s[i].id /\ x \in 1..q
  BY <1>10
<1>12. x < c
  BY <1>4, <1>5, <1>11
<1>. QED BY <1>3, <1>11, <1>12

\* What either lookup finds in an item
InItem(by, item, n) == IF by = "local_exist" THEN Candidate(item, n) ELSE GenCandidate(item, n)

\* A block that has the name has it in its own item or in its function's.
LEMMA HitItem ==
  ASSUME Types, Tree, Nested, Stacked, pc # "parse", NEW b, b = After(Reached),
         NEW by \in Lookups, NEW n, NEW d \in Ancestors(b), InBlock(by, d, n) # None
  PROVE  \E i \in 1..Len(scopes) :
           /\ scopes[i].kind = "scope" /\ scopes[i].id = d
           /\ \/ InItem(by, scopes[i], n) # None
              \/ i - 1 \in 1..Len(scopes) /\ scopes[i - 1].kind = "func" /\ InItem(by, scopes[i - 1], n) # None
<1>1. PICK N \in Nat : N = Len(scopes)
  BY Place
<1>2. PICK i \in 1..N : scopes[i].kind = "scope" /\ scopes[i].id = d
  BY <1>1, Place DEF Below
<1>3. CASE blocks[d].locals[n] # None
  BY <1>1, <1>2, <1>3 DEF InItem, Candidate, GenCandidate
<1>4. CASE blocks[d].locals[n] = None
  <2>1. PICK f : f = blocks[d].func /\ f # 0
    BY <1>4 DEF InBlock
  <2>2. d # 1 /\ i # 1
    <3>1. scopes[1].id = 1
      BY Place DEF Stack, BlockItem
    <3>. QED BY <2>1, <1>2, <3>1 DEF Tree, IsTree
  <2>3. i \in 2..N
    BY <2>2
  <2>4. Linked(blocks, pc = "parse", scopes, i)
    BY <1>1, <1>2, <2>3, Place DEF Stack
  <2>5. i - 1 \in 1..N /\ scopes[i - 1] = FunctionItem(f)
    BY <1>2, <2>1, <2>3, <2>4 DEF Linked
  <2>6. scopes[i - 1].kind = "func" /\ scopes[i - 1].id = f
    BY <2>5 DEF FunctionItem
  <2>7. InItem(by, scopes[i - 1], n) # None
    <3>1. Symbol(f, "func") # None /\ Symbol(f, "param") # None
      BY DEF Symbol, None
    <3>. QED BY <1>4, <2>1, <2>6, <3>1 DEF InBlock, InItem, Candidate, GenCandidate, Lookups
  <2>. QED BY <1>1, <1>2, <2>5, <2>6, <2>7
<1>. QED BY <1>3, <1>4

\* The item that the lookup stops at is the innermost block's that has the
\* name, or that block's function's.
LEMMA StopsInnermost ==
  ASSUME Types, Tree, Nested, Stacked, pc # "parse", NEW b, b = After(Reached),
         NEW by \in Lookups, NEW n, NEW J \in 1..Len(scopes), InItem(by, scopes[J], n) # None,
         \A j \in 1..Len(scopes) : InItem(by, scopes[j], n) # None => j <= J
  PROVE  InItem(by, scopes[J], n) = Innermost(by, b, n)
<1>1. PICK N \in Nat : N = Len(scopes)
  BY Place
<1>2. PICK par : par = (pc = "parse")
  OBVIOUS
<1>3. /\ Stack(blocks, par, scopes, b) /\ b \in Nat /\ b \in 1..Len(blocks) /\ IsTree(blocks)
      /\ Ancestors(b) = Below(scopes, N)
  BY <1>1, <1>2, Place DEF Tree
<1>4. \A i, j \in 1..N : i < j /\ scopes[i].kind = "scope" /\ scopes[j].kind = "scope"
                           => scopes[i].id < scopes[j].id
  BY <1>1, <1>3, StackRises
<1>5. PICK K \in 1..N : /\ scopes[K].kind = "scope" /\ (K = J \/ (K = J + 1 /\ scopes[J].kind = "func"))
                        /\ InBlock(by, scopes[K].id, n) = InItem(by, scopes[J], n)
  <2>1. CASE scopes[J].kind = "scope"
    <3>1. InItem(by, scopes[J], n) = blocks[scopes[J].id].locals[n]
      BY <2>1 DEF InItem, Candidate, GenCandidate
    <3>2. InBlock(by, scopes[J].id, n) = InItem(by, scopes[J], n)
      BY <3>1 DEF InBlock
    <3>. QED BY <1>1, <2>1, <3>2
  <2>2. CASE scopes[J].kind = "func"
    <3>1. PICK c \in 2..Len(blocks) : /\ J < N /\ scopes[J + 1] = BlockItem(c)
                                      /\ scopes[J].id # 0 /\ blocks[c].func = scopes[J].id
      BY <1>1, <1>3, <2>2 DEF Stack
    <3>2. J + 1 \in 1..N
      BY <1>1, <3>1
    <3>3. scopes[J + 1].kind = "scope" /\ scopes[J + 1].id = c
      BY <3>1 DEF BlockItem
    <3>4. blocks[c].locals[n] = None
      <4>1. InItem(by, scopes[J + 1], n) = None
        BY <1>1, <3>2
      <4>. QED BY <3>3, <4>1 DEF InItem, Candidate, GenCandidate
    <3>5. InBlock(by, c, n) = InItem(by, scopes[J], n)
      BY <2>2, <3>1, <3>4 DEF InBlock, InItem, Candidate, GenCandidate, Lookups
    <3>. QED BY <2>2, <3>2, <3>3, <3>5
  <2>3. scopes[J] \in Items
    BY <1>3, ElementOfSeq DEF Stack
  <2>. QED BY <2>1, <2>2, <2>3 DEF Items
<1>6. PICK a : a = scopes[K].id
  OBVIOUS
<1>7. a \in Ancestors(b)
  BY <1>3, <1>5, <1>6 DEF Below
<1>8. ASSUME NEW d \in Ancestors(b), InBlock(by, d, n) # None PROVE d <= a
  <2>1. PICK i \in 1..N :
           /\ scopes[i].kind = "scope" /\ scopes[i].id = d
           /\ \/ InItem(by, scopes[i], n) # None
              \/ i - 1 \in 1..N /\ scopes[i - 1].kind = "func" /\ InItem(by, scopes[i - 1], n) # None
    BY <1>1, <1>8, HitItem
  <2>2. i <= K
    <3>1. i <= J \/ (i - 1 <= J /\ scopes[i - 1].kind = "func")
      BY <1>1, <2>1
    <3>2. CASE i <= J
      BY <1>1, <1>5, <3>2
    <3>3. CASE i = J + 1 /\ scopes[i - 1].kind = "func"
      <4>1. i - 1 = J
        BY <3>3
      <4>2. K # J
        BY <1>5, <3>3, <4>1
      <4>. QED BY <1>5, <3>3, <4>2
    <3>. QED BY <3>1, <3>2, <3>3
  <2>3. d \in Nat /\ a \in Nat
    <3>1. \A x \in Ancestors(b) : x \in 1..b
      BY <1>3, AncestorsBefore DEF Ancestors
    <3>. QED BY <1>3, <1>7, <3>1
  <2>4. i = K \/ i < K
    BY <2>2
  <2>. QED BY <1>4, <1>5, <1>6, <2>1, <2>3, <2>4
<1>. QED BY <1>3, <1>5, <1>6, <1>7, <1>8, InnermostIs

LEMMA LocalExistIs ==
  ASSUME Types, Tree, Nested, Stacked, pc # "parse", NEW b, b = After(Reached), NEW n
  PROVE  LocalExist(n) = Innermost("local_exist", b, n)
<1>. DEFINE hits == {j \in 2..Len(scopes) : Candidate(scopes[j], n) # None}
<1>1. PICK N \in Nat : N = Len(scopes) /\ N >= 1 /\ scopes[1] = BlockItem(1)
  BY Place DEF Stack
<1>2. LocalExist(n) = IF hits = {} THEN Candidate(scopes[1], n) ELSE Candidate(scopes[Max(hits)], n)
  <2>1. blocks[1].locals[n] = Candidate(scopes[1], n)
    BY <1>1 DEF Candidate, BlockItem
  <2>. QED BY <2>1 DEF LocalExist
<1>3. hits \in SUBSET (1..N) /\ \A j \in 1..N : Candidate(scopes[j], n) # None => j = 1 \/ j \in hits
  BY <1>1
<1>4. \A j \in hits : Candidate(scopes[j], n) # None /\ j >= 2
  BY <1>1
<1>. HIDE DEF hits
<1>5. \A item : InItem("local_exist", item, n) = Candidate(item, n)
  BY DEF InItem
<1>6. ASSUME NEW J \in 1..N, Candidate(scopes[J], n) # None,
             \A j \in 1..N : Candidate(scopes[j], n) # None => j <= J
      PROVE  Candidate(scopes[J], n) = Innermost("local_exist", b, n)
  <2>1. "local_exist" \in Lookups
    BY DEF Lookups
  <2>. QED BY <1>1, <1>5, <1>6, <2>1, StopsInnermost
<1>7. CASE hits # {}
  <2>1. PICK J : J = Max(hits)
    OBVIOUS
  <2>2. J \in hits /\ \A j \in hits : j <= J
    BY <1>3, <1>7, <2>1, Greatest
  <2>3. J \in 1..N /\ J >= 2
    BY <1>3, <1>4, <2>2
  <2>4. \A j \in 1..N : Candidate(scopes[j], n) # None => j <= J
    BY <1>3, <2>2, <2>3
  <2>. QED BY <1>2, <1>4, <1>6, <1>7, <2>1, <2>2, <2>3, <2>4
<1>8. CASE hits = {} /\ Candidate(scopes[1], n) # None
  <2>1. 1 \in 1..N /\ \A j \in 1..N : Candidate(scopes[j], n) # None => j <= 1
    BY <1>1, <1>3, <1>8
  <2>. QED BY <1>2, <1>6, <1>8, <2>1
<1>9. CASE hits = {} /\ Candidate(scopes[1], n) = None
  <2>1. \A j \in 1..N : Candidate(scopes[j], n) = None
    BY <1>3, <1>9
  <2>2. \A d \in Ancestors(b) : InBlock("local_exist", d, n) = None
    <3>1. "local_exist" \in Lookups
      BY DEF Lookups
    <3>. QED BY <1>1, <1>5, <2>1, <3>1, HitItem
  <2>. QED BY <1>2, <1>9, <2>2, InnermostNone
<1>. QED BY <1>7, <1>8, <1>9

LEMMA SymbolGenIs ==
  ASSUME Types, Tree, Nested, Stacked, pc # "parse", NEW b, b = After(Reached), NEW n
  PROVE  SymbolGen(n) = Innermost("symbol_gen", b, n)
<1>1. PICK N \in Nat : N = Len(scopes)
  BY Place
<1>2. Hits(n) = {j \in 1..N : GenCandidate(scopes[j], n) # None}
  BY <1>1 DEF Hits
<1>3. \A item : InItem("symbol_gen", item, n) = GenCandidate(item, n)
  BY DEF InItem
<1>4. "symbol_gen" \in Lookups
  BY DEF Lookups
<1>5. PICK hits : hits = Hits(n)
  OBVIOUS
<1>6. CASE hits # {}
  <2>1. PICK J : J = Max(hits)
    OBVIOUS
  <2>2. J \in hits /\ \A j \in hits : j <= J
    BY <1>2, <1>5, <1>6, <2>1, Greatest
  <2>3. J \in 1..N /\ GenCandidate(scopes[J], n) # None
    BY <1>2, <1>5, <2>2
  <2>4. \A j \in 1..N : GenCandidate(scopes[j], n) # None => j <= J
    BY <1>2, <1>5, <2>2
  <2>5. GenCandidate(scopes[J], n) = Innermost("symbol_gen", b, n)
    BY <1>1, <1>3, <1>4, <2>3, <2>4, StopsInnermost
  <2>. QED BY <1>5, <1>6, <2>1, <2>5 DEF SymbolGen
<1>7. CASE hits = {}
  <2>1. \A j \in 1..N : GenCandidate(scopes[j], n) = None
    BY <1>2, <1>5, <1>7
  <2>2. \A d \in Ancestors(b) : InBlock("symbol_gen", d, n) = None
    BY <1>1, <1>3, <1>4, <2>1, HitItem
  <2>. QED BY <1>5, <1>7, <2>2, InnermostNone DEF SymbolGen
<1>. QED BY <1>6, <1>7

-----------------------------------------------------------------------------
(* What an entry changes *)

\* A step of sema or of the generator enters the statement's own symbol at most.
EntersHere ==
    \/ blocks' = blocks
    \/ \E c \in 1..Len(blocks), m \in Names, k \in {"var", "func"} :
         blocks' = AddSymbol(blocks, c, m, Symbol(at + 1, k))

\* After an entry either lookup finds what it found before, or the entry.
LEMMA EntryFound ==
  ASSUME Types, Tree, prog' = prog, at \in Nat, EntersHere,
         NEW b \in 1..Len(blocks), NEW by, NEW n \in Names
  PROVE  \/ Innermost(by, b, n)' = Innermost(by, b, n)
         \/ \E k \in {"var", "func"} : Innermost(by, b, n)' = Symbol(at + 1, k)
<1>1. blocks \in Seq(Blocks) /\ IsTree(blocks)
  BY DEF Types, Tree
<1>2. CASE blocks' = blocks
  <2>1. None' = None
    BY DEF None, Symbol
  <2>. QED BY <1>2, <2>1 DEF Innermost, InBlock, Ancestors, None, Symbol
<1>3. ASSUME NEW c \in 1..Len(blocks), NEW m \in Names, NEW k \in {"var", "func"},
             blocks' = AddSymbol(blocks, c, m, Symbol(at + 1, k))
      PROVE  \/ Innermost(by, b, n)' = Innermost(by, b, n)
             \/ Innermost(by, b, n)' = Symbol(at + 1, k)
  <2>1. PICK y : y = Symbol(at + 1, k)
    OBVIOUS
  <2>2. y \in Records /\ y # None
    BY <2>1, SymbolKinds
  <2>3. /\ Len(blocks') = Len(blocks) /\ Extends(blocks', blocks)
        /\ \A a \in 1..Len(blocks) :
             blocks'[a].locals[n] = IF a = c /\ m = n THEN y ELSE blocks[a].locals[n]
    BY <1>1, <1>3, <2>1, <2>2, SymbolAdded
  <2>4. PICK N \in Nat : N = Len(blocks)
    BY <1>1 DEF IsTree
  <2>5. PICK A : A = Ancestors(b) /\ A \in SUBSET (1..N)
    BY <1>1, <2>4, AncestorsClosed DEF Ancestors
  <2>6. Ancestors(b)' = A
    BY <2>3, <2>5, AncestorsStay
  <2>7. \A a \in 1..N : InBlock(by, a, n)' = IF a = c /\ m = n THEN y ELSE InBlock(by, a, n)
    <3>1. \A a \in 1..N : blocks'[a].func = blocks[a].func
      BY <2>3, <2>4 DEF Extends
    <3>2. None' = None
      BY DEF None, Symbol
    <3>3. \A f : Symbol(f, "func")' = Symbol(f, "func") /\ Symbol(f, "param")' = Symbol(f, "param")
      BY DEF Symbol
    <3>. QED BY <2>2, <2>3, <2>4, <3>1, <3>2, <3>3 DEF InBlock
  <2>8. PICK In : In = [a \in 1..N |-> InBlock(by, a, n)]
    OBVIOUS
  <2>9. PICK hits : hits = {a \in A : In[a] # None}
    OBVIOUS
  <2>10. PICK new : new = {a \in A : (IF a = c /\ m = n THEN y ELSE In[a]) # None}
    OBVIOUS
  <2>11. Innermost(by, b, n) = IF hits = {} THEN None ELSE In[Max(hits)]
    <3>1. hits = {a \in Ancestors(b) : InBlock(by, a, n) # None}
      BY <2>5, <2>8, <2>9
    <3>2. hits # {} => Max(hits) \in 1..N
      BY <2>5, <2>9, Greatest
    <3>. QED BY <2>8, <3>1, <3>2 DEF Innermost
  <2>12. Innermost(by, b, n)' = IF new = {} THEN None
                                ELSE IF Max(new) = c /\ m = n THEN y ELSE In[Max(new)]
    <3>1. new = {a \in Ancestors(b)' : InBlock(by, a, n)' # None'}
      <4>1. None' = None
        BY DEF None, Symbol
      <4>2. \A a \in A : InBlock(by, a, n)' = IF a = c /\ m = n THEN y ELSE In[a]
        BY <2>5, <2>7, <2>8
      <4>. QED BY <2>6, <2>10, <4>1, <4>2
    <3>2. PICK J : J = Max(new)
      OBVIOUS
    <3>3. new # {} => J \in 1..N
      BY <2>5, <2>10, <3>2, Greatest
    <3>4. Innermost(by, b, n)' = IF new = {} THEN None' ELSE InBlock(by, J, n)'
      BY <3>1, <3>2 DEF Innermost
    <3>. QED BY <2>7, <2>8, <3>2, <3>3, <3>4 DEF None, Symbol
  <2>13. CASE c \notin A \/ m # n
    <3>1. new = hits
      BY <2>9, <2>10, <2>13
    <3>2. hits # {} => Max(hits) \in A
      BY <2>5, <2>9, Greatest
    <3>. QED BY <2>11, <2>12, <2>13, <3>1, <3>2
  <2>14. CASE c \in A /\ m = n
    <3>1. new = hits \union {c}
      BY <2>2, <2>9, <2>10, <2>14
    <3>2. new \in SUBSET (1..N) /\ hits \in SUBSET (1..N) /\ new # {}
      BY <2>5, <2>9, <2>14, <3>1
    <3>3. PICK J : J = Max(new)
      OBVIOUS
    <3>4. J \in new /\ \A a \in new : a <= J
      BY <3>2, <3>3, Greatest
    <3>5. CASE J = c
      BY <2>1, <2>12, <2>14, <3>2, <3>3, <3>5
    <3>6. CASE J # c
      <4>1. J \in hits /\ \A a \in hits : a <= J
        BY <3>1, <3>4, <3>6
      <4>2. Max(hits) = J
        BY <2>4, <3>2, <4>1, GreatestIs
      <4>. QED BY <2>11, <2>12, <3>2, <3>3, <3>6, <4>1, <4>2
    <3>. QED BY <3>5, <3>6
  <2>. QED BY <2>13, <2>14
<1>. QED BY <1>2, <1>3 DEF EntersHere

-----------------------------------------------------------------------------
(* Every step *)

\* Alike, of one statement
Kept(p) == \A by \in Lookups :
             by = "local_exist" \/ res[p].kind # "func" =>
               Same(Innermost(by, prog[p].block, NameUsed(p)), p)

LEMMA AlikeIs == Alike <=> /\ pc \in {"parse", "sema"} => DOMAIN res \subseteq 1..at
                           /\ \A p \in DOMAIN res : Kept(p)
BY DEF Alike, Kept

\* What has been resolved before the statement
LEMMA OldKept ==
  ASSUME IInv, NEW p \in DOMAIN res, Kept(p), prog' = prog, res'[p] = res[p],
         blocks' = blocks \/ (EntersHere /\ p <= at)
  PROVE  Kept(p)'
<1>1. Types /\ Tree /\ Nested /\ ResolvedOnes
  BY DEF IInv
<1>2. PICK N \in Nat : N = Len(prog) /\ at \in 0..N /\ at \in Nat
  BY <1>1, LenProperties DEF Types
<1>3. p \in 1..N
  BY <1>1, <1>2 DEF ResolvedOnes
<1>4. PICK b \in 1..Len(blocks) : b = prog[p].block
  BY <1>1, <1>2, <1>3 DEF Nested
<1>5. PICK n \in Names : n = NameUsed(p)
  BY <1>1 DEF ResolvedOnes
<1>6. prog'[p].block = b /\ NameUsed(p)' = n
  BY <1>4, <1>5 DEF NameUsed
<1>7. ASSUME NEW by \in Lookups, by = "local_exist" \/ res[p].kind # "func"
      PROVE  Same(Innermost(by, b, n), p)'
  <2>1. PICK y : y = Innermost(by, b, n)
    OBVIOUS
  <2>2. y = res[p] \/ (y.kind \in {"var", "func"} /\ y.decl >= p)
    BY <1>4, <1>5, <1>7, <2>1 DEF Kept, Same
  <2>3. CASE Innermost(by, b, n)' = y
    BY <2>2, <2>3 DEF Same
  <2>4. ASSUME p <= at, NEW k \in {"var", "func"}, Innermost(by, b, n)' = Symbol(at + 1, k)
        PROVE  Same(Innermost(by, b, n), p)'
    <3>1. PICK z : z = Symbol(at + 1, k) /\ z.decl = at + 1 /\ z.kind = k
      BY <1>2, SymbolKinds
    <3>2. at + 1 >= p
      BY <1>2, <1>3, <2>4
    <3>. QED BY <2>4, <3>1, <3>2 DEF Same
  <2>5. CASE blocks' = blocks
    <3>1. None' = None
      BY DEF None, Symbol
    <3>2. Innermost(by, b, n)' = Innermost(by, b, n)
      BY <2>5, <3>1 DEF Innermost, InBlock, Ancestors, None, Symbol
    <3>. QED BY <2>1, <2>3, <3>2
  <2>6. CASE EntersHere /\ p <= at
    BY <1>1, <1>2, <2>1, <2>3, <2>4, <2>6, EntryFound
  <2>. QED BY <2>5, <2>6
<1>. QED BY <1>6, <1>7 DEF Kept

\* What the statement resolves
LEMMA NewKept ==
  ASSUME IInv, pc # "parse", at < Len(prog), prog' = prog, EntersHere,
         NEW p, p = at + 1, NEW n \in Names, n = NameUsed(p), res'[p] = LocalExist(n)
  PROVE  Kept(p)'
<1>1. Types /\ Tree /\ Nested /\ Stacked
  BY DEF IInv
<1>2. at \in Nat /\ p \in Nat /\ p \in 1..Len(prog)
  BY <1>1, AtStatement DEF Types
<1>3. PICK b : b = After(at) /\ b = After(Reached) /\ prog[p].block = b /\ b \in 1..Len(blocks)
  BY <1>1, AtStatement DEF Here, Reached
<1>4. PICK y : y = LocalExist(n) /\ y = Innermost("local_exist", b, n)
  BY <1>1, <1>3, LocalExistIs
<1>5. prog'[p].block = b /\ NameUsed(p)' = n
  BY <1>3 DEF NameUsed
<1>6. ASSUME NEW by \in Lookups, by = "local_exist" \/ y.kind # "func"
      PROVE  Same(Innermost(by, b, n), p)'
  <2>1. Innermost(by, b, n) = y
    BY <1>1, <1>3, <1>4, <1>6, GenFindsAlike DEF Lookups
  <2>2. ASSUME NEW k \in {"var", "func"}, Innermost(by, b, n)' = Symbol(at + 1, k)
        PROVE  Same(Innermost(by, b, n), p)'
    <3>1. PICK z : z = Symbol(at + 1, k) /\ z.decl = p /\ z.kind = k
      BY <1>2, SymbolKinds
    <3>. QED BY <1>2, <2>2, <3>1 DEF Same
  <2>3. CASE Innermost(by, b, n)' = y
    BY <1>4, <2>3 DEF Same
  <2>. QED BY <1>1, <1>2, <1>3, <2>1, <2>2, <2>3, EntryFound
<1>. QED BY <1>4, <1>5, <1>6 DEF Kept

LEMMA AlikeStep ==
  ASSUME IInv, Alike, pc = "sema", at < Len(prog), at' = at + 1, prog' = prog, EntersHere,
         NEW n, n = NameUsed(at + 1),
         \/ res' = res
         \/ n \in Names /\ res' = Resolution(at + 1, n)
  PROVE  Alike'
<1>1. PICK p : p = at + 1 /\ at \in Nat /\ p \in Nat
  BY DEF IInv, Types
<1>2. DOMAIN res \subseteq 1..at /\ \A q \in DOMAIN res : Kept(q)
  BY AlikeIs
<1>3. \A q \in DOMAIN res : q <= at /\ q # p
  BY <1>1, <1>2
<1>4. CASE res' = res
  <2>1. DOMAIN res \subseteq 1..p
    BY <1>1, <1>2
  <2>2. \A q \in DOMAIN res : Kept(q)'
    BY <1>2, <1>3, <1>4, OldKept
  <2>. QED BY <1>1, <1>4, <2>1, <2>2 DEF Alike, Kept
<1>5. CASE n \in Names /\ res' = Resolution(at + 1, n)
  <2>1. /\ DOMAIN res' = DOMAIN res \union {p} /\ res'[p] = LocalExist(n)
        /\ \A q \in DOMAIN res : res'[q] = res[q]
    BY <1>1, <1>3, <1>5 DEF Resolution
  <2>2. DOMAIN res' \subseteq 1..p
    BY <1>1, <1>2, <2>1
  <2>3. \A q \in DOMAIN res : Kept(q)'
    BY <1>2, <1>3, <2>1, OldKept
  <2>4. Kept(p)'
    BY <1>1, <1>5, <2>1, NewKept
  <2>. QED BY <1>1, <2>1, <2>2, <2>3, <2>4 DEF Alike, Kept
<1>. QED BY <1>4, <1>5

LEMMA AlikeSema == IInv /\ Alike /\ Sema => Alike'
<1>. SUFFICES ASSUME IInv, Alike, Sema PROVE Alike'
  OBVIOUS
<1>1. Types /\ Tree /\ Nested /\ Stacked
  BY DEF IInv
<1>2. CASE SemaDone
  <2>1. UNCHANGED <<prog, blocks, res>> /\ pc' = "gen"
    BY <1>2 DEF SemaDone
  <2>2. \A p \in DOMAIN res : Kept(p)'
    BY <2>1, AlikeIs, OldKept
  <2>. QED BY <2>1, <2>2 DEF Alike, Kept
<1>3. CASE SemaScope \/ SemaEnd
  BY <1>3, AlikeStep DEF SemaScope, SemaEnd, Walk, EntersHere
<1>4. ASSUME pc = "sema", at < Len(prog)
      PROVE  /\ Curr \in 1..Len(blocks) /\ (Len(scopes) = 1 => Curr = 1)
             /\ Here.op \in {"func", "proto", "decl", "use", "call"} => Here.name \in Names
             /\ Here.op = "func" => Here.body \in 1..Len(blocks)
             /\ Here.init \in Names \union {NULL}
  <2>1. PICK p : p = at + 1 /\ p \in 1..Len(prog) /\ Here = prog[p]
    BY <1>1, <1>4, AtStatement DEF Here
  <2>2. Here \in Statements /\ Curr \in 1..Len(blocks) /\ (Len(scopes) = 1 => Curr = 1)
    BY <1>1, <1>4, AtStatement
  <2>3. Here.op = "func" => Here.body \in 2..Len(blocks)
    BY <1>1, <2>1 DEF Tree, Opens
  <2>. QED BY <1>1, <2>1, <2>2, <2>3 DEF Tree, Statements
<1>5. CASE SemaFunction \/ SemaPrototype
  <2>1. /\ pc = "sema" /\ at < Len(prog) /\ at' = at + 1 /\ prog' = prog /\ res' = res
        /\ Here.op \in {"func", "proto"}
    BY <1>5 DEF SemaFunction, SemaPrototype, Walk
  <2>2. EntersHere
    <3>1. CASE SemaFunction
      <4>1. Here.op = "func"
        BY <3>1 DEF SemaFunction, Walk
      <4>2. PICK c : c = (IF Len(scopes) = 1 THEN 1 ELSE Here.body)
        OBVIOUS
      <4>3. c \in 1..Len(blocks)
        BY <1>4, <2>1, <4>1, <4>2
      <4>. QED BY <1>4, <2>1, <3>1, <4>2, <4>3 DEF SemaFunction, EntersHere
    <3>2. CASE SemaPrototype
      BY <1>4, <2>1, <3>2 DEF SemaPrototype, EntersHere
    <3>. QED BY <1>5, <3>1, <3>2
  <2>. QED BY <2>1, <2>2, AlikeStep
<1>6. CASE SemaDecl
  <2>1. /\ pc = "sema" /\ at < Len(prog) /\ at' = at + 1 /\ prog' = prog /\ Here.op = "decl"
    BY <1>6 DEF SemaDecl, Walk
  <2>2. PICK n : n = NameUsed(at + 1) /\ n = Here.init
    BY <2>1 DEF NameUsed, Here
  <2>3. res' = res \/ (n \in Names /\ res' = Resolution(at + 1, n))
    BY <1>4, <1>6, <2>1, <2>2 DEF SemaDecl, Resolve
  <2>4. EntersHere
    BY <1>4, <1>6, <2>1 DEF SemaDecl, EntersHere
  <2>. QED BY <2>1, <2>2, <2>3, <2>4, AlikeStep
<1>7. CASE SemaUse \/ SemaCall
  <2>1. /\ pc = "sema" /\ at < Len(prog) /\ at' = at + 1 /\ prog' = prog /\ blocks' = blocks
        /\ Here.op \in {"use", "call"} /\ res' = Resolution(at + 1, Here.name)
    BY <1>7 DEF SemaUse, SemaCall, Walk, Resolve
  <2>2. PICK n : n = NameUsed(at + 1) /\ n = Here.name
    BY <2>1 DEF NameUsed, Here
  <2>. QED BY <1>4, <2>1, <2>2, AlikeStep DEF EntersHere
<1>. QED BY <1>2, <1>3, <1>5, <1>6, <1>7 DEF Sema

LEMMA AlikeNext == IInv /\ IInv' /\ Alike /\ [Next]_vars => Alike'
<1>. SUFFICES ASSUME IInv, IInv', Alike, [Next]_vars PROVE Alike'
  OBVIOUS
<1>1. ASSUME UNCHANGED <<prog, blocks, res>>, pc' \in {"parse", "sema"} => pc' = pc /\ at' = at
      PROVE  Alike'
  <2>1. \A p \in DOMAIN res : Kept(p)'
    BY <1>1, AlikeIs, OldKept
  <2>. QED BY <1>1, <2>1 DEF Alike, Kept
<1>2. CASE Parsing
  <2>1. res = <<>> /\ res' = res /\ DOMAIN res = {}
    BY <1>2 DEF IInv, Parsing, ParseScope, ParseFunction, ParseOpen, ParseEnd, ParsePrototype,
                ParseDecl, ParseUse, ParseDone, Parse
  <2>. QED BY <2>1 DEF Alike
<1>3. CASE Sema
  BY <1>3, AlikeSema
<1>4. CASE Gen
  <2>1. UNCHANGED <<prog, blocks, res>> /\ pc' \notin {"parse", "sema"}
    BY <1>4 DEF Gen, GenScope, GenFunction, GenPrototype, GenEnd, GenDecl, GenUse, GenCall,
                GenLost, GenSizeless, GenDone, Walk
  <2>. QED BY <1>1, <2>1
<1>5. CASE UNCHANGED vars
  BY <1>1, <1>5 DEF vars
<1>. QED BY <1>2, <1>3, <1>4, <1>5 DEF Next

\* In every reachable state both lookups, as they would be made around a
\* statement whose name sema has resolved, find what sema found or a symbol
\* entered at or after that statement (sema.c:569-603, x86_asm.c:67-132).
THEOREM AlikeInvariance == Spec => []Alike
<1>1. Init => Alike
  BY DEF Init, Alike
<1>. QED BY <1>1, Invariance, AlikeNext, PTL DEF Spec

\* The generator finds what sema found, unless the name is declared at the use
\* or later; a function's name without a call aside (sema.c:569-603,
\* x86_asm.c:67-132).
THEOREM FoundAlike == Spec => []ResolvedAlike
<1>1. IInv /\ Alike => ResolvedAlike
  <2>. SUFFICES ASSUME IInv, Alike, GenUses, Here.op # "call" => res[at + 1].kind # "func"
                PROVE  \/ Found = res[at + 1]
                       \/ Found.kind \in {"var", "func"} /\ Found.decl > at
    BY DEF ResolvedAlike
  <2>1. Types /\ Tree /\ Nested /\ Stacked /\ ResolvedOnes
    BY DEF IInv
  <2>2. PICK p : p = at + 1 /\ p \in DOMAIN res /\ pc = "gen" /\ at < Len(prog) /\ at \in Nat
    BY <2>1, AtStatement DEF GenUses, Types
  <2>3. PICK b : b = After(at) /\ b = After(Reached) /\ prog[p].block = b /\ Here = prog[p]
    BY <2>1, <2>2, AtStatement DEF Here, Reached
  <2>4. PICK n \in Names : n = NameUsed(p) /\ Here.op \in {"decl", "use", "call"}
    BY <2>1, <2>2, <2>3 DEF ResolvedOnes
  <2>5. n = IF Here.op = "decl" THEN Here.init ELSE Here.name
    BY <2>3, <2>4 DEF NameUsed
  <2>6. \/ Here.op = "call" /\ Found = Innermost("local_exist", b, n)
        \/ Here.op # "call" /\ Found = Innermost("symbol_gen", b, n)
    BY <2>1, <2>2, <2>3, <2>4, <2>5, LocalExistIs, SymbolGenIs DEF Found
  <2>7. \A by \in Lookups : by = "local_exist" \/ res[p].kind # "func" => Same(Innermost(by, b, n), p)
    BY <2>2, <2>3, <2>4 DEF Alike
  <2>8. Same(Found, p)
    BY <2>2, <2>6, <2>7 DEF Lookups
  <2>9. Found.kind \in {"var", "func"} => Found.decl \in Nat
    <3>1. \A y : y.kind \in {"var", "func"} => y # None
      BY DEF None, Symbol
    <3>2. Declared
      BY DEF IInv
    <3>3. Found # None => Good(Found, n, b)
      BY <2>1, <2>3, <2>5, <2>4, <3>2, LocalExistGood, SymbolGenGood DEF Found
    <3>4. Len(prog) \in Nat
      BY <2>1, <2>2, AtStatement
    <3>. QED BY <3>1, <3>3, <3>4 DEF Good
  <2>. QED BY <2>2, <2>8, <2>9 DEF Same
<1>. QED BY <1>1, Invariance, AlikeInvariance, PTL

=============================================================================
