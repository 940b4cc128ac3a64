------------------------------- MODULE Scopes -------------------------------
(***************************************************************************)
(* Scopes and names through the compiler's three passes: the parser        *)
(* (src/src/parser.c) enters functions into the blocks, the semantic       *)
(* analysis (src/src/sema.c) enters variables and resolves every name with *)
(* local_exist, and the code generator (src/src/x86_asm.c) resolves it     *)
(* once more, by symbol_gen or local_exist, in blocks that are by then     *)
(* complete.  Each pass has its own run of the stack tu->scopes.           *)
(*                                                                         *)
(* The parser chooses the program; the other passes walk it.  Variables    *)
(* have one type and calls the right arguments, so that only names can be  *)
(* wrong.  Global variables and functions are mixed freely; there is a     *)
(* function.  In blocks with a function among the names, symbol_gen may    *)
(* come upon it while it adds up sizes, depending on the order of the hash *)
(* table: that is a choice here.  This is the debug build.                 *)
(*                                                                         *)
(* A definition that is only a faulty variant of the next one is named for *)
(* its fault; it shows that a property notices that fault.                 *)
(***************************************************************************)
EXTENDS Integers, Sequences, FiniteSets, FiniteSetsExt

CONSTANTS Names,        \* identifiers
          Functions,    \* those that functions have
          Params,       \* the parameters a function may have
          NULL,
          MaxProg,      \* bound: statements and declarations
          MaxDecls,     \* bound: variable declarations
          MaxUses,      \* bound: names used
          MaxBlocks     \* bound: blocks, with the global one

ASSUME NamesAssumption == Functions \subseteq Names /\ NULL \notin Names
ASSUME ParamsAssumption == Params \subseteq SUBSET Names
ASSUME BoundsAssumption == {MaxProg, MaxDecls, MaxUses, MaxBlocks} \subseteq Nat

VARIABLES prog,      \* the program
          blocks,    \* its blocks; the first is the global one
          scopes,    \* tu->scopes, innermost last
          at,        \* statements the pass has done
          success,   \* the result of sema so far
          res,       \* what sema resolved the name used in a statement to
          pc

vars == <<prog, blocks, scopes, at, success, res, pc>>

\* A symbol is known by the statement that declares it.
Symbol(p, kind) == [decl |-> p, kind |-> kind]
None == Symbol(0, "none")

\* What is on the stack: a block, or the function whose body is above it.
BlockItem(b) == [kind |-> "scope", id |-> b]
FunctionItem(p) == [kind |-> "func", id |-> p]

NewBlock(parent, p) == [parent |-> parent, func |-> p, locals |-> [n \in Names |-> None]]

Curr == scopes[Len(scopes)].id
Popped(k) == SubSeq(scopes, 1, Len(scopes) - k)
AddSymbol(bs, b, n, symbol) == [bs EXCEPT ![b].locals[n] = symbol]

Statement(op, n, init, ps, body) ==
    [op |-> op, name |-> n, init |-> init, params |-> ps, block |-> Curr, body |-> body]

Init == /\ prog = <<>>
        /\ blocks = <<NewBlock(0, 0)>>
        /\ scopes = <<BlockItem(1)>>
        /\ at = 0
        /\ success = TRUE
        /\ res = <<>>
        /\ pc = "parse"

-----------------------------------------------------------------------------
(* The parser *)

Count(op) == Cardinality({p \in 1..Len(prog) : prog[p].op = op})
Uses == Count("use") + Count("call")
          + Cardinality({p \in 1..Len(prog) : prog[p].op = "decl" /\ prog[p].init # NULL})

Parse(statement) ==
    /\ pc = "parse"
    /\ Len(prog) < MaxProg
    /\ prog' = Append(prog, statement)
    /\ UNCHANGED <<at, success, res, pc>>

\* parse_scope_stmt
ParseOpen(op, n, ps) ==
    LET b == Len(blocks) + 1
    IN  /\ Len(blocks) < MaxBlocks
        /\ Parse(Statement(op, n, NULL, ps, b))
        /\ blocks' = Append(blocks, NewBlock(Curr, IF op = "func" THEN Len(prog) + 1 ELSE 0))
        /\ scopes' = Append(scopes, BlockItem(b))

ParseScope == Len(scopes) > 1 /\ ParseOpen("scope", NULL, {})
ParseFunction == \E n \in Functions, ps \in Params : ParseOpen("func", n, ps)

\* parse_function_decloration enters the function into the block around it,
\* after its body.
Entered(b) == IF blocks[b].func = 0
                THEN blocks
                ELSE AddSymbol(blocks, blocks[b].parent, prog[blocks[b].func].name,
                               Symbol(blocks[b].func, "func"))

ParseEnd ==
    /\ Len(scopes) > 1
    /\ Parse(Statement("end", NULL, NULL, {}, 0))
    /\ blocks' = Entered(Curr)
    /\ scopes' = Popped(1)

ParsePrototype ==
    \E n \in Functions, ps \in Params :
      /\ Parse(Statement("proto", n, NULL, ps, 0))
      /\ blocks' = AddSymbol(blocks, Curr, n, Symbol(Len(prog) + 1, "func"))
      /\ UNCHANGED scopes

ParseDecl ==
    \E n \in Names, init \in Names \union {NULL} :
      /\ Count("decl") < MaxDecls
      /\ init # NULL => Uses < MaxUses
      /\ Parse(Statement("decl", n, init, {}, 0))
      /\ UNCHANGED <<blocks, scopes>>

ParseUse ==
    \E op \in {"use", "call"}, n \in Names :
      /\ Len(scopes) > 1
      /\ Uses < MaxUses
      /\ Parse(Statement(op, n, NULL, {}, 0))
      /\ UNCHANGED <<blocks, scopes>>

ParseDone ==
    /\ pc = "parse"
    /\ Len(scopes) = 1
    /\ Count("func") > 0
    /\ pc' = "sema"
    /\ UNCHANGED <<prog, blocks, scopes, at, success, res>>

-----------------------------------------------------------------------------
(* Looking a name up *)

\* local_exist, in one element of the stack
Candidate(item, n) ==
    IF item.kind = "scope" THEN blocks[item.id].locals[n]
    ELSE IF prog[item.id].name = n THEN Symbol(item.id, "func")
    ELSE IF n \in prog[item.id].params THEN Symbol(item.id, "param")
    ELSE None

LocalExist(n) ==
    LET hits == {j \in 2..Len(scopes) : Candidate(scopes[j], n) # None}
    IN  IF hits = {} THEN blocks[1].locals[n] ELSE Candidate(scopes[Max(hits)], n)

\* symbol_gen does not stop at a function's own name.
GenCandidate(item, n) ==
    IF item.kind = "scope" THEN blocks[item.id].locals[n]
    ELSE IF n \in prog[item.id].params THEN Symbol(item.id, "param")
    ELSE None

Hits(n) == {j \in 1..Len(scopes) : GenCandidate(scopes[j], n) # None}
SymbolGen(n) == IF Hits(n) = {} THEN None ELSE GenCandidate(scopes[Max(Hits(n))], n)

\* The block symbol_gen finds it in, unless global, has a function among its
\* names.
MeetsFunction(n) ==
    /\ Hits(n) \ {1} # {}
    /\ LET item == scopes[Max(Hits(n))]
       IN  /\ item.kind = "scope"
           /\ \E f \in Names : blocks[item.id].locals[f].kind = "func"

-----------------------------------------------------------------------------
(* sema_statement and sema_expr *)

Here == prog[at + 1]

Walk(phase, op) ==
    /\ pc = phase
    /\ at < Len(prog)
    /\ Here.op = op
    /\ at' = at + 1
    /\ UNCHANGED prog

Resolution(p, n) == [q \in DOMAIN res \union {p} |-> IF q = p THEN LocalExist(n) ELSE res[q]]
Resolve(n) == res' = Resolution(at + 1, n)

SemaScope ==
    /\ Walk("sema", "scope")
    /\ scopes' = Append(scopes, BlockItem(Here.body))
    /\ UNCHANGED <<blocks, success, res, pc>>

\* A nested function is entered into its own body as well.
SemaFunction ==
    /\ Walk("sema", "func")
    /\ blocks' = AddSymbol(blocks, IF Len(scopes) = 1 THEN 1 ELSE Here.body, Here.name,
                           Symbol(at + 1, "func"))
    /\ scopes' = scopes \o <<FunctionItem(at + 1), BlockItem(Here.body)>>
    /\ UNCHANGED <<success, res, pc>>

\* A prototype in a block is an error.
SemaPrototype ==
    /\ Walk("sema", "proto")
    /\ blocks' = IF Len(scopes) = 1
                   THEN AddSymbol(blocks, 1, Here.name, Symbol(at + 1, "func"))
                   ELSE blocks
    /\ success' = (success /\ Len(scopes) = 1)
    /\ UNCHANGED <<scopes, res, pc>>

\* The end of a function pops its body and the function; sema stops after the
\* first global declaration that fails.
SemaEndInBody ==
    /\ Walk("sema", "end")
    /\ scopes' = Popped(1)
    /\ pc' = IF Len(scopes') = 1 /\ ~success THEN "rejected" ELSE pc
    /\ UNCHANGED <<blocks, success, res>>

SemaEnd ==
    /\ Walk("sema", "end")
    /\ scopes' = Popped(IF blocks[Curr].func = 0 THEN 1 ELSE 2)
    /\ pc' = IF Len(scopes') = 1 /\ ~success THEN "rejected" ELSE pc
    /\ UNCHANGED <<blocks, success, res>>

\* The initializer is resolved before the variable is entered.  An unknown
\* name in it is reported, and then the variable is entered as if it had no
\* initializer; a function's name is a type conflict.
SemaDecl ==
    /\ Walk("sema", "decl")
    /\ IF Here.init # NULL THEN Resolve(Here.init) ELSE UNCHANGED res
    /\ IF Here.init # NULL /\ LocalExist(Here.init).kind = "func"
         THEN /\ success' = FALSE
              /\ pc' = IF Len(scopes) = 1 THEN "rejected" ELSE pc
              /\ UNCHANGED blocks
         ELSE /\ blocks' = AddSymbol(blocks, Curr, Here.name, Symbol(at + 1, "var"))
              /\ UNCHANGED <<success, pc>>
    /\ UNCHANGED scopes

SemaUse ==
    /\ Walk("sema", "use")
    /\ Resolve(Here.name)
    /\ success' = (success /\ LocalExist(Here.name) # None)
    /\ UNCHANGED <<blocks, scopes, pc>>

\* A call of a name that is unknown, or a variable's, is reported, or not, and
\* then a null pointer is dereferenced.
SemaCall ==
    /\ Walk("sema", "call")
    /\ Resolve(Here.name)
    /\ pc' = IF LocalExist(Here.name).kind = "func" THEN pc ELSE "crash"
    /\ UNCHANGED <<blocks, scopes, success>>

SemaDone ==
    /\ pc = "sema"
    /\ at = Len(prog)
    /\ at' = 0
    /\ pc' = "gen"
    /\ UNCHANGED <<prog, blocks, scopes, success, res>>

-----------------------------------------------------------------------------
(* stmt_gen and expr_gen *)

GenScope ==
    /\ Walk("gen", "scope")
    /\ scopes' = Append(scopes, BlockItem(Here.body))
    /\ UNCHANGED <<blocks, success, res, pc>>

GenFunctionWithoutItem ==
    /\ Walk("gen", "func")
    /\ scopes' = scopes \o <<BlockItem(Here.body)>>
    /\ UNCHANGED <<blocks, success, res, pc>>

GenFunction ==
    /\ Walk("gen", "func")
    /\ scopes' = scopes \o <<FunctionItem(at + 1), BlockItem(Here.body)>>
    /\ UNCHANGED <<blocks, success, res, pc>>

GenPrototype ==
    /\ Walk("gen", "proto")
    /\ UNCHANGED <<blocks, scopes, success, res, pc>>

GenEnd ==
    /\ Walk("gen", "end")
    /\ scopes' = Popped(IF blocks[Curr].func = 0 THEN 1 ELSE 2)
    /\ UNCHANGED <<blocks, success, res, pc>>

\* No code is generated for a global variable.
GenDecl ==
    /\ Walk("gen", "decl")
    /\ (Len(scopes) > 1 /\ Here.init # NULL) => SymbolGen(Here.init) # None
    /\ UNCHANGED <<blocks, scopes, success, res, pc>>

\* expr_gen has no size for a function.
GenUse ==
    /\ Walk("gen", "use")
    /\ SymbolGen(Here.name) # None /\ res[at + 1].kind # "func"
    /\ UNCHANGED <<blocks, scopes, success, res, pc>>

\* A variable declared since may hide the function.
GenCall ==
    /\ Walk("gen", "call")
    /\ pc' = IF LocalExist(Here.name).kind = "func" THEN pc ELSE "crash"
    /\ UNCHANGED <<blocks, scopes, success, res>>

\* The Assert at the end of symbol_gen
GenLost ==
    /\ pc = "gen" /\ at < Len(prog) /\ Len(scopes) > 1
    /\ \/ Here.op = "use" /\ res[at + 1].kind # "func" /\ SymbolGen(Here.name) = None
       \/ Here.op = "decl" /\ Here.init # NULL /\ SymbolGen(Here.init) = None
    /\ pc' = "lost"
    /\ UNCHANGED <<prog, blocks, scopes, at, success, res>>

\* The Assert of get_type_size
GenSizeless ==
    /\ pc = "gen" /\ at < Len(prog) /\ Len(scopes) > 1
    /\ \/ Here.op = "use" /\ (res[at + 1].kind = "func" \/ MeetsFunction(Here.name))
       \/ Here.op = "decl" /\ MeetsFunction(Here.name)
       \/ Here.op = "decl" /\ Here.init # NULL /\ MeetsFunction(Here.init)
    /\ pc' = "sizeless"
    /\ UNCHANGED <<prog, blocks, scopes, at, success, res>>

GenDone ==
    /\ pc = "gen"
    /\ at = Len(prog)
    /\ pc' = "done"
    /\ UNCHANGED <<prog, blocks, scopes, at, success, res>>

-----------------------------------------------------------------------------

Parsing == ParseScope \/ ParseFunction \/ ParseEnd \/ ParsePrototype \/ ParseDecl
             \/ ParseUse \/ ParseDone
Sema == SemaScope \/ SemaFunction \/ SemaPrototype \/ SemaEnd \/ SemaDecl \/ SemaUse
          \/ SemaCall \/ SemaDone
Gen == GenScope \/ GenFunction \/ GenPrototype \/ GenEnd \/ GenDecl \/ GenUse \/ GenCall
         \/ GenLost \/ GenSizeless \/ GenDone

Next == Parsing \/ Sema \/ Gen

Spec == Init /\ [][Next]_vars

-----------------------------------------------------------------------------
(* Properties *)

Symbols == [decl : 0..Len(prog), kind : {"var", "func", "param", "none"}]

TypeOK ==
    /\ \A p \in 1..Len(prog) : /\ prog[p].op \in {"scope", "func", "proto", "end", "decl", "use", "call"}
                               /\ prog[p].block \in 1..Len(blocks)
    /\ \A b \in 1..Len(blocks) : blocks[b].locals \in [Names -> Symbols]
    /\ scopes # <<>>
    /\ \A j \in 1..Len(scopes) :
         /\ scopes[j].kind \in {"scope", "func"}
         /\ scopes[j].id \in 1..(IF scopes[j].kind = "scope" THEN Len(blocks) ELSE Len(prog))
    /\ at \in 0..Len(prog)
    /\ \A p \in DOMAIN res : p \in 1..Len(prog) /\ res[p] \in Symbols
    /\ success \in BOOLEAN
    /\ pc \in {"parse", "sema", "gen", "rejected", "crash", "lost", "sizeless", "done"}

\* The name the generator is about to look up in a function, and what it finds
GenUses == pc = "gen" /\ at < Len(prog) /\ Len(scopes) > 1 /\ at + 1 \in DOMAIN res
Found == CASE Here.op = "use"  -> SymbolGen(Here.name)
           [] Here.op = "decl" -> SymbolGen(Here.init)
           [] Here.op = "call" -> LocalExist(Here.name)

\* The generator finds what sema found, unless a block around the use
\* declares the name later on, for the first time or again, or the declaration
\* is the use's own; a function's name, which has no value, aside
\* (parser.c:339-374, x86_asm.c:67-132).
ResolvedAlike ==
    GenUses /\ (Here.op # "call" => res[at + 1].kind # "func") =>
      \/ Found = res[at + 1]
      \/ Found.kind \in {"var", "func"} /\ Found.decl > at

\* No name is found outside of the blocks and functions around its use
\* (sema.c:569-603, x86_asm.c:77-117), and a name that is not found at all is
\* one sema has reported, in an initializer.  The variables keep their types.
AncestorsIn(B, b) ==
    {a \in 1..Len(B) : \A S \in SUBSET (1..Len(B)) :
        b \in S /\ (\A c \in S \ {1} : B[c].parent \in S) => a \in S}
Ancestors(b) == AncestorsIn(blocks, b)
Home(s) == IF s.kind = "param" THEN prog[s.decl].body ELSE prog[s.decl].block
SymbolsVisible ==
    /\ TypeOK
    /\ GenUses /\ Found # None => Home(Found) \in Ancestors(Here.block)
    /\ pc = "lost" => Here.op = "decl" /\ res[at + 1] = None

\* "Why am I getting here?" (x86_asm.c:129): the generator finds every name
\* of a program that the semantic analysis has accepted.
SymbolFound == pc # "lost"
=============================================================================
