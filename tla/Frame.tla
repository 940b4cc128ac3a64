------------------------------- MODULE Frame -------------------------------
(***************************************************************************)
(* The stack frame of a compiled function: what sema (src/src/sema.c) adds *)
(* up as the sizes of its blocks, the frame that stmt_gen                  *)
(* (src/src/x86_asm.c) reserves from that, and the addresses symbol_gen    *)
(* gives its locals.                                                       *)
(*                                                                         *)
(* The program is not given beforehand: each step of sema chooses the next *)
(* statement of the function and records it; the code generator then walks *)
(* the same statements.  A statement matters here as far as it opens or    *)
(* closes a block, declares a local, or calls a function; the body of an   *)
(* if or a while is a branch.  An address is an offset from rsp.  A name   *)
(* declared twice in a block is one local, of the later declaration; a     *)
(* block has at most 7 names, of different home buckets, so that a bucket  *)
(* is the name's and stays the name's.  Functions are declared at the top  *)
(* level only.                                                             *)
(*                                                                         *)
(* A definition that is only a faulty variant of the next one is named for *)
(* its fault; it shows that a property notices that fault.                 *)
(***************************************************************************)
EXTENDS Integers, Sequences, FiniteSets, Functions

CONSTANTS Names,       \* names of locals
          Slot,        \* the bucket of a name: the order map_next yields them
          Sizes,       \* sizes of types
          Inits,       \* how a declaration is initialised
          Calls,       \* calls: the number of arguments and the size of each
          MaxProg,     \* bound: statements of the function
          MaxDecls,    \* bound: declarations among them
          MaxBlocks    \* bound: blocks, with the function's body

ASSUME SlotAssumption == /\ Slot \in [Names -> Nat]
                         /\ \A m, n \in Names : Slot[m] = Slot[n] => m = n
ASSUME SizesAssumption == Sizes \subseteq 1..8
ASSUME InitsAssumption == Inits \subseteq {"same type", "other integer", "none"}
ASSUME CallsAssumption == Calls \subseteq [arity : Nat, size : 1..8]
ASSUME BoundsAssumption == {MaxProg, MaxDecls, MaxBlocks} \subseteq Nat

VARIABLES prog,      \* the statements of the function
          blocks,    \* its blocks, the body first
          scopes,    \* tu->scopes: the open blocks, innermost last
          at,        \* statements the code generator has done
          offset,    \* tu->offset
          frame,     \* stack_size
          pc

vars == <<prog, blocks, scopes, at, offset, frame, pc>>

Open(b)             == [op |-> "open", block |-> b]
Close(b)            == [op |-> "close", block |-> b]
Decl(b, n, size, i) == [op |-> "decl", block |-> b, name |-> n, size |-> size, init |-> i]
Call(b, c)          == [op |-> "call", block |-> b, arity |-> c.arity, size |-> c.size]

\* parent 0 is the function; total is STMT_SCOPE's local `size`; a local is
\* its declaration's place in prog.
NewBlock(parent, branch) ==
    [parent |-> parent, branch |-> branch, size |-> 0, total |-> 0, offset |-> 0,
     locals |-> [n \in Names |-> 0]]

Scope == scopes[Len(scopes)]
Pop == SubSeq(scopes, 1, Len(scopes) - 1)

Init == /\ prog = <<>>
        /\ blocks = <<NewBlock(0, FALSE)>>
        /\ scopes = <<1>>
        /\ at = 0
        /\ offset = 0
        /\ frame = 0
        /\ pc = "sema"

-----------------------------------------------------------------------------
(* sema_statement *)

Sema(statement) ==
    /\ pc = "sema"
    /\ Len(prog) < MaxProg
    /\ prog' = Append(prog, statement)
    /\ UNCHANGED <<at, offset, frame, pc>>

SemaOpen(branch) ==
    LET b == Len(blocks) + 1
    IN  /\ Len(blocks) < MaxBlocks
        /\ Sema(Open(b))
        /\ blocks' = Append(blocks, NewBlock(Scope, branch))
        /\ scopes' = Append(scopes, b)

\* A block that closes adds its total to its size; a block that is a statement
\* of another block, not a branch, counts for that one.
Closed(b) == [blocks EXCEPT ![b].size = @ + blocks[b].total]
CountedAlone(b) == Closed(b)
Counted(b) == IF blocks[b].branch
                THEN Closed(b)
                ELSE [Closed(b) EXCEPT ![blocks[b].parent].total = @ + Closed(b)[b].size]

SemaClose ==
    /\ Len(scopes) > 1
    /\ Sema(Close(Scope))
    /\ blocks' = Counted(Scope)
    /\ scopes' = Pop

\* STMT_VAR_DECL adds the size when the initializer has the variable's type,
\* and STMT_SCOPE adds it for every declaration.
SemaDecl(n, size, init) ==
    /\ Cardinality({p \in 1..Len(prog) : prog[p].op = "decl"}) < MaxDecls
    /\ Sema(Decl(Scope, n, size, init))
    /\ blocks' = [blocks EXCEPT ![Scope].size = @ + (IF init = "same type" THEN size ELSE 0),
                                ![Scope].total = @ + size,
                                ![Scope].locals[n] = Len(prog) + 1]
    /\ UNCHANGED scopes

\* EXPR_CALL adds the sizes of the arguments after the fifth.
StackArguments(c) == IF c.arity > 5 THEN c.size * (c.arity - 5) ELSE 0

SemaCall(c) ==
    /\ Sema(Call(Scope, c))
    /\ blocks' = [blocks EXCEPT ![Scope].size = @ + StackArguments(c)]
    /\ UNCHANGED scopes

-----------------------------------------------------------------------------
(* stmt_gen *)

\* (32 + 16 + size) & ~(16-1) + 8, which C reads as & (~15 + 8)
StackSize(size) == IF size <= 0 THEN 32 ELSE ((48 + size) \div 8) * 8

\* STMT_FUNCTION_DECL, once the body has passed sema
GenFunction ==
    /\ pc = "sema"
    /\ Len(scopes) = 1
    /\ blocks' = Closed(1)
    /\ frame' = StackSize(Closed(1)[1].size)
    /\ pc' = "gen"
    /\ UNCHANGED <<prog, scopes, at, offset>>

Gen(op) ==
    /\ pc = "gen"
    /\ at < Len(prog)
    /\ prog[at + 1].op = op
    /\ at' = at + 1
    /\ UNCHANGED <<prog, frame, pc>>

GenOpenAtStart ==
    /\ Gen("open")
    /\ scopes' = Append(scopes, prog[at + 1].block)
    /\ UNCHANGED <<blocks, offset>>

GenOpen ==
    /\ Gen("open")
    /\ blocks' = [blocks EXCEPT ![prog[at + 1].block].offset = offset]
    /\ scopes' = Append(scopes, prog[at + 1].block)
    /\ UNCHANGED offset

GenCloseInScope ==
    /\ Gen("close")
    /\ UNCHANGED <<blocks, scopes, offset>>

GenClose ==
    /\ Gen("close")
    /\ scopes' = Pop
    /\ UNCHANGED <<blocks, offset>>

GenDecl ==
    /\ Gen("decl")
    /\ offset' = offset + prog[at + 1].size
    /\ UNCHANGED <<blocks, scopes>>

GenCall ==
    /\ Gen("call")
    /\ UNCHANGED <<blocks, scopes, offset>>

GenEnd ==
    /\ pc = "gen"
    /\ at = Len(prog)
    /\ pc' = "done"
    /\ offset' = 0
    /\ UNCHANGED <<prog, blocks, scopes, at, frame>>

-----------------------------------------------------------------------------

SemaStep == \/ \E branch \in BOOLEAN : SemaOpen(branch)
            \/ SemaClose
            \/ \E n \in Names, size \in Sizes, init \in Inits : SemaDecl(n, size, init)
            \/ \E c \in Calls : SemaCall(c)
GenStep == GenFunction \/ GenOpen \/ GenClose \/ GenDecl \/ GenCall \/ GenEnd

Next == SemaStep \/ GenStep

Spec == Init /\ [][Next]_vars

-----------------------------------------------------------------------------
(* The code that was generated *)

\* The bytes of the locals that are declared at some places
Bytes(P) == SumFunctionOnSet([p \in P |-> prog[p].size], P)

\* symbol_gen: the locals that come before in the map's order
LocalSize(b, n) == prog[blocks[b].locals[n]].size
Before(b, n) == {blocks[b].locals[m] : m \in {k \in Names : /\ blocks[b].locals[k] # 0
                                                          /\ Slot[k] < Slot[n]}}
Address(b, n) == Bytes(Before(b, n)) + blocks[b].offset + 32

\* A declaration without an initializer writes 8 bytes whatever the type.
Written(p) == Address(prog[p].block, prog[p].name)
                + (IF prog[p].init = "none" THEN 8 ELSE prog[p].size)

\* the statements generated, by kind
Done(op) == {p \in 1..at : prog[p].op = op}

\* The locals that have an address: those of the blocks the generator has met
Met == {1} \union {prog[p].block : p \in Done("open")}
Locals == {l \in Met \X Names : blocks[l[1]].locals[l[2]] # 0}

Overlap(l, m) ==
    /\ Address(l[1], l[2]) < Address(m[1], m[2]) + LocalSize(m[1], m[2])
    /\ Address(m[1], m[2]) < Address(l[1], l[2]) + LocalSize(l[1], l[2])

\* A block and those around it
AncestorsIn(B, b) ==
    {a \in 1..Len(B) : \A S \in SUBSET (1..Len(B)) :
        b \in S /\ (\A c \in S \ {1} : B[c].parent \in S) => a \in S}
Ancestors(b) == AncestorsIn(blocks, b)
OpenedAt(b) == CHOOSE p \in 1..Len(prog) : prog[p] = Open(b)
InBranch(b) == \E a \in Ancestors(b) : blocks[a].branch

-----------------------------------------------------------------------------
(* Properties *)

TypeOK ==
    /\ \A p \in 1..Len(prog) : prog[p].op \in {"open", "close", "decl", "call"}
    /\ \A b \in 1..Len(blocks) :
         /\ blocks[b].parent \in 0..(b - 1)
         /\ blocks[b].size \in Nat /\ blocks[b].total \in Nat /\ blocks[b].offset \in Nat
         /\ blocks[b].locals \in [Names -> 0..Len(prog)]
    /\ scopes \in Seq(1..Len(blocks))
    /\ at \in 0..Len(prog) /\ offset \in Nat /\ frame \in Nat
    /\ pc \in {"sema", "gen", "done"}

\* Two locals whose bytes overlap are in nested blocks, and the outer block
\* declares a local after the inner block (x86_asm.c:105-121, 518-525): locals
\* of one block, of blocks one after the other, and of blocks whose locals are
\* all declared first, are apart.
OverlapOnlyWithLater ==
    pc # "sema" =>
      \A l, m \in Locals :
        l # m /\ Overlap(l, m) =>
          \E outer, inner \in {l[1], m[1]} :
             /\ outer # inner
             /\ outer \in Ancestors(inner)
             /\ \E p \in 1..Len(prog) : /\ prog[p].op = "decl" /\ prog[p].block = outer
                                        /\ p > OpenedAt(inner)

\* If no branch declares a local, every byte a declaration writes is in the
\* frame, below the registers that the prologue saved.
DeclarationsInFrame ==
    (\A p \in 1..Len(prog) : prog[p].op = "decl" => ~InBranch(prog[p].block))
      => \A p \in Done("decl") : Written(p) <= frame

\* So are the arguments that a call passes on the stack, if the call is not
\* in a branch, each argument has 8 bytes, as it takes on the stack, and there
\* are not exactly five.
ArgumentsInFrame ==
    \A p \in Done("call") :
      /\ ~InBranch(prog[p].block)
      /\ prog[p].size = 8
      /\ prog[p].arity # 5
      => 8 * prog[p].arity <= frame

\* The frame, sized by the sums of one pass, holds what another pass stores in
\* it (sema.c:480-492, 586-603, 630-640, x86_asm.c:387-390, 555-558).
StoresInFrame == DeclarationsInFrame /\ ArgumentsInFrame

\* The generator is at each statement in the scope sema was in, so that both
\* find the same symbols, and back in the function's at its end.
InScope ==
    /\ pc = "gen" /\ at < Len(prog) /\ prog[at + 1].op # "open" => Scope = prog[at + 1].block
    /\ pc = "done" => scopes = <<1>>

\* What one pass takes from another: the scopes, and that the locals of a block
\* start after all that was declared before it (x86_asm.c:515-530).  The
\* variables keep their types.
ScopesAgree ==
    /\ TypeOK
    /\ InScope
    /\ \A b \in Met \ {1} :
         blocks[b].offset = Bytes({p \in Done("decl") : p < OpenedAt(b)})

\* "local = [rbp - Y], Y = (local_variable_usage -= size, ...)"
\* (x86_asm.c:120): every local has an address of its own.
LocalsApart ==
    pc # "sema" => \A l, m \in Locals : l # m => ~Overlap(l, m)
=============================================================================
