------------------------------ MODULE ExprGen ------------------------------
(***************************************************************************)
(* The expression code generator of src/src/x86_asm.c: expr_gen walking an *)
(* expression tree, the scratch register table it allocates from, and what *)
(* the statement generator stmt_gen does with an expression's register.    *)
(*                                                                         *)
(* The tree is not given beforehand: each visit of a node chooses what the *)
(* node is.  The code of a node is run as it is emitted, so the model also *)
(* says which scratch registers a node's code overwrites at run time: its  *)
(* own destination, and for a call of a function that was not compiled by  *)
(* Gzar the registers the Win64 convention lets it destroy.  A function    *)
(* compiled by Gzar pushes and pops every scratch register.                *)
(*                                                                         *)
(* This is the debug build (build.bat debug), whose Asserts stop it.       *)
(*                                                                         *)
(* A definition that is only a faulty variant of the next one is named for *)
(* its fault; it shows that a property notices that fault.                 *)
(***************************************************************************)
EXTENDS Integers, Sequences

CONSTANTS NREG,        \* scratch registers: bl/rbx, r10 .. r15
          Volatile,    \* those an external function may destroy: r10, r11
          FreedAll,    \* how many scratch_free_all frees
          ArgBuffer,   \* the size of EXPR_CALL's buffer of argument registers
          MaxFrames,   \* bound: nesting of operators and calls
          MaxArgs      \* bound: arguments of a call

ASSUME NREGAssumption == NREG \in Nat \ {0}
ASSUME VolatileAssumption == Volatile \subseteq 0..(NREG - 1)
ASSUME FreedAllAssumption == FreedAll \in 1..NREG
ASSUME ArgBufferAssumption == ArgBuffer \in Nat /\ ArgBuffer >= NREG
ASSUME BoundsAssumption == MaxFrames \in Nat /\ MaxArgs \in Nat

VARIABLES tbl,      \* scratch_reg_tbl: the registers marked as in use
          ops,      \* the evaluated operands, outermost first
          frames,   \* the nodes whose operands are being evaluated
          stmt,     \* the statement that uses the expression
          pc

vars == <<tbl, ops, frames, stmt, pc>>

Regs == 0..(NREG - 1)
Operand == [reg : Regs, intact : BOOLEAN]
Frame == [kind : {"inplace", "fresh", "through", "call", "extern"},
          arity : Nat,
          base : Nat]           \* operands that were there before the node's
StmtKinds == {"decl", "condition", "return", "expr"}

\* scratch_alloc takes the first register that is not marked.
Free == {r \in Regs : ~tbl[r]}
FirstFree(t) == CHOOSE r \in Regs : ~t[r] /\ \A q \in Regs : q < r => t[q]
Mark(t, r) == [t EXCEPT ![r] = TRUE]
Unmark(t, S) == [r \in Regs |-> t[r] /\ r \notin S]

\* Running code that writes the registers in S: operands held there are lost.
Overwrite(s, S) == [a \in 1..Len(s) |-> [s[a] EXCEPT !.intact = @ /\ s[a].reg \notin S]]

\* A node's value, in register r, takes the place of its operands.
PushValue(s, r) == Append(Overwrite(s, {r}), [reg |-> r, intact |-> TRUE])

Top == frames[Len(frames)]
PopFrame == SubSeq(frames, 1, Len(frames) - 1)
Below == SubSeq(ops, 1, Top.base)                 \* not this node's operands
Args == (Top.base + 1)..Len(ops)                  \* this node's operands
ArgRegs == {ops[a].reg : a \in Args}

Init == /\ tbl = [r \in Regs |-> FALSE]
        /\ ops = <<>>
        /\ frames = <<>>
        /\ stmt = "none"
        /\ pc = "idle"

-----------------------------------------------------------------------------
(* stmt_gen *)

\* STMT_FUNCTION_DECL: scratch_free_all, before the statements of the body
NextFunctionFromOne ==
    /\ pc \in {"idle", "function"}
    /\ tbl' = Unmark(tbl, 1..FreedAll)
    /\ pc' = "function"
    /\ UNCHANGED <<ops, frames, stmt>>

NextFunction ==
    /\ pc \in {"idle", "function"}
    /\ tbl' = Unmark(tbl, 0..(FreedAll - 1))
    /\ pc' = "function"
    /\ UNCHANGED <<ops, frames, stmt>>

StartStmt(k) ==
    /\ pc \in {"idle", "function"}
    /\ stmt' = k
    /\ pc' = "eval"
    /\ UNCHANGED <<tbl, ops, frames>>

\* An initializer, a condition and a returned value are freed.  The value of
\* an expression statement is freed unless it is in the register numbered 0,
\* and a call of a void function has none.
FinishStmtKeepingDecl ==
    /\ pc = "value"
    /\ frames = <<>>
    /\ ops = <<>> => stmt = "expr"
    /\ tbl' = CASE ops = <<>> \/ stmt = "decl" -> tbl
                [] ops # <<>> /\ stmt = "expr" -> Unmark(tbl, {r \in {ops[1].reg} : r > 0})
                [] OTHER -> Unmark(tbl, {ops[1].reg})
    /\ ops' = <<>>
    /\ stmt' = "none"
    /\ pc' = "idle"
    /\ UNCHANGED frames

FinishStmt ==
    /\ pc = "value"
    /\ frames = <<>>
    /\ ops = <<>> => stmt = "expr"
    /\ tbl' = CASE ops = <<>> -> tbl
                [] ops # <<>> /\ stmt = "expr" -> Unmark(tbl, {r \in {ops[1].reg} : r > 0})
                [] OTHER -> Unmark(tbl, {ops[1].reg})
    /\ ops' = <<>>
    /\ stmt' = "none"
    /\ pc' = "idle"
    /\ UNCHANGED frames

\* Sema lets a void call be returned, and reports one used as a condition but
\* goes on: its register has no size, and the Assert of scratch_name stops.
VoidUsed ==
    /\ pc = "value"
    /\ frames = <<>>
    /\ ops = <<>> /\ stmt # "expr"
    /\ pc' = "nameless"
    /\ UNCHANGED <<tbl, ops, frames, stmt>>

-----------------------------------------------------------------------------
(* expr_gen *)

\* The Assert of scratch_alloc stops the compiler.
Abort == /\ Free = {}
         /\ pc' = "abort"
         /\ UNCHANGED <<tbl, ops, frames, stmt>>

\* EXPR_LITERAL and EXPR_LVAR
LeafUnmarked ==
    /\ pc = "eval"
    /\ Free # {}
    /\ ops' = PushValue(ops, FirstFree(tbl))
    /\ pc' = "value"
    /\ UNCHANGED <<tbl, frames, stmt>>

Leaf ==
    /\ pc = "eval"
    /\ Free # {}
    /\ tbl' = Mark(tbl, FirstFree(tbl))
    /\ ops' = PushValue(ops, FirstFree(tbl))
    /\ pc' = "value"
    /\ UNCHANGED <<frames, stmt>>

LeafAborts == pc = "eval" /\ Abort

\* EXPR_BINARY, EXPR_UNARY, EXPR_ASSIGN and EXPR_CALL generate their operands
\* first, from left to right.
Enter(kind, arity) ==
    /\ pc = "eval"
    /\ Len(frames) < MaxFrames
    /\ frames' = Append(frames, [kind |-> kind, arity |-> arity, base |-> Len(ops)])
    /\ pc' = IF arity = 0 THEN "apply" ELSE "eval"
    /\ UNCHANGED <<tbl, ops, stmt>>

EnterBinary == \E kind \in {"inplace", "fresh"} : Enter(kind, 2)
EnterUnary == Enter("through", 1)
EnterCall == \E kind \in {"call", "extern"}, n \in 0..MaxArgs : Enter(kind, n)

\* An operand is ready: generate the next one, or the node itself.
OperandReady ==
    /\ pc = "value"
    /\ frames # <<>>
    /\ pc' = IF Len(ops) < Top.base + Top.arity THEN "eval" ELSE "apply"
    /\ UNCHANGED <<tbl, ops, frames, stmt>>

\* + - & | ^ && ||: the left operand's register takes the result, the right
\* one is freed.
ApplyInPlaceFreesLeft ==
    /\ pc = "apply" /\ Top.kind = "inplace"
    /\ tbl' = Unmark(tbl, {ops[Top.base + 1].reg})
    /\ ops' = PushValue(Below, ops[Top.base + 1].reg)
    /\ frames' = PopFrame
    /\ pc' = "value"
    /\ UNCHANGED stmt

ApplyInPlace ==
    /\ pc = "apply" /\ Top.kind = "inplace"
    /\ tbl' = Unmark(tbl, {ops[Len(ops)].reg})
    /\ ops' = PushValue(Below, ops[Top.base + 1].reg)
    /\ frames' = PopFrame
    /\ pc' = "value"
    /\ UNCHANGED stmt

\* * / % and the comparisons: the result's register is allocated before the
\* operands' registers are freed.
ApplyFreshFreesRight ==
    /\ pc = "apply" /\ Top.kind = "fresh"
    /\ Free # {}
    /\ tbl' = Unmark(Mark(tbl, FirstFree(tbl)), {ops[Len(ops)].reg})
    /\ ops' = PushValue(Below, FirstFree(tbl))
    /\ frames' = PopFrame
    /\ pc' = "value"
    /\ UNCHANGED stmt

ApplyFresh ==
    /\ pc = "apply" /\ Top.kind = "fresh"
    /\ Free # {}
    /\ tbl' = Unmark(Mark(tbl, FirstFree(tbl)), ArgRegs)
    /\ ops' = PushValue(Below, FirstFree(tbl))
    /\ frames' = PopFrame
    /\ pc' = "value"
    /\ UNCHANGED stmt

ApplyFreshAborts == pc = "apply" /\ Top.kind = "fresh" /\ Abort

\* Negation, not, casts and assignment keep the operand's register.
ApplyThroughFreeing ==
    /\ pc = "apply" /\ Top.kind = "through"
    /\ tbl' = Unmark(tbl, ArgRegs)
    /\ ops' = PushValue(Below, ops[Len(ops)].reg)
    /\ frames' = PopFrame
    /\ pc' = "value"
    /\ UNCHANGED stmt

ApplyThrough ==
    /\ pc = "apply" /\ Top.kind = "through"
    /\ ops' = PushValue(Below, ops[Len(ops)].reg)
    /\ frames' = PopFrame
    /\ pc' = "value"
    /\ UNCHANGED <<tbl, stmt>>

\* The call: the arguments' registers are freed once moved; then the callee
\* runs.
Callee == IF Top.kind = "extern" THEN Volatile ELSE {}
AfterArgs == Unmark(tbl, ArgRegs)

\* A result is moved from rax to a fresh register.
ApplyCall ==
    /\ pc = "apply" /\ Top.kind \in {"call", "extern"}
    /\ \E r \in Regs : ~AfterArgs[r]
    /\ tbl' = Mark(AfterArgs, FirstFree(AfterArgs))
    /\ ops' = PushValue(Overwrite(Below, Callee), FirstFree(AfterArgs))
    /\ frames' = PopFrame
    /\ pc' = "value"
    /\ UNCHANGED stmt

ApplyCallAborts ==
    /\ pc = "apply" /\ Top.kind \in {"call", "extern"}
    /\ \A r \in Regs : AfterArgs[r]
    /\ pc' = "abort"
    /\ UNCHANGED <<tbl, ops, frames, stmt>>

\* A void function has no result.  Sema rejects its call as an operand, an
\* argument or an initializer.
ApplyVoidCall ==
    /\ pc = "apply" /\ Top.kind \in {"call", "extern"}
    /\ Len(frames) = 1 /\ stmt # "decl"
    /\ tbl' = AfterArgs
    /\ ops' = Overwrite(Below, Callee)
    /\ frames' = PopFrame
    /\ pc' = "value"
    /\ UNCHANGED stmt

-----------------------------------------------------------------------------

Statements == NextFunction \/ (\E k \in StmtKinds : StartStmt(k)) \/ FinishStmt
                \/ VoidUsed
Visit == Leaf \/ EnterBinary \/ EnterUnary \/ EnterCall \/ OperandReady
Apply == ApplyInPlace \/ ApplyFresh \/ ApplyThrough \/ ApplyCall \/ ApplyVoidCall
Aborts == LeafAborts \/ ApplyFreshAborts \/ ApplyCallAborts

Next == Statements \/ Visit \/ Apply \/ Aborts

Spec == Init /\ [][Next]_vars

-----------------------------------------------------------------------------
(* Properties *)

TypeOK ==
    /\ tbl \in [Regs -> BOOLEAN]
    /\ ops \in Seq(Operand)
    /\ frames \in Seq(Frame)
    /\ stmt \in StmtKinds \union {"none"}
    /\ pc \in {"idle", "function", "eval", "value", "apply", "abort", "nameless"}

\* No two operands that are still to be used share a register, and each is
\* marked, so that no allocation can hand its register out again.
OperandsApart ==
    /\ \A a, b \in 1..Len(ops) : a # b => ops[a].reg # ops[b].reg
    /\ \A a \in 1..Len(ops) : tbl[ops[a].reg]

\* Code generated for a later operand never overwrites an earlier one: the
\* only operands lost are those a call of an external function destroys.
OperandsSurvive ==
    \A a \in 1..Len(ops) : ops[a].intact \/ ops[a].reg \in Volatile

\* The registers marked are those of live operands, and register 0, whose
\* number makes an expression statement keep it.
OnlyFirstLeaks ==
    \A r \in Regs : tbl[r] => r = 0 \/ \E a \in 1..Len(ops) : ops[a].reg = r

\* The compiler runs out of registers only when every register, but for the
\* leaked one, holds an operand that is still to be used.
AbortOnlyWhenFull == pc = "abort" => Len(ops) >= NREG - 1

\* EXPR_CALL never writes past its buffer of argument registers, whatever
\* the number of arguments: the compiler runs out of registers before.
ArgsFitBuffer ==
    pc = "apply" /\ Top.kind \in {"call", "extern"} => Top.arity <= ArgBuffer

\* A new function starts with every register free, although scratch_free_all
\* only frees the first FreedAll of them.
FunctionsStartFree ==
    [][pc' = "function" => \A r \in Regs : ~tbl'[r]]_vars
=============================================================================
