-------------------------------- MODULE Sema --------------------------------
(***************************************************************************)
(* The types of expressions: sema_expr (src/src/sema.c) gives every node   *)
(* of a statement's expression a type, sema_statement takes the statement  *)
(* or refuses it, and expr_gen (src/src/x86_asm.c) chooses the registers'  *)
(* sizes by the types it finds on the nodes.                               *)
(*                                                                         *)
(* An action is the return of one call of sema_expr, so that an expression *)
(* is built bottom-up, in the order of the calls.  A type is the sequence  *)
(* of its kinds, <<"pointer", "s8">>; the type NULL is the empty one.      *)
(* Statements have parsed without an error; names are looked up in module  *)
(* Scopes, blocks are measured in module Frame, and a function's name is   *)
(* only used to call it.  This is the debug build.                         *)
(*                                                                         *)
(* What the code generator and the reference say of an expression depends  *)
(* on its operands only by what they say of those, so each node keeps it   *)
(* (register and judged); the variable operands remembers all operands.    *)
(* No action looks at the three but Generate at register.                  *)
(*                                                                         *)
(* A definition that is only a faulty variant of the next one is named for *)
(* its fault; it shows that a property notices that fault.                 *)
(***************************************************************************)
EXTENDS Integers, Sequences, SequencesExt

CONSTANTS LiteralTypes,   \* types of literals
          VarTypes,       \* types of the variables in scope
          TypeNames,      \* types that declarations and casts name
          Functions,      \* what may be called: parameters and returned type
          MaxNodes        \* bound: nodes of an expression

VARIABLES nodes,      \* the results of the calls of sema_expr not yet used
          made,       \* how many nodes there have been
          reported,   \* whether an error was reported
          operands,   \* all nodes that are operands of others
          statement,  \* the statement, when it has ended
          verdict,    \* "none", "accepted", "rejected", or "crash"
          code        \* what the code generator did

semaVars == <<nodes, made, reported, operands, statement, verdict, code>>

NULL == <<>>
S64 == <<"s64">>
Bool == <<"bool">>
Unknown == <<"unknown">>
Void == <<"void">>

Sizes == [s8 |-> 1, s16 |-> 2, s32 |-> 4, s64 |-> 8, u8 |-> 1, u16 |-> 2, u32 |-> 4, u64 |-> 8,
          string |-> 8, bool |-> 8, pointer |-> 8]
Kinds == DOMAIN Sizes \union {"unknown", "void"}
Type == {t \in Seq(Kinds) : t # <<>> /\ \A i \in 1..Len(t) : t[i] = "pointer" <=> i < Len(t)}

Signed == {"s8", "s16", "s32", "s64"}
Unsigned == {"u8", "u16", "u32", "u64"}

IsSigned(t) == Head(t) \in Signed
IsUnsigned(t) == Head(t) \in Unsigned
IsInteger(t) == IsSigned(t) \/ IsUnsigned(t)
IsPointer(t) == Head(t) = "pointer"
SameSign(t1, t2) == (IsSigned(t1) /\ IsSigned(t2)) \/ (IsUnsigned(t1) /\ IsUnsigned(t2))

\* get_type_size, which stops the program for the other types.
HasSize(t) == t = NULL \/ Head(t) \in DOMAIN Sizes
SizeOf(t) == IF t = NULL THEN 0 ELSE Sizes[Head(t)]

ASSUME TypesAssumption == LiteralTypes \union VarTypes \union TypeNames \subseteq Type
ASSUME FunctionsAssumption == Functions \subseteq [params : Seq(Type), returns : Type]
ASSUME NodesAssumption == MaxNodes \in Nat

-----------------------------------------------------------------------------
(* The rules of each kind of expression: what is stored as the node's type, *)
(* what is returned, and whether an error is reported                      *)

Result(type, gives, error) == [type |-> type, gives |-> gives, error |-> error]
Clean(t) == Result(t, t, FALSE)
Failure(error) == Result(NULL, NULL, error)

Wider(t1, t2) == IF SizeOf(t1) > SizeOf(t2) THEN t1 ELSE t2

ImplicitCastOfIntegers(t1, t2) == IF SameSign(t1, t2) THEN Wider(t1, t2) ELSE NULL

ImplicitCastToSecond(t1, t2) ==
    CASE SameSign(t1, t2) \/ (t1 = Bool /\ t2 = Bool) -> t2
      [] IsPointer(t1) /\ t2 = Unknown -> t1
      [] t1 = Unknown /\ IsPointer(t2) -> t2
      [] OTHER -> NULL

ImplicitCast(t1, t2) ==
    CASE SameSign(t1, t2) -> Wider(t1, t2)
      [] t1 = Bool /\ t2 = Bool -> t1
      [] IsPointer(t1) /\ t2 = Unknown -> t1
      [] t1 = Unknown /\ IsPointer(t2) -> t2
      [] OTHER -> NULL

\* Equal types that are not cast implicitly give NULL without an error.
Assigned(to, from) ==
    LET t == ImplicitCast(to, from)
    IN  IF t # NULL THEN Clean(t) ELSE Failure(to # from)

\* The type to which the operands of a binary operation are converted.
Common(right, left) ==
    LET t == ImplicitCast(right, left)
    IN  IF t = NULL /\ right = left THEN right ELSE t

Operators == {"+", "-", "*", "&", "&&", "<"}

CombinedUntyped(op, right, left) ==
    LET t == Common(right, left)
    IN  IF t = NULL \/ ~(IsInteger(t) \/ t = Bool \/ IsPointer(t)) THEN Failure(TRUE)
        ELSE CASE op = "&"  -> Result(t, t, ~IsInteger(t))
               [] op = "&&" -> Result(t, t, t # Bool)
               [] op = "<"  -> Result(NULL, Bool, FALSE)
               [] op = "-" /\ IsPointer(right) /\ IsPointer(left) -> Clean(S64)
               [] op = "+" /\ IsPointer(right) /\ IsPointer(left) -> Result(t, t, TRUE)
               [] OTHER -> Clean(t)

\* One operator stands for those of its kind: "*" for / and %, "&" for | and ^,
\* "&&" for ||, and "<" for the comparisons.
Combined(op, right, left) ==
    LET t == Common(right, left)
    IN  IF t = NULL \/ ~(IsInteger(t) \/ t = Bool \/ IsPointer(t)) THEN Failure(TRUE)
        ELSE CASE op = "&"  -> Result(t, t, ~IsInteger(t))
               [] op = "&&" -> Result(t, t, t # Bool)
               [] op = "<"  -> Result(t, Bool, FALSE)
               [] op = "-" /\ IsPointer(right) /\ IsPointer(left) -> Clean(S64)
               [] op = "+" /\ IsPointer(right) /\ IsPointer(left) -> Result(t, t, TRUE)
               [] OTHER -> Clean(t)

Unary == {<<"neg">>, <<"not">>} \union {<<"cast", t>> : t \in TypeNames}

\* The negation of a boolean is returned, and not stored.
Applied(op, right) ==
    CASE op[1] = "neg" /\ IsInteger(right) -> Clean(right)
      [] op[1] = "not" /\ right = Bool -> Result(NULL, Bool, FALSE)
      [] op[1] = "cast" /\ (IsInteger(right) \/ right = Bool \/ IsPointer(right)) ->
           Clean(op[2])
      [] OTHER -> Failure(TRUE)

\* What a call returns is not stored either; the arguments are not converted.
Called(f, given, args) ==
    IF given = Len(f.params) /\ args = f.params
      THEN Result(NULL, f.returns, FALSE)
      ELSE Failure(TRUE)

-----------------------------------------------------------------------------
(* expr_gen: the size of the register that an expression is left in, and   *)
(* whether the generator stops ("stop") or gives an instruction operands   *)
(* of different sizes ("mixed")                                            *)

Register(size) == [size |-> size, fault |-> "none"]
Stop == [size |-> 0, fault |-> "stop"]
Mixed(size) == [size |-> size, fault |-> "mixed"]

Worse(args) == IF \E i \in DOMAIN args : args[i].register.fault = "stop" THEN "stop" ELSE "mixed"

\* A register whose size is not the operation's is cast by the sign of its
\* operand's type, which must be there; products are signed as the left operand.
Cast(size, arg) == size = arg.register.size \/ arg.type # NULL
SignKnown(n) == n.op[1] = "*" => n.args[2].type # NULL

\* what a node makes of its operands' registers
Operation(n) ==
    LET size == SizeOf(n.type)
    IN  CASE n.kind \in {"literal", "lvar"} -> IF size = 0 THEN Stop ELSE Register(size)
          [] n.kind = "binary" ->
               IF size = 0 \/ ~SignKnown(n) \/ \E i \in {1, 2} : ~Cast(size, n.args[i])
                 THEN Stop
                 ELSE IF n.op[1] = "<" /\ size # 8 THEN Mixed(size) ELSE Register(size)
          [] n.kind = "assign" ->
               IF n.args[1].kind # "lvar" \/ n.args[2].register.size = 0
                 THEN Stop
                 ELSE Register(n.args[2].register.size)
          [] n.kind = "unary" ->
               Register(IF n.op[1] \in {"neg", "not"} THEN n.args[1].register.size ELSE size)
          [] n.kind = "call" -> Register(IF n.op[2].returns = Void THEN 0 ELSE 8)

Gen(n) ==
    LET used == IF n.kind = "assign" THEN {2} ELSE DOMAIN n.args
    IN  IF ~HasSize(n.type) THEN Stop
        ELSE IF \E i \in used : n.args[i].register.fault # "none"
               THEN [Operation(n) EXCEPT !.fault = Worse(n.args)]
               ELSE Operation(n)

-----------------------------------------------------------------------------
(* A reference: the types are ordered by what can be converted to what, and *)
(* operands meet in the greatest of their types                            *)

Converts(s, t) == \/ s = t
                  \/ s # NULL /\ t # NULL /\ SameSign(s, t) /\ SizeOf(s) <= SizeOf(t)
                  \/ s = Unknown /\ t # NULL /\ IsPointer(t)

Greatest(types) == IF \E t \in types : \A s \in types : Converts(s, t)
                     THEN CHOOSE t \in types : \A s \in types : Converts(s, t)
                     ELSE NULL

Number(t) == t # NULL /\ IsInteger(t)
Pointer(t) == t # NULL /\ IsPointer(t)
Scalar(t) == Number(t) \/ Pointer(t) \/ t = Bool

Judge(n) ==
    LET args == [i \in DOMAIN n.args |-> n.args[i].judged]
        t == Greatest({args[i] : i \in DOMAIN args})
        pointers == \A i \in DOMAIN args : Pointer(args[i])
        binary == CASE n.op[1] = "&"  -> IF Number(t) THEN t ELSE NULL
                    [] n.op[1] = "&&" -> IF t = Bool THEN t ELSE NULL
                    [] n.op[1] = "<"  -> IF Scalar(t) THEN Bool ELSE NULL
                    [] n.op[1] \in {"+", "-"} /\ pointers ->
                         IF n.op[1] = "-" /\ t # NULL THEN S64 ELSE NULL
                    [] OTHER       -> IF Scalar(t) THEN t ELSE NULL
        unary == CASE n.op[1] = "neg" -> IF Number(t) THEN t ELSE NULL
                   [] n.op[1] = "not" -> IF t = Bool THEN t ELSE NULL
                   [] OTHER        -> IF Scalar(t) THEN n.op[2] ELSE NULL
    IN  CASE n.kind \in {"literal", "lvar"} -> n.gives
          [] n.kind = "assign" -> t
          [] n.kind = "binary" -> binary
          [] n.kind = "unary"  -> unary
          [] n.kind = "call"   ->
               IF n.op[3] = Len(args) /\ args = n.op[2].params THEN n.op[2].returns ELSE NULL

-----------------------------------------------------------------------------
(* sema_expr *)

Node(kind, op, args, result) ==
    LET n == [kind |-> kind, op |-> op, args |-> args,
              type |-> result.type, gives |-> result.gives]
    IN  [kind |-> kind, op |-> op, args |-> args, type |-> result.type, gives |-> result.gives,
         register |-> Gen(n), judged |-> Judge(n)]

\* A variable that sema_expr was not called for.
Skipped == Node("lvar", <<>>, <<>>, Failure(FALSE))

Failed == nodes # <<>> /\ nodes[Len(nodes)].gives = NULL
Newest(n) == SubSeq(nodes, Len(nodes) - n + 1, Len(nodes))

\* A call of sema_expr returns, having used the last n results.
Return(n, kind, op, args, result) ==
    /\ verdict = "none" /\ made < MaxNodes
    /\ nodes' = Append(SubSeq(nodes, 1, Len(nodes) - n), Node(kind, op, args, result))
    /\ made' = made + 1
    /\ reported' = (reported \/ result.error)
    /\ operands' = operands \union Range(args)
    /\ UNCHANGED <<statement, verdict, code>>

Crash(error) == /\ verdict = "none"
                /\ verdict' = "crash"
                /\ reported' = (reported \/ error)
                /\ UNCHANGED <<nodes, made, operands, statement, code>>

Literal == /\ ~Failed
           /\ \E t \in LiteralTypes : Return(0, "literal", <<>>, <<>>, Clean(t))

Lvar == /\ ~Failed
        /\ \/ \E t \in VarTypes : Return(0, "lvar", <<>>, <<>>, Clean(t))
           \/ Return(0, "lvar", <<>>, <<>>, Failure(TRUE))

\* A first operand that fails is returned before the second is looked at.
FirstFails(kind, op) ==
    /\ Failed
    /\ Return(1, kind, op, <<nodes[Len(nodes)], Skipped>>, Failure(FALSE))

SecondFails(kind, op) ==
    /\ Failed /\ Len(nodes) >= 2
    /\ Return(2, kind, op, Newest(2), Failure(FALSE))

\* The variable comes first, and may be any expression.
Assign == \/ FirstFails("assign", <<>>) \/ SecondFails("assign", <<>>)
          \/ /\ ~Failed /\ Len(nodes) >= 2
             /\ Return(2, "assign", <<>>, Newest(2),
                       Assigned(Newest(2)[1].gives, Newest(2)[2].gives))

\* The right operand comes first.
Binary ==
    \E op \in Operators :
      \/ FirstFails("binary", <<op>>) \/ SecondFails("binary", <<op>>)
      \/ /\ ~Failed /\ Len(nodes) >= 2
         /\ Return(2, "binary", <<op>>, Newest(2),
                   Combined(op, Newest(2)[1].gives, Newest(2)[2].gives))

\* The operand's type is looked at even if it is NULL.
UnaryOp == /\ nodes # <<>>
           /\ IF Failed
                THEN Crash(FALSE)
                ELSE \E op \in Unary :
                       Return(1, "unary", op, Newest(1), Applied(op, nodes[Len(nodes)].gives))

\* A wrong number of arguments is reported first.  Arguments without a
\* parameter are not looked at; one that failed is.
Call == \E f \in Functions, given \in 0..3 :
          LET n == IF given < Len(f.params) THEN given ELSE Len(f.params)
              args == Newest(n)
          IN  /\ given <= Len(f.params) + 1 /\ Len(nodes) >= n
              /\ IF n > 0 /\ Failed
                   THEN Crash(given # Len(f.params))
                   ELSE /\ ~Failed
                        /\ Return(n, "call", <<"call", f, given>>, args,
                                  Called(f, given, [i \in 1..n |-> args[i].gives]))

\* A function that is not there is reported, and its type looked at.
CallOfNone == ~Failed /\ Crash(TRUE)

-----------------------------------------------------------------------------
(* sema_statement *)

NoStmt == [kind |-> "none", type |-> NULL, init |-> <<>>]

End(kind, t, init, accepted, error) ==
    /\ verdict = "none" /\ Len(nodes) = Len(init)
    /\ statement' = [kind |-> kind, type |-> t, init |-> init]
    /\ verdict' = IF accepted THEN "accepted" ELSE "rejected"
    /\ reported' = (reported \/ error)
    /\ nodes' = <<>>
    /\ UNCHANGED <<made, operands, code>>

ExprStmt == Len(nodes) = 1 /\ \E kind \in {"expr", "return"} : End(kind, NULL, nodes, ~Failed, FALSE)

\* A condition that is not a boolean is reported, and accepted.
Condition == /\ Len(nodes) = 1
             /\ End("condition", NULL, nodes, ~Failed, ~Failed /\ nodes[Len(nodes)].gives # Bool)

\* An initializer whose analysis failed is taken for none.
DeclBare(t) == /\ nodes = <<>> \/ (Failed /\ Len(nodes) = 1)
               /\ IF t = Void THEN End("decl", t, nodes, FALSE, TRUE)
                              ELSE End("decl", t, nodes, TRUE, FALSE)

RetypedIfEqual(t) ==
    IF IsInteger(t) /\ nodes[1].gives # t THEN nodes ELSE [nodes EXCEPT ![1].type = t]

Retyped(t) == [nodes EXCEPT ![1].type = t]

\* Any integer fits into any integer.
Fits(given, t) == \/ given = t
                  \/ given = Unknown /\ IsPointer(t)
                  \/ IsInteger(given) /\ IsInteger(t)

DeclInit(t) ==
    /\ Len(nodes) = 1 /\ ~Failed
    /\ IF t # Void /\ Fits(nodes[1].gives, t)
         THEN End("decl", t, Retyped(t), TRUE, FALSE)
         ELSE End("decl", t, nodes, FALSE, TRUE)

VarDecl == \E t \in TypeNames : DeclBare(t) \/ DeclInit(t)

-----------------------------------------------------------------------------
(* stmt_gen                                                                *)

\* A declaration without an initializer stores a zero of eight bytes.
Generate ==
    /\ verdict = "accepted" /\ code = Register(0)
    /\ code' = IF statement.init = <<>>
                 THEN Register(8)
                 ELSE LET reg == Gen(statement.init[1])
                      IN  IF reg.size = 0 /\ statement.kind # "expr" THEN Stop ELSE reg
    /\ verdict' = "generated"
    /\ UNCHANGED <<nodes, made, reported, operands, statement>>

SemaInit == /\ nodes = <<>> /\ made = 0 /\ reported = FALSE /\ operands = {}
            /\ statement = NoStmt /\ verdict = "none" /\ code = Register(0)

SemaNext == \/ Literal \/ Lvar \/ Assign \/ Binary \/ UnaryOp \/ Call \/ CallOfNone
            \/ ExprStmt \/ Condition \/ VarDecl
            \/ Generate

SemaSpec == SemaInit /\ [][SemaNext]_semaVars

-----------------------------------------------------------------------------
(* Properties *)

SemaTypeOK ==
    /\ \A i \in DOMAIN nodes :
         /\ {"kind", "op", "args", "type", "gives", "register", "judged"} = DOMAIN nodes[i]
         /\ i < Len(nodes) => nodes[i].gives # NULL
    /\ made \in 0..MaxNodes /\ reported \in BOOLEAN
    /\ statement.kind \in {"none", "expr", "return", "condition", "decl"} /\ Len(statement.init) <= 1
    /\ verdict \in {"none", "accepted", "rejected", "crash", "generated"}
    /\ code \in [size : {0, 1, 2, 4, 8}, fault : {"none", "stop", "mixed"}]

\* all nodes of the statement
InStatement == operands \union Range(statement.init)

\* As long as no error is reported, every type that sema_expr returns is the
\* one the order of the types gives, however deep the conversions; and an
\* error is reported only for an expression that has no type (sema.c:227-519).
\* The variables keep their types.
WellTyped ==
    /\ SemaTypeOK
    /\ ~reported => \A i \in DOMAIN nodes :
                      nodes[i].gives # NULL => nodes[i].gives = nodes[i].judged
    /\ reported /\ verdict = "none" => \E i \in DOMAIN nodes : nodes[i].judged = NULL

\* An error that is reported and does not fail the operation.
Misused(n) == /\ n.kind = "binary" /\ n.gives # NULL
              /\ \/ n.op[1] = "&" /\ ~IsInteger(n.gives)
                 \/ n.op[1] = "&&" /\ n.gives # Bool
                 \/ n.op[1] = "+" /\ IsPointer(n.gives)

\* A statement is refused exactly if an error was reported for it, but that
\* bitwise and logical operations, sums of pointers, conditions and failed
\* initializers pass with their errors (sema.c:347, 365, 378, 609, 673), and
\* an assignment between equal strings or pointers is refused without a word
\* (sema.c:303).
VerdictFollowsErrors ==
    /\ verdict \in {"accepted", "generated"} /\ reported =>
         \/ \E n \in InStatement : Misused(n)
         \/ statement.kind = "condition" /\ statement.init[1].gives # Bool
         \/ statement.kind = "decl" /\ statement.init # <<>> /\ statement.init[1].gives = NULL
    /\ verdict = "rejected" /\ ~reported =>
         \E n \in InStatement :
           /\ n.kind = "assign" /\ n.args[1].gives = n.args[2].gives
           /\ ~Number(n.args[1].gives) /\ n.args[1].gives # Bool

\* What a declaration stores has the variable's size, whatever the sizes in
\* its initializer, if that ends in a literal, a variable, a binary operation
\* or a cast (sema.c:633, 650; x86_asm.c:203-242, 427): a narrower integer
\* is not written over its neighbour.
InitializerFits ==
    verdict = "generated" /\ ~reported /\ statement.kind = "decl" =>
      \A i \in DOMAIN statement.init :
        LET n == statement.init[i]
        IN  n.gives # NULL /\ code.fault # "stop"
            /\ (n.kind \in {"literal", "lvar", "binary"} \/ (n.kind = "unary" /\ n.op[1] = "cast"))
              => code.size = SizeOf(statement.type)

\* What the code generator is not prepared for.
Unprepared(n) ==
    \/ n.gives = NULL
    \/ n.type = Unknown
    \/ n.type = Void
    \/ n.kind = "assign" /\ n.args[1].kind # "lvar"
    \/ n.kind = "binary" /\ \E i \in DOMAIN n.args : n.args[i].type = NULL

\* An accepted statement without an error stops the code generator only for
\* nil outside an initializer, a cast to void, an assignment to what is no
\* variable, an operand that sema_expr leaves without a type (a call or a
\* negation), or a returned void; every other node has the type that
\* expr_gen asks for.  And only a comparison of narrow operands makes it mix
\* sizes in an instruction (x86_asm.c:197-442).
GeneratesIfClean ==
    verdict = "generated" /\ ~reported =>
      /\ code.fault = "stop" =>
           \/ \E n \in InStatement : Unprepared(n)
           \/ statement.kind = "return" /\ statement.init[1].gives = Void
      /\ code.fault = "mixed" =>
           \E n \in InStatement :
             n.kind = "binary" /\ n.op[1] = "<" /\ n.type # NULL /\ SizeOf(n.type) < 8
=============================================================================
