------------------------------- MODULE Parser -------------------------------
(***************************************************************************)
(* The parser of src/src/parser.c, a function per grammar rule.  A frame   *)
(* of "stack" is an activation of such a function and names the place it   *)
(* goes on from; ret is what the function called last has returned.        *)
(*                                                                         *)
(* Tokens are told apart as far as the parser does: "literal" stands for   *)
(* numbers, strings, true, false and nil, "type" for the type keywords,    *)
(* "op" for the operators that are binary only, "EOF" ends the stream.     *)
(* The levels of parse_logical to parse_factor differ in the operators     *)
(* they take, that is in the shape of the tree, and are one loop here.  Of *)
(* the tree only its holes are kept: a NULL where a rule wants a node.     *)
(*                                                                         *)
(* A definition that is only a faulty variant of the next one is named for *)
(* its fault; it shows that a property notices that fault.                 *)
(***************************************************************************)
EXTENDS Lexer

VARIABLES current,  \* tu->s->current, counted from 1
          stack,    \* the activations
          ret,      \* the value returned last
          scopes,   \* tu->scopes; a scope is known by its place, 0 is global
          symbols,  \* the functions entered, each with the scope it went to
          errors,   \* an error has been reported
          holes,    \* the tree has a hole
          parsing   \* "no" before, "yes" during, "done" or "crashed" after

parseVars == <<current, stack, ret, scopes, symbols, errors, holes, parsing>>

\* The parser's view of a token.
Class(k) ==
    CASE k = "identifier"                                             -> "id"
      [] k \in {"number", "quoted", "true", "false", "nil"}           -> "literal"
      [] k \in {"s8", "s16", "s32", "s64", "u8", "u16", "u32", "u64",
                "int", "void", "string", "bool"}                      -> "type"
      [] k \in {"+", "/", "%", "^", "&", "|", "&&", "||",
                ">", "<", ">=", "<=", "==", "!="}                     -> "op"
      [] OTHER                                                        -> k

\* tu->s->s
tokens == [i \in 1..Len(s) |-> Class(s[i].kind)]

\* What binds two operands, and what is a token of one or two characters.
Binary == {"op", "-", "*"}
Punctuation == {":", "::", "(", ")", ",", "->", "{", "}", ";", "=", "op", "-", "*", "!"}

None == "none"
NULL == "NULL"
Declarations == {"variable", "function"}

-----------------------------------------------------------------------------
(* Tokens *)

Tok == tokens[current]
Next1 == tokens[current + 1]
Previous == tokens[current - 1]
AtEnd(k) == tokens[k] = "EOF"

\* The place after advance, and after consume, which stays at another token.
Advanced(k) == IF AtEnd(k) THEN k ELSE k + 1
Consumed(k, kind) == IF tokens[k] = kind THEN k + 1 ELSE k
Missing(k, kind) == tokens[k] # kind

\* parse_syncronize
Resume == {"if", "else", "while", "return"}
Synchronised(k) ==
    Min({j \in Advanced(k)..Len(tokens) :
           AtEnd(j) \/ tokens[j - 1] = ";" \/ tokens[j] \in Resume})

-----------------------------------------------------------------------------
(* Activations *)

Frame(at, n) == [at |-> at, n |-> n]
At(place) == parsing = "yes" /\ Last(stack).at = place
Here(place) == Frame(place, Last(stack).n)

\* The function calls another one, or goes on; it returns.
Call(frames) == stack' = Front(stack) \o frames
Return(value) == stack' = Front(stack) /\ ret' = value

Go(k) == current' = k
Stay == UNCHANGED current
Report(wrong) == errors' = (errors \/ wrong)
Hole == holes' = (holes \/ ret = NULL)

Expression == <<Frame("assign", 0), Frame("operator", 0), Frame("unary", 0)>>
Same == UNCHANGED <<scopes, symbols, parsing>>

ParseInit == /\ current = 1
             /\ stack = <<>>
             /\ ret = None
             /\ scopes = <<>>
             /\ symbols = {}
             /\ errors = FALSE
             /\ holes = FALSE
             /\ parsing = "no"

-----------------------------------------------------------------------------
(* Declarations *)

\* parse_translation_unit
Start == /\ parsing = "no"
         /\ parsing' = "yes"
         /\ scopes' = <<0>>
         /\ stack' = <<Frame("unit", 0)>>
         /\ UNCHANGED <<current, ret, symbols, errors, holes>>

Unit == /\ At("unit")
        /\ IF AtEnd(current)
             THEN parsing' = "done" /\ UNCHANGED stack
             ELSE Call(<<Frame("unit got", 0), Frame("decl", 0)>>) /\ UNCHANGED parsing
        /\ UNCHANGED <<current, ret, scopes, symbols, errors, holes>>

\* stmt->kind is read before anything else.
UnitGot == /\ At("unit got")
           /\ IF ret = NULL
                THEN parsing' = "crashed" /\ UNCHANGED <<stack, errors>>
                ELSE /\ Call(<<Frame("unit", 0)>>)
                     /\ Report(ret \notin Declarations)
                     /\ UNCHANGED parsing
           /\ UNCHANGED <<current, ret, scopes, symbols, holes>>

\* parse_decloration; an identifier that starts neither kind of declaration is
\* given back.
Decl ==
    /\ At("decl")
    /\ \/ /\ Tok = "id" /\ Next1 = ":"
          /\ Go(current + 2)
          /\ Call(<<Frame("var type", 0), Frame("type", 0)>>)
          /\ UNCHANGED errors
       \/ /\ Tok = "id" /\ Next1 = "::"
          /\ Go(Consumed(current + 2, "("))
          /\ Report(Missing(current + 2, "("))
          /\ Call(<<Frame("params", current)>>)
       \/ /\ ~(Tok = "id" /\ Next1 \in {":", "::"})
          /\ Call(<<Frame("decl got", 0), Frame("stmt", 0)>>)
          /\ UNCHANGED <<current, errors>>
    /\ UNCHANGED <<ret, holes>> /\ Same

DeclGot == /\ At("decl got")
           /\ IF ret = NULL THEN Go(Synchronised(current)) ELSE Stay
           /\ Return(ret)
           /\ UNCHANGED <<errors, holes>> /\ Same

\* The rest of a variable's or a parameter's declaration after its type.
Initialiser(place) ==
    /\ Hole
    /\ IF Tok = "="
         THEN Go(current + 1) /\ Call(<<Here(place), Frame("expr", 0)>>) /\ UNCHANGED ret
         ELSE Stay /\ Call(<<Here(place)>>) /\ ret' = None
    /\ UNCHANGED errors /\ Same

\* parse_variable_decloration
VarType == At("var type") /\ Initialiser("var end")

VarEnd == /\ At("var end")
          /\ Hole
          /\ Go(Consumed(current, ";"))
          /\ Report(Missing(current, ";"))
          /\ Return("variable")
          /\ Same

\* parse_function_decloration
Params == /\ At("params")
          /\ IF Tok = "id"
               THEN /\ Go(Consumed(current + 1, ":"))
                    /\ Report(Missing(current + 1, ":"))
                    /\ Call(<<Here("param type"), Frame("type", 0)>>)
               ELSE Call(<<Here("params end")>>) /\ UNCHANGED <<current, errors>>
          /\ UNCHANGED <<ret, holes>> /\ Same

ParamType == At("param type") /\ Initialiser("param end")

ParamEnd == /\ At("param end")
            /\ Hole
            /\ Go(Consumed(current, ","))
            /\ Call(<<Here(IF Tok = "," THEN "params" ELSE "params end")>>)
            /\ UNCHANGED <<ret, errors>> /\ Same

ParamsEnd == /\ At("params end")
             /\ LET k == Consumed(current, ")")
                IN  /\ Go(Consumed(k, "->"))
                    /\ Report(Missing(current, ")") \/ Missing(k, "->"))
             /\ Call(<<Here("func type"), Frame("type", 0)>>)
             /\ UNCHANGED <<ret, holes>> /\ Same

\* parse_scope_stmt begins by pushing its scope.
OpenScope(k, before) ==
    /\ Go(k)
    /\ scopes' = Append(scopes, k)
    /\ Call(before \o <<Frame("scope", k)>>)
    /\ UNCHANGED <<symbols, parsing>>

FuncType == /\ At("func type")
            /\ Hole
            /\ IF Tok = "{"
                 THEN OpenScope(current + 1, <<Here("func end")>>) /\ UNCHANGED <<ret, errors>>
                 ELSE /\ Go(Consumed(current, ";"))
                      /\ Report(Missing(current, ";"))
                      /\ Call(<<Here("func end")>>)
                      /\ ret' = None
                      /\ Same

\* The activations of parse_scope_stmt, and how many there are up to one.
IsScope(frame) == frame.at \in {"scope", "scope got"}
Open(frames) == {i \in 1..Len(frames) : IsScope(frames[i])}
Depth(frames, i) == Cardinality({j \in Open(frames) : j <= i})

\* The scope of the innermost one.
Home == IF Open(stack) = {} THEN 0 ELSE stack[Max(Open(stack))].n

\* The function is entered after its body, into the scope that is then the last.
\* "home" is the scope the declaration stands in, for the properties.
FuncEnd == /\ At("func end")
           /\ Hole
           /\ symbols' = symbols \union
                  {[decl |-> Last(stack).n, scope |-> Last(scopes), home |-> Home]}
           /\ Return("function")
           /\ UNCHANGED <<current, scopes, errors, parsing>>

\* parse_type; at the end of the stream advance answers the token before it.
TypeRead == IF AtEnd(current) THEN Previous ELSE Tok

TypeStar == /\ At("type") /\ TypeRead = "*"
            /\ Go(Advanced(current))
            /\ UNCHANGED <<stack, ret, errors, holes>> /\ Same

TypeName == /\ At("type") /\ TypeRead = "type"
            /\ Go(Advanced(current))
            /\ Return("type")
            /\ UNCHANGED <<errors, holes>> /\ Same

TypeNone == /\ At("type") /\ TypeRead \notin {"*", "type"}
            /\ Go(Advanced(current))
            /\ Report(TRUE)
            /\ Return(NULL)
            /\ UNCHANGED holes /\ Same

-----------------------------------------------------------------------------
(* Statements *)

PopScopeNever == UNCHANGED scopes

PopScopeAll == scopes' = <<0>>

PopScope == scopes' = Front(scopes)

\* A turn of the loop of parse_scope_stmt.
ScopeItem == /\ At("scope") /\ Tok \notin {"}", "EOF"}
             /\ Call(<<Here("scope got"), Frame("decl", 0)>>)
             /\ UNCHANGED <<current, ret, errors, holes>> /\ Same

ScopeGot == /\ At("scope got")
            /\ Hole
            /\ Call(<<Here("scope")>>)
            /\ UNCHANGED <<current, ret, errors>> /\ Same

ScopeClose == /\ At("scope") /\ Tok = "}"
              /\ Go(current + 1)
              /\ PopScope
              /\ Return("scope")
              /\ UNCHANGED <<symbols, errors, holes, parsing>>

\* The scope stays on tu->scopes.
ScopeCutOff == /\ At("scope") /\ AtEnd(current)
               /\ Report(TRUE)
               /\ Return(NULL)
               /\ UNCHANGED <<current, holes>> /\ Same

\* parse_statement
Statement ==
    /\ At("stmt")
    /\ \/ /\ Tok \in {"return", "if", "while"}
          /\ Go(current + 1)
          /\ Call(<<Frame(Tok, 0), Frame("expr", 0)>>)
          /\ Same
       \/ /\ Tok = "{"
          /\ OpenScope(current + 1, <<>>)
       \/ /\ Tok \notin {"return", "if", "while", "{"}
          /\ Stay
          /\ Call(<<Frame("expr stmt", 0), Frame("expr", 0)>>)
          /\ Same
    /\ UNCHANGED <<ret, errors, holes>>

\* parse_return_stmt, parse_expr_stmt
ExprEnd == /\ At("return") \/ At("expr stmt")
           /\ Hole
           /\ Go(Consumed(current, ";"))
           /\ Report(Missing(current, ";"))
           /\ Return("statement")
           /\ Same

\* parse_if_stmt, parse_while_stmt
Body(place, then) ==
    /\ At(place)
    /\ Hole
    /\ OpenScope(Consumed(current, "{"), <<Frame(then, 0)>>)
    /\ Report(Missing(current, "{"))
    /\ UNCHANGED ret

IfBody == Body("if", "else?")
WhileBody == Body("while", "body end")

ElseBody == /\ At("else?") /\ Tok = "else"
            /\ Hole
            /\ OpenScope(Consumed(current + 1, "{"), <<Frame("body end", 0)>>)
            /\ Report(Missing(current + 1, "{"))
            /\ UNCHANGED ret

BodyEnd == /\ At("body end") \/ (At("else?") /\ Tok # "else")
           /\ Hole
           /\ Return("statement")
           /\ UNCHANGED <<current, errors>> /\ Same

-----------------------------------------------------------------------------
(* Expressions *)

\* parse_assignment: one assignment at most
Expr == /\ At("expr")
        /\ Call(Expression)
        /\ UNCHANGED <<current, ret, errors, holes>> /\ Same

Assign == /\ At("assign")
          /\ IF Tok = "="
               THEN /\ Go(current + 1)
                    /\ Hole
                    /\ Call(<<Frame("assigned", 0), Frame("operator", 0), Frame("unary", 0)>>)
                    /\ UNCHANGED ret
               ELSE Stay /\ Return(ret) /\ UNCHANGED holes
          /\ UNCHANGED errors /\ Same

\* The second operand of an operator, the operand of a unary one or of a cast,
\* and the value assigned end what they belong to.
Built(place) == /\ At(place)
                /\ Hole
                /\ Return("expr")
                /\ UNCHANGED <<current, errors>> /\ Same

Assigned == Built("assigned")

\* parse_logical, parse_equality, parse_bitwise, parse_comparison, parse_term,
\* parse_factor
Operator == /\ At("operator")
            /\ IF Tok \in Binary
                 THEN /\ Go(current + 1)
                      /\ Hole
                      /\ Call(<<Frame("operator", 0), Frame("right", 0), Frame("unary", 0)>>)
                      /\ UNCHANGED ret
                 ELSE Stay /\ Return(ret) /\ UNCHANGED holes
            /\ UNCHANGED errors /\ Same

Right == Built("right")

\* parse_unary
Unary ==
    /\ At("unary")
    /\ \/ /\ Tok = "cast"
          /\ Go(Consumed(current + 1, "("))
          /\ Report(Missing(current + 1, "("))
          /\ Call(<<Frame("cast", 0), Frame("type", 0)>>)
       \/ /\ Tok \in {"!", "-"}
          /\ Go(current + 1)
          /\ Call(<<Frame("prefix", 0), Frame("unary", 0)>>)
          /\ UNCHANGED errors
       \/ /\ Tok \notin {"cast", "!", "-"}
          /\ Stay
          /\ Call(<<Frame("call?", 0), Frame("primary", 0)>>)
          /\ UNCHANGED errors
    /\ UNCHANGED <<ret, holes>> /\ Same

Cast == /\ At("cast")
        /\ Hole
        /\ Go(Consumed(current, ")"))
        /\ Report(Missing(current, ")"))
        /\ Call(<<Frame("prefix", 0), Frame("unary", 0)>>)
        /\ UNCHANGED ret /\ Same

Prefix == Built("prefix")

\* parse_call, parse_arguments
IsCallOfAny == Tok = "("

IsCall == ret = "lvar" /\ Tok = "("

MaybeCall == /\ At("call?")
             /\ IF IsCall
                  THEN Go(current + 1) /\ Call(<<Frame("args", 0)>>) /\ UNCHANGED ret
                  ELSE Stay /\ Return(ret)
             /\ UNCHANGED <<errors, holes>> /\ Same

Args == /\ At("args")
        /\ Call(IF Tok = ")" THEN <<Frame("call end", 0)>>
                             ELSE <<Frame("arg", 0), Frame("expr", 0)>>)
        /\ UNCHANGED <<current, ret, errors, holes>> /\ Same

Arg == /\ At("arg")
       /\ Hole
       /\ Go(Consumed(current, ","))
       /\ Call(<<Frame(IF Tok = "," THEN "args" ELSE "call end", 0)>>)
       /\ UNCHANGED <<ret, errors>> /\ Same

CallEnd == /\ At("call end")
           /\ Go(Consumed(current, ")"))
           /\ Report(Missing(current, ")"))
           /\ Return("expr")
           /\ UNCHANGED holes /\ Same

\* parse_primary
Primary == /\ At("primary") /\ Tok \in {"literal", "id"}
           /\ Go(current + 1)
           /\ Return(IF Tok = "id" THEN "lvar" ELSE "expr")
           /\ UNCHANGED <<errors, holes>> /\ Same

Group == /\ At("primary") /\ Tok = "("
         /\ Go(current + 1)
         /\ Call(<<Frame("group", 0), Frame("expr", 0)>>)
         /\ UNCHANGED <<ret, errors, holes>> /\ Same

GroupEnd == /\ At("group")
            /\ Go(Consumed(current, ")"))
            /\ Report(Missing(current, ")"))
            /\ Return(ret)
            /\ UNCHANGED holes /\ Same

RecoveredPastEmpty == IF Tok = ";" THEN current + 1 ELSE current

\* Where the parser goes on after a token that begins no expression: after an
\* empty statement and other punctuation past it, and otherwise nowhere.
Recovered == CASE Tok = ";"                            -> current + 1
               [] Tok \in Punctuation \ {";"}          -> Synchronised(current)
               [] OTHER                                -> current

NoExpression == /\ At("primary") /\ Tok \notin {"literal", "id", "("}
                /\ Go(Recovered)
                /\ Report(TRUE)
                /\ Return(NULL)
                /\ UNCHANGED holes /\ Same

\* The error for an empty statement takes its line from the token before it;
\* before the first token there is none.
BeforeFirst == /\ At("primary") /\ Tok = ";" /\ current = 1
               /\ parsing' = "crashed"
               /\ errors' = TRUE
               /\ UNCHANGED <<current, stack, ret, scopes, symbols, holes>>

ParseNext == \/ Start \/ Unit \/ UnitGot
             \/ Decl \/ DeclGot
             \/ VarType \/ VarEnd
             \/ Params \/ ParamType \/ ParamEnd \/ ParamsEnd \/ FuncType \/ FuncEnd
             \/ TypeStar \/ TypeName \/ TypeNone
             \/ ScopeItem \/ ScopeGot \/ ScopeClose \/ ScopeCutOff
             \/ Statement \/ ExprEnd
             \/ IfBody \/ WhileBody \/ ElseBody \/ BodyEnd
             \/ Expr \/ Assign \/ Assigned \/ Operator \/ Right
             \/ Unary \/ Cast \/ Prefix
             \/ MaybeCall \/ Args \/ Arg \/ CallEnd
             \/ Primary \/ Group \/ GroupEnd \/ NoExpression \/ BeforeFirst

-----------------------------------------------------------------------------
(* Properties *)

ParseTypeOK == /\ current \in 1..Len(tokens)
               /\ \A i \in 1..Len(stack) : stack[i].n \in 0..Len(tokens)
               /\ ret \in {None, NULL, "type", "lvar", "expr", "statement", "scope"} \union Declarations
               /\ \A i \in 1..Len(scopes) : scopes[i] \in 0..Len(tokens)
               /\ \A f \in symbols : f.decl \in 1..Len(tokens) /\ {f.scope, f.home} \subseteq 0..Len(tokens)
               /\ errors \in BOOLEAN /\ holes \in BOOLEAN
               /\ parsing \in {"no", "yes", "done", "crashed"}

\* tu->scopes holds the global scope and the scopes being parsed, whatever the
\* tokens and the recovery; only at the end of the stream does one stay that
\* nothing closed (parse_scope_stmt returns without pop_scope there).
ScopesBalanced ==
    parsing = "yes" /\ ~AtEnd(current) =>
      /\ Len(scopes) = 1 + Cardinality(Open(stack))
      /\ scopes[1] = 0
      /\ \A i \in Open(stack) : scopes[1 + Depth(stack, i)] = stack[i].n

\* A function is entered into the innermost scope around its declaration, where
\* the statements beside it find it.  Only if the file ends within its body is
\* it entered elsewhere, into that body, and that is reported.
DeclaredInPlace ==
    \A f \in symbols : f.scope = f.home \/ (errors /\ AtEnd(current))

Ended == parsing \in {"done", "crashed"}

\* A token that is consumed nowhere in the loops over statements; and a type
\* that ends in "*" with the stream, at which parse_type calls itself for ever.
Orphaned == \/ parsing = "yes" /\ Tok \in {"else", "type"}
            \/ At("type") /\ AtEnd(current) /\ Previous = "*"
=============================================================================
