------------------------------ MODULE Grammar ------------------------------
(***************************************************************************)
(* The language that the rules of src/src/parser.c accept, written down as *)
(* a grammar: for a rule and a place in the stream, the places at which a  *)
(* derivation of the rule that starts there may end.  It knows nothing of  *)
(* activations, recovery or tokens given back, and is the reference the    *)
(* parser is compared with.  The grammar in README.md is coarser.          *)
(*                                                                         *)
(* RECURSIVE operators: for model checking only.                           *)
(***************************************************************************)
EXTENDS Integers, Sequences

\* After one token; after one rule and then another (\bullet in a grammar).
One(ts, kinds, i) == IF i <= Len(ts) /\ ts[i] \in kinds THEN {i + 1} ELSE {}
Then(ends, Rule(_)) == UNION {Rule(j) : j \in ends}
Many(ends, Rule(_)) ==
    LET RECURSIVE More(_)
        More(S) == LET T == S \union Then(S, Rule) IN IF T = S THEN S ELSE More(T)
    IN  More(ends)

Seq1(ts, kind, i) == One(ts, {kind}, i)
Expect(ts, kind, ends) == Then(ends, LAMBDA j : Seq1(ts, kind, j))

\* type -> "*"* name
Type(ts, i) ==
    Then(Many({i}, LAMBDA j : Seq1(ts, "*", j)), LAMBDA j : Seq1(ts, "type", j))

RECURSIVE Name(_, _)
RECURSIVE Unary(_, _)
RECURSIVE Items(_, _)

\* A name, in parentheses or not: what may be called.
Name(ts, i) == Seq1(ts, "id", i)
                 \union Expect(ts, ")", Then(Seq1(ts, "(", i), LAMBDA j : Name(ts, j)))

Logical(ts, i) ==
    Many(Unary(ts, i),
         LAMBDA j : Then(One(ts, {"op", "-", "*"}, j), LAMBDA k : Unary(ts, k)))

Expr(ts, i) ==
    Logical(ts, i)
      \union Then(Expect(ts, "=", Logical(ts, i)), LAMBDA j : Logical(ts, j))

\* A list with commas between its elements; one more may end it.
List(ts, Rule(_), i) ==
    {i} \union LET first == Rule(i)
                   all == Many(first, LAMBDA j : Then(Seq1(ts, ",", j), Rule))
               IN  all \union Expect(ts, ",", all)

Unary(ts, i) ==
    UNION {
      Then(Expect(ts, ")", Then(Expect(ts, "(", Seq1(ts, "cast", i)),
                                LAMBDA j : Type(ts, j))), LAMBDA j : Unary(ts, j)),
      Then(One(ts, {"!", "-"}, i), LAMBDA j : Unary(ts, j)),
      One(ts, {"literal", "id"}, i),
      Expect(ts, ")", Then(Seq1(ts, "(", i), LAMBDA j : Expr(ts, j))),
      Expect(ts, ")", Then(Expect(ts, "(", Name(ts, i)),
                           LAMBDA j : List(ts, LAMBDA k : Expr(ts, k), j))) }

Initialised(ts, ends) ==
    ends \union Then(Expect(ts, "=", ends), LAMBDA j : Expr(ts, j))

Typed(ts, i) ==
    Initialised(ts, Then(Expect(ts, ":", Seq1(ts, "id", i)), LAMBDA j : Type(ts, j)))

Block(ts, ends) ==
    Expect(ts, "}", Then(Expect(ts, "{", ends), LAMBDA j : Items(ts, j)))

Function(ts, i) ==
    LET head == Then(Expect(ts, "->", Expect(ts, ")",
                       Then(Expect(ts, "(", Expect(ts, "::", Seq1(ts, "id", i))),
                            LAMBDA j : List(ts, LAMBDA k : Typed(ts, k), j)))),
                     LAMBDA j : Type(ts, j))
    IN  Expect(ts, ";", head) \union Block(ts, head)

Declaration(ts, i) == Expect(ts, ";", Typed(ts, i)) \union Function(ts, i)

Guarded(ts, kind, i) ==
    Block(ts, Then(Seq1(ts, kind, i), LAMBDA j : Expr(ts, j)))

Item(ts, i) ==
    UNION {
      Declaration(ts, i),
      Block(ts, {i}),
      Guarded(ts, "if", i), Block(ts, Expect(ts, "else", Guarded(ts, "if", i))),
      Guarded(ts, "while", i),
      Expect(ts, ";", Expr(ts, i) \union Then(Seq1(ts, "return", i), LAMBDA j : Expr(ts, j))) }

Items(ts, i) == Many({i}, LAMBDA j : Item(ts, j))

\* A program is a sequence of declarations.
Sentence(ts) == Len(ts) \in Many({1}, LAMBDA j : Declaration(ts, j)) /\ ts[Len(ts)] = "EOF"
=============================================================================
