------------------------------ MODULE Language ------------------------------
(***************************************************************************)
(* Lexer and parser against the grammar that the rules of src/src/parser.c *)
(* describe.                                                               *)
(***************************************************************************)
EXTENDS FrontEnd

G == INSTANCE Grammar

\* The parser accepts, without an error and without a hole in the tree, exactly
\* the programs of the grammar: giving a token back, recovering from an error
\* and the end of the file lose or add none, and every hole in the tree has been
\* reported by an error.  The variables of both components keep their types.
AcceptsExactly ==
    /\ TypeOK /\ (parsing # "no" => ParseTypeOK)
    /\ parsing = "done" /\ ~errors => G!Sentence(tokens) /\ ~holes
    /\ errors \/ parsing = "crashed" => ~G!Sentence(tokens)
=============================================================================
