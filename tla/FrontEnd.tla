------------------------------ MODULE FrontEnd ------------------------------
(***************************************************************************)
(* Lexer and parser composed as src/src/main.c runs them (lines 300 to     *)
(* 315): the parser starts if lex_file has succeeded, on the tokens it has *)
(* left.  Nothing stops the compiler after an error of the parser, so that *)
(* what the parser promises about the tree is all the passes behind it     *)
(* have.                                                                   *)
(***************************************************************************)
EXTENDS Parser

vars == <<lexVars, parseVars>>

FrontInit == Init /\ ParseInit

Lex == LexNext /\ UNCHANGED parseVars
Parse == lexing = "done" /\ ParseNext /\ UNCHANGED lexVars

FrontNext == Lex \/ Parse

\* One sequential program.
Spec == FrontInit /\ [][FrontNext]_vars /\ WF_vars(FrontNext)

-----------------------------------------------------------------------------
(* Properties *)

Finished == lexing \in {"failed", "lost"} \/ Ended

\* Lexer and parser finish every file, unless the parser comes to stand at a
\* token that its loops never consume: then it stays there for ever.
FinishesUnlessOrphaned ==
    <>Finished \/ <>[](lexing = "done" /\ Orphaned)
=============================================================================
