------------------------------ MODULE MCArena ------------------------------
(***************************************************************************)
(* A pool of a few hundred bytes, a table of up to three entries, and      *)
(* vectors that begin with two elements, in both builds.                   *)
(***************************************************************************)
EXTENDS Lists
=============================================================================
