------------------------------ MODULE MCFrame ------------------------------
EXTENDS Frame, TLC

CONSTANTS n1, n2

MCSlot == n1 :> 4 @@ n2 :> 12
MCCalls == {[arity |-> 4, size |-> 8], [arity |-> 5, size |-> 8], [arity |-> 8, size |-> 8]}
=============================================================================
