------------------------------- MODULE MCSema -------------------------------
(***************************************************************************)
(* Statements with up to four nodes, over types of each family: signed and *)
(* unsigned integers of two sizes, strings, booleans, pointers and void.   *)
(***************************************************************************)
EXTENDS Sema

PointerTo(kind) == <<"pointer", kind>>

MCLiteralTypes == {S64, Bool, Unknown, <<"string">>}
MCVarTypes == {<<"s8">>, <<"u8">>, <<"u16">>, <<"string">>, Bool, PointerTo("s8")}
MCTypeNames == {<<"s8">>, S64, <<"u16">>, Bool, Void, PointerTo("s8"), PointerTo("bool")}
MCFunctions == {[params |-> <<>>, returns |-> Void],
                [params |-> <<S64>>, returns |-> <<"s8">>],
                [params |-> <<<<"u8">>, Bool>>, returns |-> Bool]}
=============================================================================
