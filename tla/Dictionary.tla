----------------------------- MODULE Dictionary -----------------------------
(***************************************************************************)
(* What Gzar's Map (src/src/base.h) promises its callers: a partial        *)
(* function from keys to values.  A caller invokes one operation at a      *)
(* time; the operation takes effect in one step.  Iteration yields each    *)
(* present key once, in no order a caller may rely on.                     *)
(***************************************************************************)
CONSTANTS Keys, Vals, NULL

VARIABLES dict,      \* the contents: NULL marks an absent key
          req,       \* the operation in progress
          resp,      \* the last result handed to the caller
          yielded    \* the keys the iteration in progress has handed out

vars == <<dict, req, resp, yielded>>

Request(op, k, v) == [op |-> op, key |-> k, value |-> v]
NoRequest == Request("none", NULL, NULL)
Pair(k, v) == [key |-> k, value |-> v]

Present == {k \in Keys : dict[k] # NULL}

Init == /\ dict = [k \in Keys |-> NULL]
        /\ req = NoRequest
        /\ resp = NULL
        /\ yielded = {}

Invoke(r) == /\ req = NoRequest
             /\ req' = r
             /\ resp' = NULL
             /\ UNCHANGED <<dict, yielded>>

ApplySet == /\ req.op = "set"
            /\ dict' = [dict EXCEPT ![req.key] = req.value]
            /\ req' = NoRequest
            /\ UNCHANGED <<resp, yielded>>

ApplyPeek == /\ req.op = "peek"
             /\ resp' = Pair(req.key, dict[req.key])
             /\ req' = NoRequest
             /\ UNCHANGED <<dict, yielded>>

Yield(k) == /\ req.op = "iterate"
            /\ k \in Present \ yielded
            /\ resp' = Pair(k, dict[k])
            /\ yielded' = yielded \union {k}
            /\ UNCHANGED <<dict, req>>

\* The iteration may report its end only once every present key was yielded.
EndIteration == /\ req.op = "iterate"
                /\ Present \subseteq yielded
                /\ resp' = NULL
                /\ req' = NoRequest
                /\ yielded' = {}
                /\ UNCHANGED dict

\* The caller drops the iterator.
StopIteration == /\ req.op = "iterate"
                 /\ req' = NoRequest
                 /\ yielded' = {}
                 /\ UNCHANGED <<dict, resp>>

Next == \/ \E k \in Keys, v \in Vals : Invoke(Request("set", k, v))
        \/ \E k \in Keys : Invoke(Request("peek", k, NULL))
        \/ Invoke(Request("iterate", NULL, NULL))
        \/ ApplySet
        \/ ApplyPeek
        \/ \E k \in Keys : Yield(k)
        \/ EndIteration
        \/ StopIteration

Spec == Init /\ [][Next]_vars
=============================================================================
