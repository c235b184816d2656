--------------------------- MODULE MCMessageRouter ---------------------------
(***************************************************************************)
(* The connection on a small instance, for TLC.                            *)
(***************************************************************************)
EXTENDS HTTP2Transport, TLC

CONSTANTS r1, r2, r3, app, other

Sent == {r \in Request : place[r] # "new"}

\* Two of the messages meet two transports after one call, and one message meets
\* calls that overlap; the third transport is for the router and its observer
\* alone.
Bounded ==
    /\ Next
    /\ transport'[3].state # "INIT" => ~overlapped' /\ Sent' = {}
    /\ Cardinality(Sent') <= IF calls' > 1 THEN 1 ELSE 2

BoundedSpec == Init /\ [][Bounded]_vars

Symmetry == Permutations(Serialized) \cup Permutations(Caller)
=============================================================================
