------------------------ MODULE MCDirectiveProcessor ------------------------
(***************************************************************************)
(* The DirectiveProcessor on small sets of directives, for TLC.            *)
(***************************************************************************)
EXTENDS DirectiveProcessor

CONSTANTS d1, d2, d3, A, B

\* Two directives of one dialog that compete for the audio medium, the second of
\* which holds the visual medium as well, and a third one without a dialog that
\* waits for that medium only.
ThreeDialogOf == d1 :> A @@ d2 :> A @@ d3 :> NoDialog
ThreePolicyOf ==
    d1 :> [mediums |-> {"AUDIO"}, isBlocking |-> TRUE]
    @@ d2 :> [mediums |-> Medium, isBlocking |-> TRUE]
    @@ d3 :> [mediums |-> {"VISUAL"}, isBlocking |-> FALSE]

\* The first two directives meet every call of the owner at every point; the
\* third one comes after them, to a processor that stays in service.
Crowded ==
    /\ {d1, d2} \subseteq offered'
    /\ isEnabled' /\ ~isShuttingDown' /\ registered'
    /\ dialogRequestId' = A

Bounded == Next /\ (d3 \in offered' => Crowded)

BoundedSpec == Init /\ [][Bounded]_vars
=============================================================================
