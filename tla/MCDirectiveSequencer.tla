------------------------- MODULE MCDirectiveSequencer -------------------------
(***************************************************************************)
(* The DirectiveSequencer with two directives, for TLC.                    *)
(***************************************************************************)
EXTENDS DirectiveSequencer

CONSTANTS d1, d2, A

\* One directive of a dialog and one without, both on the audio medium.
TwoDialogOf == d1 :> A @@ d2 :> NoDialog
TwoPolicyOf == d1 :> [mediums |-> {"AUDIO"}, isBlocking |-> TRUE]
                   @@ d2 :> [mediums |-> {"AUDIO"}, isBlocking |-> FALSE]

\* The sequencer in service until it is shut down: it is not disabled, and the
\* dialog changes only before the first directive.
Retiring ==
    /\ SequencerNext
    /\ ~disabling' /\ sequencerEnabled'
    /\ accepted # <<>> => dialogRequestId' \in {dialogRequestId, NoDialog}

RetiringSpec == SequencerInit /\ [][Retiring]_sequencerVars /\ SequencerFairness
=============================================================================
