---------------------------- MODULE MCFocusManager ----------------------------
(***************************************************************************)
(* The FocusManager for TLC: a dialog channel, and one below it with music *)
(* and two activities that have the patience to let it come back, one of   *)
(* them of the music's own interface.                                      *)
(***************************************************************************)
EXTENDS FocusManager

MCChannelOf == [a \in Activity |-> IF a = "speech" THEN 1 ELSE 2]

MCInterfaceOf == [a \in Activity |-> IF a = "more" THEN "music" ELSE a]

MCMixing == [pair \in Activity \X Activity |->
                IF pair[1] = "music" THEN "MAY_DUCK" ELSE "MUST_PAUSE"]
=============================================================================
