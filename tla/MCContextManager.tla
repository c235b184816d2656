--------------------------- MODULE MCContextManager ---------------------------
(***************************************************************************)
(* The ContextManager for TLC: a legacy provider sets a state, none for    *)
(* the time being, or none ("ALWAYS" without a state is an error).         *)
(***************************************************************************)
EXTENDS ContextManager

MCLegacyReply == {
    [value |-> TRUE,  policy |-> "ALWAYS"],
    [value |-> FALSE, policy |-> "SOMETIMES"],
    [value |-> FALSE, policy |-> "ALWAYS"]
}
=============================================================================
