--------------------------- MODULE MCDirectiveRouter ---------------------------
(***************************************************************************)
(* The DirectiveRouter with three handlers and two threads, for TLC.       *)
(***************************************************************************)
EXTENDS DirectiveRouter

CONSTANTS h1, h2, h3, t1, t2

Tag(instance, nameSpace, name) ==
    [endpoint |-> "e", instance |-> instance, nameSpace |-> nameSpace, name |-> name]

\* The three handlers cover the five kinds of rules; h1 and h3 claim the same
\* one, and h3 has a rule for directives without an instance.
ThreeRulesOf ==
    h1 :> {Tag("i", "n", "x"), Tag(Wildcard, "n", Wildcard)}
        @@ h2 :> {Tag("i", Wildcard, Wildcard), Tag("i", "n", Wildcard)}
        @@ h3 :> {Tag("i", "n", "x"), Tag("absent", "n", Wildcard),
                  Tag(Wildcard, Wildcard, Wildcard)}
=============================================================================
