----------------------------- MODULE RoutingRules -----------------------------
(***************************************************************************)
(* The rules by which the DirectiveRouter finds the handler of a directive *)
(* (CapabilityTag, DirectiveRoutingRule).  A rule, like a directive, names *)
(* an endpoint, an instance, a namespace and a name; in a rule all but the *)
(* endpoint may be a wildcard.                                             *)
(***************************************************************************)
EXTENDS Naturals

CONSTANTS
    Endpoint, Instance, NameSpace, Name,  \* the values a directive may have,
                                          \* an absent instance being one
    Wildcard                              \* "*"

ASSUME WildcardAssumption ==
    Wildcard \notin Endpoint \cup Instance \cup NameSpace \cup Name

Field == {"endpoint", "instance", "nameSpace", "name"}

\* What a directive is addressed to.
Target == [endpoint : Endpoint, instance : Instance, nameSpace : NameSpace, name : Name]

CapabilityTag == [endpoint  : Endpoint \cup {Wildcard},
                  instance  : Instance \cup {Wildcard},
                  nameSpace : NameSpace \cup {Wildcard},
                  name      : Name \cup {Wildcard}]

\* isDirectiveRoutingRuleValid()
IsValidRule(rule) ==
    /\ rule.endpoint # Wildcard
    /\ rule.instance = Wildcard \/ rule.nameSpace = Wildcard => rule.name = Wildcard

Rule == {rule \in CapabilityTag : IsValidRule(rule)}

\* The rules getHandlerAndPolicyLocked() looks for, in its order.
\* Mutant: the rule for any instance comes before the one for the instance.
MatchersAnyInstanceFirst(target) ==
    << target,
       [target EXCEPT !.instance = Wildcard, !.name = Wildcard],
       [target EXCEPT !.name = Wildcard],
       [target EXCEPT !.nameSpace = Wildcard, !.name = Wildcard],
       [target EXCEPT !.instance = Wildcard, !.nameSpace = Wildcard, !.name = Wildcard] >>

Matchers(target) ==
    << target,
       [target EXCEPT !.name = Wildcard],
       [target EXCEPT !.nameSpace = Wildcard, !.name = Wildcard],
       [target EXCEPT !.instance = Wildcard, !.name = Wildcard],
       [target EXCEPT !.instance = Wildcard, !.nameSpace = Wildcard, !.name = Wildcard] >>

\* The first of them that is configured, if any is.
IsFirstMatch(rule, configured, target) ==
    \E i \in 1..5 :
        /\ rule = Matchers(target)[i]
        /\ rule \in configured
        /\ \A j \in 1..(i - 1) : Matchers(target)[j] \notin configured

(***************************************************************************)
(* What DirectiveRoutingRule.h and DirectiveSequencerInterface.h promise:  *)
(* the rule used applies to the directive, and no other rule that applies  *)
(* is more specific.                                                       *)
(***************************************************************************)
Applies(rule, target) == \A f \in Field : rule[f] \in {target[f], Wildcard}

MoreSpecific(rule, other) ==
    /\ rule # other
    /\ \A f \in Field : other[f] \in {rule[f], Wildcard}

IsMostSpecific(rule, configured, target) ==
    /\ rule \in configured
    /\ Applies(rule, target)
    /\ \A other \in configured : Applies(other, target) => ~MoreSpecific(other, rule)
=============================================================================
