-------------------------- MODULE DirectiveLifecycle --------------------------
(***************************************************************************)
(* What a DirectiveProcessor promises, without its threads and queues: the *)
(* life of each directive, from its arrival to the moment at which the     *)
(* processor is done with it.                                              *)
(*                                                                         *)
(*   new -> preHandling -> queued -> handling -> gone                      *)
(*                                                                         *)
(* A live directive may be given up at any stage; the processor then still *)
(* owes it a cancellation.  The directives of a dialog are given up all at *)
(* once, and two directives in handling share no medium.                   *)
(***************************************************************************)
CONSTANTS Directive, DialogId, NoDialog, DialogOf, Policy, NoPolicy

VARIABLES
    dialog,   \* the current dialogRequestId
    stage,    \* the stage of each directive
    policy    \* the blocking policy of each directive that was queued

vars == <<dialog, stage, policy>>

Live == {d \in Directive : stage[d] \in {"preHandling", "queued", "handling"}}

Members(id) == IF id = NoDialog THEN {} ELSE {d \in Directive : DialogOf[d] = id}

Init ==
    /\ dialog = NoDialog
    /\ stage = [d \in Directive |-> "new"]
    /\ policy = [d \in Directive |-> NoPolicy]

Move(d, from, to) == stage[d] = from /\ stage' = [stage EXCEPT ![d] = to]

Arrive(d) ==
    /\ DialogOf[d] \in {NoDialog, dialog}
    /\ Move(d, "new", "preHandling")
    /\ UNCHANGED <<dialog, policy>>

\* Dropped, or refused by a stopped processor.
Discard(d) == Move(d, "new", "gone") /\ UNCHANGED <<dialog, policy>>

Queue(d) ==
    /\ Move(d, "preHandling", "queued")
    /\ \E p \in Policy : policy' = [policy EXCEPT ![d] = p]
    /\ UNCHANGED dialog

\* A directive without a medium is handed over, and of no further concern.
Start(d) ==
    /\ \A e \in Directive :
           stage[e] = "handling" => policy[e].mediums \cap policy[d].mediums = {}
    /\ Move(d, "queued", IF policy[d].mediums = {} THEN "gone" ELSE "handling")
    /\ UNCHANGED <<dialog, policy>>

\* Completed, rejected for want of a handler, or the cancellation delivered.
Finish(d) ==
    /\ d \in Live \/ stage[d] = "canceling"
    /\ stage' = [stage EXCEPT ![d] = "gone"]
    /\ UNCHANGED <<dialog, policy>>

GiveUp(S, current) ==
    [d \in Directive |-> IF d \in S \cap Live THEN "canceling" ELSE current[d]]

\* A directive fails, and its dialog with it; the failure of one that is owed a
\* cancellation may leave it owed.
Fail(d) ==
    /\ stage[d] # "new"
    /\ \E after \in {"gone", "canceling"} :
           /\ after = "canceling" => stage[d] = "canceling"
           /\ stage' = GiveUp(Members(DialogOf[d]) \ {d}, [stage EXCEPT ![d] = after])
    /\ dialog' = IF dialog = DialogOf[d] THEN NoDialog ELSE dialog
    /\ UNCHANGED policy

NewDialog(id) ==
    /\ stage' = GiveUp(Members(dialog), stage)
    /\ dialog' = id
    /\ UNCHANGED policy

Stop ==
    /\ stage' = GiveUp(Directive, stage)
    /\ dialog' = NoDialog
    /\ UNCHANGED policy

Next ==
    \/ \E d \in Directive :
           Arrive(d) \/ Discard(d) \/ Queue(d) \/ Start(d) \/ Finish(d) \/ Fail(d)
    \/ \E id \in DialogId \cup {NoDialog} : NewDialog(id)
    \/ Stop

\* [][Next]_vars, written so that TLC recognises a stuttering step at once.
Spec == Init /\ [][vars' # vars => Next]_vars
=============================================================================
