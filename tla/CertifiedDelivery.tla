--------------------------- MODULE CertifiedDelivery ---------------------------
(***************************************************************************)
(* What the CertifiedSender promises (CertifiedSender.h): a message that   *)
(* was accepted is kept until AVS has answered it for good or the customer *)
(* data are cleared, the application being restarted or not, and messages  *)
(* are sent in the order in which they were accepted.  A message may be    *)
(* sent, and answered, more than once.                                     *)
(*                                                                         *)
(* There are no threads, queues or crashes here.  Messages are numbered in *)
(* the order of acceptance.                                                *)
(***************************************************************************)
EXTENDS Naturals

VARIABLES
    accepted,   \* the number of messages accepted
    outbox,     \* the messages kept
    sent,       \* the messages sent at least once
    done        \* the messages answered for good, or cleared

delivery == <<accepted, outbox, sent, done>>

Init ==
    /\ accepted = 0
    /\ outbox = {} /\ sent = {} /\ done = {}

Accept ==
    /\ accepted' = accepted + 1
    /\ outbox' = outbox \cup {accepted + 1}
    /\ UNCHANGED <<sent, done>>

\* No earlier message may be waiting for its answer.
Transmit(n) ==
    /\ n \in outbox
    /\ \A k \in outbox : k < n => k \in done
    /\ sent' = sent \cup {n}
    /\ UNCHANGED <<accepted, outbox, done>>

Answer(n) ==
    /\ n \in sent
    /\ done' = done \cup {n}
    /\ UNCHANGED <<accepted, outbox, sent>>

Forget(n) ==
    /\ n \in outbox \cap done
    /\ outbox' = outbox \ {n}
    /\ UNCHANGED <<accepted, sent, done>>

\* At a restart the oldest messages may be given up.
Expire(n) ==
    /\ outbox' = {k \in outbox : k > n}
    /\ UNCHANGED <<accepted, sent, done>>

\* Clearing may fail to empty the storage.
Clear ==
    /\ outbox' \in {outbox, {}}
    /\ done' = done \cup outbox
    /\ UNCHANGED <<accepted, sent>>

Next ==
    \/ Accept \/ Clear
    \/ \E n \in 1..accepted : Transmit(n) \/ Answer(n) \/ Forget(n) \/ Expire(n)

Spec == Init /\ [][Next]_delivery
=============================================================================
