------------------------- MODULE MessageRequestQueue -------------------------
(***************************************************************************)
(* The queue of messages that all the transports share: MessageRequestQueue *)
(* behind the mutex of SynchronizedMessageRequestQueue.  It is a record of  *)
(* the requests, oldest first, and of m_isWaitingForAcknowledgement.        *)
(***************************************************************************)
EXTENDS Naturals, SequencesExt

CONSTANT Serialized   \* the requests whose getIsSerialized() is true

EmptyQueue == [requests |-> <<>>, waiting |-> FALSE]

Enqueue(q, r) == [q EXCEPT !.requests = Append(@, r)]

DequeueOldest(q) == [q EXCEPT !.requests = Tail(@)]

\* Mutant: the oldest request is always sendable.
SendableOrOldest(q) ==
    {i \in DOMAIN q.requests : ~q.waiting \/ q.requests[i] \notin Serialized \/ i = 1}

\* The places that dequeueSendableRequest() accepts: while the answer to a
\* serialized request is awaited, those of the others only.
SendableAt(q) ==
    {i \in DOMAIN q.requests : ~q.waiting \/ q.requests[i] \notin Serialized}

IsMessageRequestAvailable(q) == SendableAt(q) # {}

NextSendable(q)    == q.requests[Min(SendableAt(q))]
DequeueSendable(q) == [q EXCEPT !.requests = RemoveAt(@, Min(SendableAt(q)))]

SetWaiting(q)   == [q EXCEPT !.waiting = TRUE]
ClearWaiting(q) == [q EXCEPT !.waiting = FALSE]
=============================================================================
