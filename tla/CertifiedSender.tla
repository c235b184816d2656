---------------------------- MODULE CertifiedSender ----------------------------
(***************************************************************************)
(* The CertifiedSender with its SQLiteMessageStorage: messages accepted by *)
(* its executor are stored and queued; a worker thread sends the first     *)
(* one, waits for its answer, and erases it or sends it again after a      *)
(* pause.  The process may crash, be ended or started again at any time;   *)
(* only the storage survives.                                              *)
(*                                                                         *)
(* A step is a critical section of m_mutex, or something the worker does   *)
(* between two of them.                                                    *)
(***************************************************************************)
EXTENDS Naturals, Sequences, FiniteSets, Functions, SequencesExt

CONSTANTS
    MaxMessages,    \* bound: messages accepted in one behaviour
    MaxRestarts,    \* bound: ends of the process
    MaxFaults,      \* bound: queries of the storage that fail
    HardLimit,      \* m_queueSizeHardLimit
    SizeLimit,      \* DATABASE_MESSAGE_SIZE_LIMIT
    NoRow           \* no message

ASSUME CertifiedAssumption ==
    /\ MaxMessages \in Nat /\ MaxRestarts \in Nat /\ MaxFaults \in Nat
    /\ HardLimit \in Nat \ {0} /\ SizeLimit \in 1..HardLimit
    /\ NoRow \notin [id : Nat \ {0}, message : Nat \ {0}]

\* Messages are numbered in the order of acceptance; the id of a row is chosen
\* by the storage and comes back once the row is erased.
Row == [id : Nat \ {0}, message : Nat \ {0}]

VARIABLES
    storage,        \* the rows of the messages table
    queue,          \* m_messagesToSend
    current,        \* m_currentMessage
    answer,         \* the status that sendCompleted() has left in it
    pc,             \* where the worker is
    isConnected,    \* m_isConnected
    isShuttingDown, \* m_isShuttingDown
    accepted,       \* history: number of messages accepted
    sent,           \* history: messages handed to the MessageSender
    done,           \* history: messages answered for good, or cleared
    expired,        \* history: messages given up when the storage was opened
    restarts,       \* number of ends of the process
    faults          \* number of failed queries

vars == <<storage, queue, current, answer, pc, isConnected, isShuttingDown,
          accepted, sent, done, expired, restarts, faults>>

history == <<accepted, sent, done, expired>>

(***************************************************************************)
(* The worker, in mainloop():                                              *)
(*   wait       about to evaluate what it waits for                        *)
(*   asleep     in m_workerThreadCV.wait()                                 *)
(*   sending    has taken the first message                                *)
(*   waiting    in waitForCompletion()                                     *)
(*   handled, retry   the call returned; about to lock m_mutex             *)
(*   backoff    in m_backoffWaitCV.waitFor()                               *)
(*   exited     has left mainloop()                                        *)
(*   down       the process is not running                                 *)
(***************************************************************************)
Init ==
    /\ storage = {} /\ queue = <<>>
    /\ current = NoRow /\ answer = "none"
    /\ pc = "wait"
    /\ isConnected = FALSE /\ isShuttingDown = FALSE
    /\ accepted = 0 /\ sent = {} /\ done = {} /\ expired = {}
    /\ restarts = 0 /\ faults = 0

InFlight == pc \in {"sending", "waiting", "handled", "retry"}

MessagesIn(rows) == {row.message : row \in rows}

\* A query of the storage succeeds or not; the caller only logs a failure.
Query(succeeds) ==
    /\ succeeds \/ faults < MaxFaults
    /\ faults' = IF succeeds THEN faults ELSE faults + 1

\* Mutant: the worker is not woken.
WorkerLeft == pc

WorkerNotified == IF pc = "asleep" THEN "wait" ELSE pc

-----------------------------------------------------------------------------
(***************************************************************************)
(* executeSendJSONMessage().  A message is refused at the limit, or when   *)
(* it cannot be stored; then nothing changes.                              *)
(***************************************************************************)
\* The id that follows the greatest one in use.
NextId(rows) ==
    IF rows = {} THEN 1
    ELSE 1 + (CHOOSE row \in rows : \A other \in rows : other.id <= row.id).id

\* Mutant: the new message is put where retries go.
QueuedFirst(row) == <<row>> \o queue

Queued(row) == Append(queue, row)

Accept ==
    LET row == [id |-> NextId(storage), message |-> accepted + 1]
    IN  /\ pc # "down"
        /\ accepted < MaxMessages
        /\ Len(queue) < HardLimit
        /\ storage' = storage \cup {row}
        /\ queue' = Queued(row)
        /\ accepted' = accepted + 1
        /\ pc' = WorkerNotified
        /\ UNCHANGED <<current, answer, isConnected, isShuttingDown, sent, done, expired,
                       restarts, faults>>

\* onConnectionStatusChanged()
SetConnected(connected) ==
    /\ pc # "down"
    /\ isConnected # connected
    /\ isConnected' = connected
    /\ pc' = WorkerNotified
    /\ UNCHANGED <<storage, queue, current, answer, isShuttingDown, history, restarts, faults>>

-----------------------------------------------------------------------------
(***************************************************************************)
(* mainloop()                                                              *)
(***************************************************************************)
WorkerProceeds == UNCHANGED <<isConnected, isShuttingDown, accepted, expired, restarts>>

HasWork == isConnected /\ queue # <<>>

FallAsleep ==
    /\ pc = "wait"
    /\ ~HasWork /\ ~isShuttingDown
    /\ current' = NoRow
    /\ pc' = "asleep"
    /\ WorkerProceeds /\ UNCHANGED <<storage, queue, answer, sent, done, faults>>

LeaveLoop ==
    /\ pc = "wait"
    /\ isShuttingDown
    /\ current' = NoRow
    /\ pc' = "exited"
    /\ WorkerProceeds /\ UNCHANGED <<storage, queue, answer, sent, done, faults>>

TakeMessage ==
    /\ pc = "wait"
    /\ HasWork /\ ~isShuttingDown
    /\ current' = Head(queue)
    /\ answer' = "none"
    /\ pc' = "sending"
    /\ WorkerProceeds /\ UNCHANGED <<storage, queue, sent, done, faults>>

SendMessage ==
    /\ pc = "sending"
    /\ sent' = sent \cup {current.message}
    /\ pc' = "waiting"
    /\ WorkerProceeds /\ UNCHANGED <<storage, queue, current, answer, done, faults>>

\* sendCompleted(), called by the MessageSender: "handled" stands for the
\* statuses after which shouldRetryTransmission() is false.
SendCompleted(status) ==
    /\ pc = "waiting"
    /\ answer = "none"
    /\ answer' = status
    /\ done' = IF status = "handled" THEN done \cup {current.message} ELSE done
    /\ UNCHANGED <<storage, queue, current, pc, isConnected, isShuttingDown, accepted, sent,
                   expired, restarts, faults>>

\* waitForCompletion() returns.  The destructor's shutdown() of the request comes
\* before any answer.
\* Mutant: a stopped request counts as handled.
StatusStopped == IF isShuttingDown THEN "handled" ELSE answer

Status == IF isShuttingDown THEN "retry" ELSE answer

WaitForCompletion ==
    /\ pc = "waiting"
    /\ Status # "none"
    /\ pc' = Status
    /\ WorkerProceeds /\ UNCHANGED <<storage, queue, current, answer, sent, done, faults>>

\* pop_front() of an empty deque has no defined effect: here the worker does not
\* go on, and nothing but the end of the process follows.
Requeued == <<current>> \o Tail(queue)

Retry ==
    /\ pc = "retry"
    /\ queue # <<>>
    /\ queue' = Requeued
    /\ pc' = "backoff"
    /\ WorkerProceeds /\ UNCHANGED <<storage, current, answer, sent, done, faults>>

EndBackoff ==
    /\ pc = "backoff"
    /\ pc' = IF isShuttingDown THEN "exited" ELSE "wait"
    /\ WorkerProceeds /\ UNCHANGED <<storage, queue, current, answer, sent, done, faults>>

\* SQLiteMessageStorage::erase()
Erased(id) == {row \in storage : row.id # id}

FinishMessage ==
    \E succeeds \in BOOLEAN :
        /\ pc = "handled"
        /\ queue # <<>>
        /\ Query(succeeds)
        /\ storage' = IF succeeds THEN Erased(current.id) ELSE storage
        /\ queue' = Tail(queue)
        /\ pc' = "wait"
        /\ WorkerProceeds /\ UNCHANGED <<current, answer, sent, done>>

-----------------------------------------------------------------------------
(***************************************************************************)
(* clearData(), on the executor                                            *)
(***************************************************************************)
ClearData ==
    \E succeeds \in BOOLEAN :
        /\ pc # "down"
        /\ Query(succeeds)
        /\ queue' = <<>>
        /\ storage' = IF succeeds THEN {} ELSE storage
        /\ done' = done \cup MessagesIn(storage)
        /\ UNCHANGED <<current, answer, pc, isConnected, isShuttingDown, accepted, sent, expired,
                       restarts>>

-----------------------------------------------------------------------------
(***************************************************************************)
(* The end and the start of the process                                    *)
(***************************************************************************)
\* The destructor, before it joins the worker.
BeginDestruction ==
    /\ pc # "down"
    /\ ~isShuttingDown
    /\ restarts < MaxRestarts
    /\ isShuttingDown' = TRUE
    /\ pc' = WorkerNotified
    /\ UNCHANGED <<storage, queue, current, answer, isConnected, history, restarts, faults>>

\* What memory held is gone: by the destructor, or by a crash.
GoDown ==
    /\ pc' = "down"
    /\ queue' = <<>> /\ current' = NoRow /\ answer' = "none"
    /\ isConnected' = FALSE /\ isShuttingDown' = FALSE
    /\ restarts' = restarts + 1
    /\ UNCHANGED <<storage, history, faults>>

EndDestruction ==
    /\ pc = "exited"
    /\ GoDown

Crash ==
    /\ pc # "down"
    /\ restarts < MaxRestarts
    /\ GoDown

\* eraseMessageOverAgeLimit() gives up the rows stored before some point in time,
\* eraseMessageOverSizeLimit() all but the last SizeLimit of the others.
YoungerThan(n) == {row \in storage : row.message > n}

\* Mutant: the oldest rows are kept.
Oldest(rows) == {row \in rows : Cardinality({other \in rows : other.id < row.id}) < SizeLimit}

Newest(rows) == {row \in rows : Cardinality({other \in rows : other.id > row.id}) < SizeLimit}

\* The rows of load(), ORDER BY id.
Listings(rows) ==
    {list \in SetToSeqs(rows) :
        /\ Range(list) = rows
        /\ \A i, j \in DOMAIN list : i < j => list[i].id < list[j].id}

\* init(): since SizeLimit is not above HardLimit, all the rows are queued.
Start ==
    \E n \in 0..accepted : \E list \in Listings(Newest(YoungerThan(n))) :
        /\ pc = "down"
        /\ pc' = "wait"
        /\ storage' = Newest(YoungerThan(n))
        /\ queue' = list
        /\ expired' = expired \cup MessagesIn(storage \ Newest(YoungerThan(n)))
        /\ UNCHANGED <<current, answer, isConnected, isShuttingDown, accepted, sent, done,
                       restarts, faults>>

-----------------------------------------------------------------------------
Worker ==
    \/ FallAsleep \/ LeaveLoop \/ TakeMessage \/ SendMessage \/ WaitForCompletion
    \/ Retry \/ EndBackoff \/ FinishMessage

\* Everything but clearData().
Service ==
    \/ Accept
    \/ \E connected \in BOOLEAN : SetConnected(connected)
    \/ Worker
    \/ \E status \in {"handled", "retry"} : SendCompleted(status)
    \/ BeginDestruction \/ EndDestruction \/ Crash \/ Start

Next == Service \/ ClearData

Spec == Init /\ [][Next]_vars

\* The customer data cleared when no message is in flight.
OrderlyNext == Service \/ (~InFlight /\ ClearData)

OrderlySpec == Init /\ [][OrderlyNext]_vars

(***************************************************************************)
(* Fairness.  The worker runs; the MessageSender answers every request,    *)
(* and not for ever with a status that asks for a retry; the connection    *)
(* comes back, and lasts long enough for the worker to see it; an          *)
(* application that ended is started again.                                *)
(***************************************************************************)
Fairness ==
    /\ WF_vars(Worker) /\ SF_vars(TakeMessage)
    /\ WF_vars(\E status \in {"handled", "retry"} : SendCompleted(status))
    /\ SF_vars(SendCompleted("handled"))
    /\ WF_vars(SetConnected(TRUE))
    /\ WF_vars(EndDestruction) /\ WF_vars(Start)

FairOrderlySpec == OrderlySpec /\ Fairness

-----------------------------------------------------------------------------
\* The values that each variable takes.
TypeOK ==
    /\ storage \subseteq Row /\ IsFiniteSet(storage)
    /\ queue \in Seq(Row)
    /\ current \in Row \cup {NoRow}
    /\ answer \in {"none", "handled", "retry"}
    /\ pc \in {"wait", "asleep", "sending", "waiting", "handled", "retry", "backoff", "exited",
              "down"}
    /\ isConnected \in BOOLEAN /\ isShuttingDown \in BOOLEAN
    /\ accepted \in Nat
    /\ sent \subseteq 1..accepted /\ done \subseteq 1..accepted /\ expired \subseteq 1..accepted
    /\ restarts \in Nat /\ faults \in Nat

(***************************************************************************)
(* Safety.                                                                 *)
(***************************************************************************)
\* A message that was accepted stays in the storage, and in the queue of a running
\* process, until it is answered for good, cleared or given up for its age
\* (CertifiedSender.h: "Once the message is persisted, the caller can expect the
\* message to be sent to AVS at some point").
AcceptedIsKept ==
    \A n \in 1..accepted :
        n \notin done \cup expired =>
            /\ n \in MessagesIn(storage)
            /\ pc # "down" => n \in MessagesIn(Range(queue))

\* While a message is in flight it is the first of the queue, which is the one that
\* the worker pops when the answer comes (mainloop(), lines 268 and 301).
InFlightIsFirst == InFlight => queue # <<>> /\ Head(queue) = current

\* All of it implements the promise of CertifiedDelivery.
Delivery == INSTANCE CertifiedDelivery WITH outbox <- MessagesIn(storage)

ImplementsDelivery == Delivery!Spec

(***************************************************************************)
(* Liveness, under FairOrderlySpec.                                        *)
(***************************************************************************)
\* Every message that was accepted is answered for good, whatever crashes and
\* retries come in between, unless it is cleared or given up for its age.
AcceptedIsHandled ==
    \A n \in 1..MaxMessages : accepted >= n ~> n \in done \cup expired
=============================================================================
