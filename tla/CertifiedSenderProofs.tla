------------------------- MODULE CertifiedSenderProofs -------------------------
(***************************************************************************)
(* Theorems about the CertifiedSender, for any number of messages,         *)
(* restarts and failing queries and any limits, if the customer data are   *)
(* cleared only while no message is in flight.                             *)
(***************************************************************************)
EXTENDS CertifiedSender, LeastNumbers, SequenceTheorems, FiniteSetTheorems, TLAPS

\* The ids of the rows come in the order of the messages, and are no greater.
StorageInv ==
    /\ \A row \in storage : row.id <= row.message
    /\ \A row \in storage : row.message <= accepted /\ row.message \notin expired
    /\ \A row, other \in storage :
         /\ row.id < other.id <=> row.message < other.message
         /\ row.id = other.id => row = other

\* The queue lists rows of the storage, in their order.
QueueInv ==
    /\ Range(queue) \subseteq storage
    /\ \A i, j \in DOMAIN queue : i < j => queue[i].id < queue[j].id

WorkerInv ==
    /\ InFlightIsFirst
    /\ pc = "sending" => answer = "none"
    /\ pc \in {"waiting", "handled", "retry"} => current.message \in sent
    /\ pc = "waiting" /\ answer = "handled" => current.message \in done
    /\ pc = "handled" => current.message \in done

DeliveryInv ==
    /\ TypeOK
    /\ StorageInv
    /\ QueueInv
    /\ WorkerInv
    /\ AcceptedIsKept

-----------------------------------------------------------------------------
(***************************************************************************)
(* The id of a new row.                                                    *)
(***************************************************************************)
\* The next id is greater than those in use, and no greater than the bound that
\* they have, plus one.
LEMMA NextIdIsNew ==
    ASSUME NEW rows \in SUBSET Row, NEW b \in Nat, \A row \in rows : row.id <= b
    PROVE  /\ NextId(rows) \in Nat \ {0}
           /\ \A row \in rows : row.id < NextId(rows)
           /\ NextId(rows) <= b + 1
  <1>1. CASE rows = {}
    BY <1>1 DEF NextId
  <1>2. CASE rows # {}
    <2> DEFINE ids == {row.id : row \in rows}
               IsLast(row) == \A other \in rows : other.id <= row.id
               last == CHOOSE row \in rows : IsLast(row)
    <2>1. ids \in SUBSET Nat /\ ids # {} /\ \A i \in ids : i <= b
      BY <1>2 DEF Row
    <2>2. PICK m \in ids : \A i \in ids : i <= m
      <3> HIDE DEF ids
      <3> QED
        BY <2>1, BoundedHasGreatest
    <2>3. \E row \in rows : IsLast(row)
      BY <2>2
    <2>4. last \in rows /\ IsLast(last)
      BY <2>3
    <2>5. NextId(rows) = 1 + last.id
      BY <1>2 DEF NextId
    <2>6. last.id \in Nat \ {0} /\ last.id <= b
      BY <2>4 DEF Row
    <2>7. \A row \in rows : row.id \in Nat /\ row.id <= last.id
      BY <2>4 DEF Row
    <2> HIDE DEF last
    <2> QED
      BY <2>5, <2>6, <2>7
  <1> QED
    BY <1>1, <1>2

-----------------------------------------------------------------------------
(***************************************************************************)
(* What is kept when the storage is opened: the rows of the last messages. *)
(***************************************************************************)
KeptSince(n) == Newest(YoungerThan(n))

LEMMA KeptAreStored ==
    ASSUME NEW n
    PROVE  KeptSince(n) \subseteq storage
  BY DEF KeptSince, Newest, YoungerThan

LEMMA KeptAreLast ==
    ASSUME TypeOK, StorageInv, NEW n \in Nat,
           NEW row \in storage \ KeptSince(n), NEW kept \in KeptSince(n)
    PROVE  row.message < kept.message
  <1> DEFINE young == YoungerThan(n)
             Later(r) == {other \in young : other.id > r.id}
  <1>1. young \subseteq storage /\ kept \in young /\ storage \subseteq Row
    BY DEF TypeOK, YoungerThan, KeptSince, Newest
  <1>2. row.id \in Nat /\ kept.id \in Nat /\ row.message \in Nat /\ kept.message \in Nat
    BY <1>1 DEF Row
  <1>3. CASE row \notin young
    BY <1>1, <1>2, <1>3 DEF YoungerThan
  <1>4. CASE row \in young
    <2>1. IsFiniteSet(young)
      BY <1>1, FS_Subset DEF TypeOK
    <2>2. \A r \in young : IsFiniteSet(Later(r)) /\ Cardinality(Later(r)) \in Nat
      BY <2>1, FS_Subset, FS_CardinalityType
    <2>3. Cardinality(Later(kept)) < SizeLimit /\ ~ (Cardinality(Later(row)) < SizeLimit)
      BY <1>4 DEF KeptSince, Newest
    <2>4. ~ (Later(row) \subseteq Later(kept))
      <3> SUFFICES ASSUME Later(row) \subseteq Later(kept) PROVE FALSE
        OBVIOUS
      <3>1. Cardinality(Later(row)) <= Cardinality(Later(kept))
        BY <1>1, <2>2, FS_Subset
      <3>2. SizeLimit \in Nat
        BY CertifiedAssumption
      <3> QED
        BY <2>2, <2>3, <3>1, <3>2, <1>1, <1>4
    <2>5. PICK other \in young : other.id > row.id /\ ~ (other.id > kept.id)
      BY <2>4
    <2>6. other.id \in Nat
      BY <1>1 DEF Row
    <2>7. row.id < kept.id
      BY <1>2, <2>5, <2>6
    <2> QED
      BY <2>7, <1>1 DEF StorageInv
  <1> QED
    BY <1>3, <1>4

-----------------------------------------------------------------------------
(***************************************************************************)
(* Sequences of rows.                                                      *)
(***************************************************************************)
LEMMA RangeOfAppend ==
    ASSUME NEW S, NEW q \in Seq(S), NEW e \in S
    PROVE  Range(Append(q, e)) = Range(q) \cup {e}
  BY AppendProperties DEF Range

LEMMA RangeOfTail ==
    ASSUME NEW S, NEW q \in Seq(S), q # <<>>
    PROVE  Range(q) = {Head(q)} \cup Range(Tail(q))
  <1>1. /\ Tail(q) \in Seq(S) /\ Len(Tail(q)) = Len(q) - 1 /\ Len(q) \in Nat \ {0}
        /\ \A i \in 1 .. Len(q) - 1 : Tail(q)[i] = q[i + 1]
        /\ Head(q) = q[1]
    BY HeadTailProperties
  <1>2. DOMAIN q = 1 .. Len(q) /\ DOMAIN Tail(q) = 1 .. Len(q) - 1
    BY <1>1
  <1>3. ASSUME NEW i \in DOMAIN q PROVE q[i] \in {Head(q)} \cup Range(Tail(q))
    <2>1. CASE i = 1
      BY <1>1, <2>1
    <2>2. CASE i # 1
      <3>1. i - 1 \in DOMAIN Tail(q) /\ q[i] = Tail(q)[i - 1]
        BY <1>1, <1>2, <2>2
      <3> QED
        BY <3>1 DEF Range
    <2> QED
      BY <2>1, <2>2
  <1>4. ASSUME NEW i \in DOMAIN Tail(q) PROVE Tail(q)[i] \in Range(q)
    <2>1. i + 1 \in DOMAIN q /\ Tail(q)[i] = q[i + 1]
      BY <1>1, <1>2
    <2> QED
      BY <2>1 DEF Range
  <1>5. Head(q) \in Range(q)
    <2>1. 1 \in DOMAIN q
      BY <1>1, <1>2
    <2> QED
      BY <1>1, <2>1 DEF Range
  <1> QED
    BY <1>3, <1>4, <1>5 DEF Range

LEMMA RequeuedIsQueue ==
    ASSUME TypeOK, InFlightIsFirst, InFlight
    PROVE  Requeued = queue
  <1>1. queue \in Seq(Row) /\ queue # <<>> /\ Head(queue) = current
    BY DEF TypeOK, InFlightIsFirst
  <1> QED
    BY <1>1, SMT DEF Requeued

-----------------------------------------------------------------------------
(***************************************************************************)
(* The invariant is inductive.                                             *)
(***************************************************************************)
LEMMA InvInit ==
    ASSUME Init
    PROVE  DeliveryInv
  <1>1. TypeOK
    <2>1. storage \subseteq Row /\ IsFiniteSet(storage) /\ queue \in Seq(Row)
      BY FS_EmptySet DEF Init
    <2> QED
      BY <2>1 DEF Init, TypeOK
  <1>2. StorageInv /\ QueueInv /\ WorkerInv /\ AcceptedIsKept
    BY DEF Init, StorageInv, QueueInv, WorkerInv, AcceptedIsKept, InFlightIsFirst, InFlight, Range
  <1> QED
    BY <1>1, <1>2 DEF DeliveryInv

LEMMA AcceptKeepsInv ==
    ASSUME DeliveryInv, Accept
    PROVE  DeliveryInv'
  <1> DEFINE row == [id |-> NextId(storage), message |-> accepted + 1]
  <1> USE DEF DeliveryInv
  <1>0. /\ storage \in SUBSET Row /\ IsFiniteSet(storage) /\ accepted \in Nat
        /\ queue \in Seq(Row)
    BY DEF TypeOK
  <1>1. \A r \in storage : r.id \in Nat /\ r.message \in Nat /\ r.id <= accepted
                             /\ r.message <= accepted
    BY <1>0 DEF Row, StorageInv
  <1>2. /\ row.id \in Nat \ {0} /\ row.id <= accepted + 1
        /\ \A r \in storage : r.id < row.id
    BY <1>0, <1>1, NextIdIsNew
  <1>3. row \in Row /\ row.message = accepted + 1
    BY <1>0, <1>2 DEF Row
  <1> HIDE DEF row
  <1>4. /\ storage' = storage \cup {row} /\ queue' = Append(queue, row)
        /\ accepted' = accepted + 1 /\ pc' = WorkerNotified /\ pc # "down"
        /\ UNCHANGED <<current, answer, isConnected, isShuttingDown, sent, done, expired,
                       restarts, faults>>
    BY DEF Accept, Queued, row
  <1>5. pc' = pc \/ (pc = "asleep" /\ pc' = "wait")
    BY <1>4 DEF WorkerNotified
  <1>6. Range(queue') = Range(queue) \cup {row}
    BY <1>0, <1>3, <1>4, RangeOfAppend
  <1>7. TypeOK'
    <2>1. IsFiniteSet(storage')
      BY <1>0, <1>4, FS_AddElement
    <2> QED
      BY <1>0, <1>3, <1>4, <1>5, <2>1 DEF TypeOK
  <1>8. StorageInv'
    <2>1. accepted + 1 \notin expired
      BY <1>0 DEF TypeOK
    <2> QED
      BY <1>0, <1>1, <1>2, <1>3, <1>4, <2>1 DEF StorageInv
  <1>9. QueueInv'
    <2>1. ASSUME NEW i \in DOMAIN queue', NEW j \in DOMAIN queue', i < j
          PROVE  queue'[i].id < queue'[j].id
      <3>1. /\ DOMAIN queue = 1 .. Len(queue) /\ Len(queue) \in Nat
            /\ DOMAIN queue' = 1 .. Len(queue) + 1
            /\ \A k \in 1 .. Len(queue) : queue'[k] = queue[k]
            /\ queue'[Len(queue) + 1] = row
        BY <1>0, <1>3, <1>4, AppendProperties
      <3>2. CASE j = Len(queue) + 1
        <4>1. i \in DOMAIN queue /\ queue'[i] = queue[i] /\ queue'[j] = row
          BY <2>1, <3>1, <3>2
        <4>2. queue[i] \in storage
          BY <4>1 DEF QueueInv, Range
        <4> QED
          BY <1>2, <4>1, <4>2
      <3>3. CASE j # Len(queue) + 1
        <4>1. i \in DOMAIN queue /\ j \in DOMAIN queue
          BY <2>1, <3>1, <3>3
        <4>2. queue'[i] = queue[i] /\ queue'[j] = queue[j]
          BY <3>1, <4>1
        <4> QED
          BY <2>1, <4>1, <4>2 DEF QueueInv
      <3> QED
        BY <3>2, <3>3
    <2> QED
      BY <1>4, <1>6, <2>1 DEF QueueInv
  <1>10. WorkerInv'
    <2>1. InFlightIsFirst'
      <3>1. queue # <<>> => Head(queue') = Head(queue) /\ queue' # <<>>
        BY <1>0, <1>3, <1>4, HeadTailAppend, AppendProperties
      <3> QED
        BY <1>4, <1>5, <3>1 DEF WorkerInv, InFlightIsFirst, InFlight
    <2> QED
      BY <1>4, <1>5, <2>1 DEF WorkerInv
  <1>11. AcceptedIsKept'
    <2>1. ASSUME NEW n \in 1 .. accepted', n \notin done' \cup expired'
          PROVE  n \in MessagesIn(storage)' /\ n \in MessagesIn(Range(queue))'
      <3>1. CASE n = accepted + 1
        BY <1>3, <1>4, <1>6, <3>1 DEF MessagesIn
      <3>2. CASE n # accepted + 1
        <4>1. n \in 1 .. accepted
          BY <1>0, <1>4, <3>2
        <4> QED
          BY <1>4, <1>6, <2>1, <4>1 DEF AcceptedIsKept, MessagesIn
      <3> QED
        BY <3>1, <3>2
    <2> QED
      BY <2>1 DEF AcceptedIsKept
  <1> QED
    BY <1>7, <1>8, <1>9, <1>10, <1>11

\* Steps that leave the storage and the queue alone.
LEMMA StoredIsKept ==
    ASSUME StorageInv, QueueInv, AcceptedIsKept,
           UNCHANGED <<storage, queue, accepted, expired>>, done \subseteq done',
           pc = "down" => pc' = "down"
    PROVE  StorageInv' /\ QueueInv' /\ AcceptedIsKept'
  BY DEF StorageInv, QueueInv, AcceptedIsKept

LEMMA BookkeepingKeepsInv ==
    ASSUME DeliveryInv,
           \/ \E connected \in BOOLEAN : SetConnected(connected)
           \/ BeginDestruction \/ FallAsleep \/ LeaveLoop \/ EndBackoff
    PROVE  DeliveryInv'
  <1> USE DEF DeliveryInv
  <1>1. /\ UNCHANGED <<storage, queue, answer, accepted, sent, done, expired, faults, restarts>>
        /\ isConnected' \in BOOLEAN /\ isShuttingDown' \in BOOLEAN
        /\ current' \in {current, NoRow}
        /\ \/ pc' = pc /\ current' = current
           \/ pc \in {"asleep", "wait", "backoff"} /\ pc' \in {"asleep", "wait", "exited"}
    BY DEF TypeOK, SetConnected, BeginDestruction, FallAsleep, LeaveLoop, EndBackoff,
           WorkerNotified, WorkerProceeds, history
  <1>2. TypeOK'
    BY <1>1 DEF TypeOK
  <1>3. StorageInv' /\ QueueInv' /\ AcceptedIsKept'
    BY <1>1, StoredIsKept
  <1>4. WorkerInv'
    BY <1>1 DEF WorkerInv, InFlightIsFirst, InFlight
  <1> QED
    BY <1>2, <1>3, <1>4

LEMMA SendingKeepsInv ==
    ASSUME DeliveryInv,
           \/ TakeMessage \/ SendMessage \/ WaitForCompletion
           \/ \E status \in {"handled", "retry"} : SendCompleted(status)
    PROVE  DeliveryInv'
  <1> USE DEF DeliveryInv
  <1>0. InFlight => current \in storage /\ current.message \in 1 .. accepted
    <2>1. queue \in Seq(Row) /\ storage \subseteq Row
      BY DEF TypeOK
    <2>2. ASSUME InFlight PROVE current \in Range(queue)
      BY <2>1, <2>2, RangeOfTail DEF WorkerInv, InFlightIsFirst
    <2> QED
      BY <2>1, <2>2 DEF QueueInv, StorageInv, Row, TypeOK
  <1>1. CASE TakeMessage
    <2>1. /\ queue # <<>> /\ current' = Head(queue) /\ answer' = "none"
          /\ pc = "wait" /\ pc' = "sending"
          /\ UNCHANGED <<storage, queue, accepted, sent, done, expired, isConnected,
                         isShuttingDown, restarts, faults>>
      BY <1>1 DEF TakeMessage, WorkerProceeds, HasWork
    <2>2. current' \in Row
      BY <2>1, HeadTailProperties DEF TypeOK
    <2>3. TypeOK'
      BY <2>1, <2>2 DEF TypeOK
    <2>4. StorageInv' /\ QueueInv' /\ AcceptedIsKept'
      BY <2>1, StoredIsKept
    <2>5. WorkerInv'
      BY <2>1 DEF WorkerInv, InFlightIsFirst, InFlight
    <2> QED
      BY <2>3, <2>4, <2>5
  <1>2. CASE SendMessage
    <2>1. /\ pc = "sending" /\ pc' = "waiting" /\ sent' = sent \cup {current.message}
          /\ UNCHANGED <<storage, queue, current, answer, accepted, done, expired, isConnected,
                         isShuttingDown, restarts, faults>>
      BY <1>2 DEF SendMessage, WorkerProceeds
    <2>2. TypeOK'
      BY <1>0, <2>1 DEF TypeOK, InFlight
    <2>3. StorageInv' /\ QueueInv' /\ AcceptedIsKept'
      BY <2>1, StoredIsKept
    <2>4. WorkerInv'
      BY <2>1 DEF WorkerInv, InFlightIsFirst, InFlight
    <2> QED
      BY <2>2, <2>3, <2>4
  <1>3. CASE WaitForCompletion
    <2>1. /\ pc = "waiting" /\ pc' \in {"handled", "retry"}
          /\ pc' = "handled" => answer = "handled"
          /\ UNCHANGED <<storage, queue, current, answer, accepted, sent, done, expired,
                         isConnected, isShuttingDown, restarts, faults>>
      BY <1>3 DEF WaitForCompletion, WorkerProceeds, Status, TypeOK
    <2>2. TypeOK'
      BY <2>1 DEF TypeOK
    <2>3. StorageInv' /\ QueueInv' /\ AcceptedIsKept'
      BY <2>1, StoredIsKept
    <2>4. WorkerInv'
      BY <2>1 DEF WorkerInv, InFlightIsFirst, InFlight
    <2> QED
      BY <2>2, <2>3, <2>4
  <1>4. ASSUME NEW status \in {"handled", "retry"}, SendCompleted(status) PROVE DeliveryInv'
    <2>1. /\ pc = "waiting" /\ answer' = status
          /\ done' = IF status = "handled" THEN done \cup {current.message} ELSE done
          /\ UNCHANGED <<storage, queue, current, pc, accepted, sent, expired,
                         isConnected, isShuttingDown, restarts, faults>>
      BY <1>4 DEF SendCompleted
    <2>2. TypeOK'
      BY <1>0, <2>1 DEF TypeOK, InFlight
    <2>3. StorageInv' /\ QueueInv' /\ AcceptedIsKept'
      BY <2>1, StoredIsKept
    <2>4. answer' = "handled" => current.message \in done'
      BY <2>1
    <2>5. WorkerInv'
      BY <2>1, <2>4 DEF WorkerInv, InFlightIsFirst, InFlight
    <2> QED
      BY <2>2, <2>3, <2>5
  <1> QED
    BY <1>1, <1>2, <1>3, <1>4

LEMMA RetryKeepsInv ==
    ASSUME DeliveryInv, Retry
    PROVE  DeliveryInv'
  <1> USE DEF DeliveryInv
  <1>1. /\ pc = "retry" /\ pc' = "backoff"
        /\ UNCHANGED <<storage, queue, current, answer, accepted, sent, done, expired,
                       isConnected, isShuttingDown, restarts, faults>>
    BY RequeuedIsQueue DEF Retry, WorkerProceeds, WorkerInv, InFlight
  <1>2. TypeOK'
    BY <1>1 DEF TypeOK
  <1>3. StorageInv' /\ QueueInv' /\ AcceptedIsKept'
    BY <1>1, StoredIsKept
  <1>4. WorkerInv'
    BY <1>1 DEF WorkerInv, InFlightIsFirst, InFlight
  <1> QED
    BY <1>2, <1>3, <1>4

LEMMA FinishKeepsInv ==
    ASSUME DeliveryInv, FinishMessage
    PROVE  DeliveryInv'
  <1> USE DEF DeliveryInv
  <1>1. /\ pc = "handled" /\ pc' = "wait" /\ queue # <<>> /\ queue' = Tail(queue)
        /\ storage' \in {storage, Erased(current.id)} /\ faults' \in {faults, faults + 1}
        /\ UNCHANGED <<current, answer, accepted, sent, done, expired, isConnected,
                       isShuttingDown, restarts>>
    BY DEF FinishMessage, WorkerProceeds, Query
  <1>2. /\ queue \in Seq(Row) /\ storage \subseteq Row /\ IsFiniteSet(storage)
        /\ Head(queue) = current /\ current.message \in done
    BY <1>1 DEF TypeOK, WorkerInv, InFlightIsFirst, InFlight
  <1>3. /\ queue' \in Seq(Row) /\ Len(queue') = Len(queue) - 1 /\ Len(queue) \in Nat
        /\ DOMAIN queue' = 1 .. Len(queue) - 1 /\ DOMAIN queue = 1 .. Len(queue)
        /\ \A i \in DOMAIN queue' : queue'[i] = queue[i + 1]
        /\ Len(queue) # 0 /\ current = queue[1]
    BY <1>1, <1>2, HeadTailProperties
  <1>4. Range(queue) = {current} \cup Range(queue')
    BY <1>1, <1>2, RangeOfTail
  <1>5. storage' \subseteq storage /\ \A row \in storage : row = current \/ row \in storage'
    BY <1>1, <1>2, <1>4 DEF Erased, StorageInv, QueueInv
  <1>6. TypeOK'
    <2>1. IsFiniteSet(storage')
      BY <1>2, <1>5, FS_Subset
    <2> QED
      BY <1>1, <1>2, <1>3, <1>5, <2>1 DEF TypeOK
  <1>7. StorageInv'
    BY <1>1, <1>5 DEF StorageInv
  <1>8. QueueInv'
    <2>1. ASSUME NEW i \in DOMAIN queue', NEW j \in DOMAIN queue', i < j
          PROVE  queue'[i].id < queue'[j].id
      <3>1. i + 1 \in DOMAIN queue /\ j + 1 \in DOMAIN queue /\ i + 1 < j + 1
        BY <1>3, <2>1
      <3>2. queue'[i] = queue[i + 1] /\ queue'[j] = queue[j + 1]
        BY <1>3
      <3> QED
        BY <3>1, <3>2 DEF QueueInv
    <2>2. ASSUME NEW row \in Range(queue') PROVE row \in storage'
      <3>1. PICK i \in DOMAIN queue' : row = queue'[i]
        BY DEF Range
      <3>2. /\ 1 \in DOMAIN queue /\ i + 1 \in DOMAIN queue /\ 1 < i + 1
            /\ row = queue[i + 1]
        BY <1>3, <3>1
      <3>3. current.id < row.id
        BY <1>3, <3>2 DEF QueueInv
      <3>4. row \in storage /\ row.id \in Nat
        BY <1>2, <1>4 DEF QueueInv, Row
      <3> QED
        BY <1>5, <3>3, <3>4
    <2> QED
      BY <2>1, <2>2 DEF QueueInv
  <1>9. WorkerInv'
    BY <1>1 DEF WorkerInv, InFlightIsFirst, InFlight
  <1>10. AcceptedIsKept'
    BY <1>1, <1>2, <1>4, <1>5 DEF AcceptedIsKept, MessagesIn
  <1> QED
    BY <1>6, <1>7, <1>8, <1>9, <1>10

LEMMA ClearKeepsInv ==
    ASSUME DeliveryInv, ~InFlight, ClearData
    PROVE  DeliveryInv'
  <1> USE DEF DeliveryInv
  <1>1. /\ pc # "down" /\ queue' = <<>> /\ storage' \in {storage, {}}
        /\ done' = done \cup MessagesIn(storage) /\ faults' \in {faults, faults + 1}
        /\ UNCHANGED <<current, answer, pc, accepted, sent, expired, isConnected,
                       isShuttingDown, restarts>>
    BY DEF ClearData, Query
  <1>2. TypeOK'
    <2>1. storage' \subseteq Row /\ queue' \in Seq(Row)
      BY <1>1 DEF TypeOK
    <2>2. IsFiniteSet(storage')
      BY <1>1, FS_EmptySet DEF TypeOK
    <2>3. MessagesIn(storage) \subseteq 1 .. accepted
      BY DEF TypeOK, StorageInv, MessagesIn, Row
    <2>4. done' \subseteq 1 .. accepted
      BY <1>1, <2>3 DEF TypeOK
    <2>5. faults' \in Nat
      BY <1>1 DEF TypeOK
    <2> QED
      BY <1>1, <2>1, <2>2, <2>4, <2>5 DEF TypeOK
  <1>3. StorageInv'
    BY <1>1 DEF StorageInv
  <1>4. QueueInv'
    BY <1>1 DEF QueueInv, Range
  <1>5. WorkerInv'
    BY <1>1 DEF WorkerInv, InFlightIsFirst, InFlight
  <1>6. AcceptedIsKept'
    BY <1>1 DEF AcceptedIsKept
  <1> QED
    BY <1>2, <1>3, <1>4, <1>5, <1>6

LEMMA EndKeepsInv ==
    ASSUME DeliveryInv, EndDestruction \/ Crash
    PROVE  DeliveryInv'
  <1> USE DEF DeliveryInv
  <1>1. /\ pc # "down" /\ pc' = "down" /\ queue' = <<>> /\ current' = NoRow /\ answer' = "none"
        /\ isConnected' = FALSE /\ isShuttingDown' = FALSE /\ restarts' = restarts + 1
        /\ UNCHANGED <<storage, accepted, sent, done, expired, faults>>
    BY DEF EndDestruction, Crash, GoDown, history
  <1>2. TypeOK'
    <2>1. queue' \in Seq(Row) /\ restarts' \in Nat
      BY <1>1 DEF TypeOK
    <2> QED
      BY <1>1, <2>1 DEF TypeOK
  <1>3. StorageInv' /\ WorkerInv' /\ AcceptedIsKept'
    BY <1>1 DEF StorageInv, WorkerInv, InFlightIsFirst, InFlight, AcceptedIsKept
  <1>4. QueueInv'
    BY <1>1 DEF QueueInv, Range
  <1> QED
    BY <1>2, <1>3, <1>4

LEMMA StartKeepsInv ==
    ASSUME DeliveryInv, Start
    PROVE  DeliveryInv'
  <1> USE DEF DeliveryInv
  <1>1. PICK n \in 0 .. accepted : \E list \in Listings(KeptSince(n)) :
          /\ pc = "down" /\ pc' = "wait"
          /\ storage' = KeptSince(n) /\ queue' = list
          /\ expired' = expired \cup MessagesIn(storage \ KeptSince(n))
          /\ UNCHANGED <<current, answer, isConnected, isShuttingDown, accepted, sent, done,
                         restarts, faults>>
    BY DEF Start, KeptSince
  <1>2. /\ storage' \subseteq storage /\ storage \subseteq Row /\ IsFiniteSet(storage)
        /\ accepted \in Nat /\ n \in Nat
    BY <1>1, KeptAreStored DEF TypeOK
  <1>3. IsFiniteSet(storage')
    BY <1>2, FS_Subset
  <1>4. /\ Range(queue') = storage'
        /\ \A i, j \in DOMAIN queue' : i < j => queue'[i].id < queue'[j].id
        /\ queue' \in [1 .. Cardinality(storage') -> storage']
    BY <1>1 DEF Listings, SetToSeqs
  <1>5. TypeOK'
    <2>1. queue' \in Seq(Row)
      <3>1. Cardinality(storage') \in Nat
        BY <1>3, FS_CardinalityType
      <3>2. queue' \in [1 .. Cardinality(storage') -> Row]
        BY <1>2, <1>4
      <3> QED
        BY <3>1, <3>2, SeqDef
    <2>2. MessagesIn(storage) \subseteq 1 .. accepted
      BY <1>2 DEF StorageInv, MessagesIn, Row
    <2>3. expired' \subseteq 1 .. accepted
      BY <1>1, <2>2 DEF TypeOK, MessagesIn
    <2> QED
      BY <1>1, <1>2, <1>3, <2>1, <2>3 DEF TypeOK
  <1>6. StorageInv'
    <2>1. ASSUME NEW row \in storage' PROVE row.message \notin expired'
      <3>1. row \in storage /\ row.message \in Nat /\ row.message \notin expired
        BY <1>2 DEF StorageInv, Row
      <3>2. ASSUME NEW other \in storage \ KeptSince(n) PROVE other.message # row.message
        <4>1. other.message < row.message
          BY <1>1, <1>2, KeptAreLast
        <4>2. other.message \in Nat
          BY <1>2 DEF Row
        <4> QED
          BY <3>1, <4>1, <4>2
      <3> QED
        BY <1>1, <3>1, <3>2 DEF MessagesIn
    <2> QED
      BY <1>1, <1>2, <2>1 DEF StorageInv
  <1>7. QueueInv'
    BY <1>4 DEF QueueInv
  <1>8. WorkerInv'
    BY <1>1 DEF WorkerInv, InFlightIsFirst, InFlight
  <1>9. AcceptedIsKept'
    <2>1. ASSUME NEW m \in 1 .. accepted, m \notin done, m \notin expired'
          PROVE  m \in MessagesIn(storage')
      <3>1. m \in MessagesIn(storage)
        BY <1>1, <2>1 DEF AcceptedIsKept
      <3>2. PICK row \in storage : row.message = m
        BY <3>1 DEF MessagesIn
      <3>3. row \in KeptSince(n)
        BY <1>1, <2>1, <3>2 DEF MessagesIn
      <3> QED
        BY <1>1, <3>2, <3>3 DEF MessagesIn
    <2> QED
      BY <1>1, <1>4, <2>1 DEF AcceptedIsKept, MessagesIn
  <1> QED
    BY <1>5, <1>6, <1>7, <1>8, <1>9

LEMMA InvStep ==
    ASSUME DeliveryInv, [OrderlyNext]_vars
    PROVE  DeliveryInv'
  <1>1. CASE Accept
    BY <1>1, AcceptKeepsInv
  <1>2. CASE (\E connected \in BOOLEAN : SetConnected(connected)) \/ BeginDestruction
    BY <1>2, BookkeepingKeepsInv
  <1>3. CASE Worker
    BY <1>3, BookkeepingKeepsInv, SendingKeepsInv, RetryKeepsInv, FinishKeepsInv DEF Worker
  <1>4. CASE \E status \in {"handled", "retry"} : SendCompleted(status)
    BY <1>4, SendingKeepsInv
  <1>5. CASE EndDestruction \/ Crash
    BY <1>5, EndKeepsInv
  <1>6. CASE Start
    BY <1>6, StartKeepsInv
  <1>7. CASE ~InFlight /\ ClearData
    BY <1>7, ClearKeepsInv
  <1>8. CASE UNCHANGED vars
    BY <1>8 DEF vars, DeliveryInv, TypeOK, StorageInv, QueueInv, WorkerInv, AcceptedIsKept,
                InFlightIsFirst, InFlight
  <1> QED
    BY <1>1, <1>2, <1>3, <1>4, <1>5, <1>6, <1>7, <1>8 DEF OrderlyNext, Service

-----------------------------------------------------------------------------
(***************************************************************************)
(* The theorems.                                                           *)
(***************************************************************************)
\* The values of the variables are those of TypeOK.
THEOREM SenderTypeCorrect == OrderlySpec => []TypeOK
  <1>1. DeliveryInv => TypeOK
    BY DEF DeliveryInv
  <1> QED
    BY <1>1, InvInit, InvStep, PTL DEF OrderlySpec

\* A message that was accepted is in the storage, and in the queue of a running
\* process, until it is answered for good or given up (CertifiedSender.h).
THEOREM NoMessageIsLost == OrderlySpec => []AcceptedIsKept
  <1>1. DeliveryInv => AcceptedIsKept
    BY DEF DeliveryInv
  <1> QED
    BY <1>1, InvInit, InvStep, PTL DEF OrderlySpec

\* What mainloop() pops or replaces when an answer comes is the message answered.
THEOREM AnswersMatch == OrderlySpec => []InFlightIsFirst
  <1>1. DeliveryInv => InFlightIsFirst
    BY DEF DeliveryInv, WorkerInv
  <1> QED
    BY <1>1, InvInit, InvStep, PTL DEF OrderlySpec

(***************************************************************************)
(* Every step implements a step of CertifiedDelivery.                      *)
(***************************************************************************)
LEMMA AcceptImplements ==
    ASSUME DeliveryInv, Accept
    PROVE  Delivery!Accept
  <1>1. /\ accepted' = accepted + 1 /\ UNCHANGED <<sent, done>>
        /\ storage' = storage \cup {[id |-> NextId(storage), message |-> accepted + 1]}
    BY DEF Accept
  <1> DEFINE new == [id |-> NextId(storage), message |-> accepted + 1]
  <1>2. new.message = accepted + 1 /\ storage' = storage \cup {new}
    BY <1>1
  <1>3. MessagesIn(storage') = MessagesIn(storage) \cup {accepted + 1}
    <2> HIDE DEF new
    <2> QED
      BY <1>2 DEF MessagesIn
  <1> QED
    BY <1>1, <1>3 DEF Delivery!Accept

\* The messages that wait before the one in flight are answered.
LEMMA TransmitImplements ==
    ASSUME DeliveryInv, SendMessage
    PROVE  Delivery!Transmit(current.message) /\ current.message \in 1 .. accepted
  <1> USE DEF DeliveryInv
  <1>1. /\ pc = "sending" /\ sent' = sent \cup {current.message}
        /\ UNCHANGED <<accepted, storage, done>>
    BY DEF SendMessage, WorkerProceeds
  <1>2. /\ queue \in Seq(Row) /\ queue # <<>> /\ current = queue[1]
        /\ storage \subseteq Row /\ DOMAIN queue = 1 .. Len(queue) /\ 1 \in DOMAIN queue
    BY <1>1 DEF TypeOK, WorkerInv, InFlightIsFirst, InFlight
  <1>3. current \in storage
    BY <1>2 DEF QueueInv, Range
  <1>4. current.message \in 1 .. accepted /\ current.id \in Nat
    BY <1>2, <1>3 DEF StorageInv, Row, TypeOK
  <1>5. ASSUME NEW k \in MessagesIn(storage), k < current.message PROVE k \in done
    <2> SUFFICES ASSUME k \notin done PROVE FALSE
      OBVIOUS
    <2>1. k \in 1 .. accepted /\ k \notin expired
      BY <1>2 DEF MessagesIn, StorageInv, Row, TypeOK
    <2>2. k \in MessagesIn(Range(queue))
      BY <1>1, <2>1 DEF AcceptedIsKept
    <2>3. PICK i \in DOMAIN queue : queue[i].message = k
      BY <2>2 DEF MessagesIn, Range
    <2>4. queue[i] \in storage
      BY DEF QueueInv, Range
    <2>5. queue[i].id < current.id /\ queue[i].id \in Nat
      BY <1>2, <1>3, <1>5, <2>3, <2>4 DEF StorageInv, Row
    <2>6. ~ (1 < i)
      BY <1>2, <1>4, <2>5 DEF QueueInv
    <2>7. i = 1
      BY <1>2, <2>6
    <2> QED
      BY <1>2, <1>4, <2>5, <2>7
  <1>6. current.message \in MessagesIn(storage)
    BY <1>3 DEF MessagesIn
  <1> QED
    BY <1>1, <1>4, <1>5, <1>6 DEF Delivery!Transmit

LEMMA FinishImplements ==
    ASSUME DeliveryInv, FinishMessage
    PROVE  \/ UNCHANGED Delivery!delivery
           \/ current.message \in 1 .. accepted /\ Delivery!Forget(current.message)
  <1> USE DEF DeliveryInv
  <1>1. /\ pc = "handled" /\ storage' \in {storage, Erased(current.id)}
        /\ UNCHANGED <<accepted, sent, done>>
    BY DEF FinishMessage, WorkerProceeds
  <1>2. /\ storage \subseteq Row /\ current \in storage /\ current.message \in done
        /\ current.message \in 1 .. accepted
    <2>1. queue \in Seq(Row) /\ queue # <<>> /\ Head(queue) = current /\ storage \subseteq Row
      BY <1>1 DEF TypeOK, WorkerInv, InFlightIsFirst, InFlight
    <2>2. current \in storage
      BY <2>1, RangeOfTail DEF QueueInv
    <2> QED
      BY <1>1, <2>1, <2>2 DEF WorkerInv, StorageInv, Row, TypeOK
  <1>3. CASE storage' = storage
    BY <1>1, <1>3 DEF Delivery!delivery
  <1>4. CASE storage' = Erased(current.id)
    <2>1. \A row \in storage : row.message = current.message => row.id = current.id
      BY <1>2 DEF StorageInv, Row
    <2>2. \A row \in storage : row.id = current.id => row = current
      BY <1>2 DEF StorageInv
    <2>3. MessagesIn(storage') = MessagesIn(storage) \ {current.message}
      BY <1>4, <2>1, <2>2 DEF MessagesIn, Erased
    <2> QED
      BY <1>1, <1>2, <2>3 DEF Delivery!Forget, MessagesIn
  <1> QED
    BY <1>1, <1>3, <1>4

\* The messages given up are those up to the newest of them.
LEMMA StartImplements ==
    ASSUME DeliveryInv, Start
    PROVE  \/ UNCHANGED Delivery!delivery
           \/ \E m \in 1 .. accepted : Delivery!Expire(m)
  <1> USE DEF DeliveryInv
  <1>1. PICK n \in 0 .. accepted :
          storage' = KeptSince(n) /\ UNCHANGED <<accepted, sent, done>>
    BY DEF Start, KeptSince
  <1> DEFINE gone == storage \ KeptSince(n)
  <1>2. /\ storage' \subseteq storage /\ storage \subseteq Row /\ accepted \in Nat /\ n \in Nat
        /\ storage' = storage \ gone
    BY <1>1, KeptAreStored DEF TypeOK
  <1>3. CASE gone = {}
    BY <1>1, <1>2, <1>3 DEF Delivery!delivery
  <1>4. CASE gone # {}
    <2>1. MessagesIn(gone) \in SUBSET Nat /\ MessagesIn(gone) # {}
      BY <1>2, <1>4 DEF MessagesIn, Row
    <2>2. \A k \in MessagesIn(gone) : k \in 1 .. accepted /\ k <= accepted
      BY <1>2 DEF MessagesIn, StorageInv, Row
    <2>3. PICK m \in MessagesIn(gone) : \A k \in MessagesIn(gone) : k <= m
      BY <1>2, <2>1, <2>2, BoundedHasGreatest
    <2>4. PICK last \in gone : last.message = m
      BY <2>3 DEF MessagesIn
    <2>5. ASSUME NEW row \in storage PROVE row \in storage' <=> row.message > m
      <3>1. row.message \in Nat /\ m \in Nat
        BY <1>2, <2>1 DEF Row
      <3>2. CASE row \in storage'
        <4>1. last.message < row.message
          BY <1>1, <1>2, <3>2, KeptAreLast
        <4> QED
          BY <2>4, <3>1, <3>2, <4>1
      <3>3. CASE row \notin storage'
        <4>1. row.message \in MessagesIn(gone)
          BY <1>2, <3>3 DEF MessagesIn
        <4> QED
          BY <2>3, <3>1, <3>3, <4>1
      <3> QED
        BY <3>2, <3>3
    <2>6. MessagesIn(storage') = {k \in MessagesIn(storage) : k > m}
      BY <1>2, <2>5 DEF MessagesIn
    <2> QED
      BY <1>1, <2>2, <2>6 DEF Delivery!Expire
  <1> QED
    BY <1>3, <1>4

LEMMA StepImplements ==
    ASSUME DeliveryInv, [OrderlyNext]_vars
    PROVE  [Delivery!Next]_(Delivery!delivery)
  <1> USE DEF Delivery!delivery
  <1>1. CASE Accept
    BY <1>1, AcceptImplements DEF Delivery!Next
  <1>2. ASSUME \/ \E connected \in BOOLEAN : SetConnected(connected)
               \/ BeginDestruction \/ EndDestruction \/ Crash
               \/ FallAsleep \/ LeaveLoop \/ TakeMessage \/ WaitForCompletion
               \/ Retry \/ EndBackoff
        PROVE  UNCHANGED Delivery!delivery
    <2>1. UNCHANGED <<storage, accepted, sent, done>>
      BY <1>2 DEF SetConnected, BeginDestruction, EndDestruction, Crash, GoDown, FallAsleep,
                  LeaveLoop, TakeMessage, WaitForCompletion, Retry, EndBackoff,
                  WorkerProceeds, history
    <2> QED
      BY <2>1
  <1>3. CASE SendMessage
    BY <1>3, TransmitImplements DEF Delivery!Next
  <1>4. CASE FinishMessage
    BY <1>4, FinishImplements DEF Delivery!Next
  <1>5. ASSUME NEW status \in {"handled", "retry"}, SendCompleted(status)
        PROVE  [Delivery!Next]_(Delivery!delivery)
    <2>1. /\ pc = "waiting" /\ UNCHANGED <<storage, accepted, sent>>
          /\ done' = IF status = "handled" THEN done \cup {current.message} ELSE done
      BY <1>5 DEF SendCompleted
    <2>2. current.message \in sent /\ sent \subseteq 1 .. accepted
      BY <2>1 DEF DeliveryInv, WorkerInv, TypeOK
    <2>3. CASE status = "handled"
      BY <2>1, <2>2, <2>3 DEF Delivery!Answer, Delivery!Next
    <2>4. CASE status # "handled"
      BY <2>1, <2>4
    <2> QED
      BY <2>3, <2>4
  <1>6. CASE Start
    BY <1>6, StartImplements DEF Delivery!Next
  <1>7. CASE ClearData
    <2>1. /\ storage' \in {storage, {}} /\ done' = done \cup MessagesIn(storage)
          /\ UNCHANGED <<accepted, sent>>
      BY <1>7 DEF ClearData
    <2>2. MessagesIn(storage') \in {MessagesIn(storage), {}}
      BY <2>1 DEF MessagesIn
    <2> QED
      BY <2>1, <2>2 DEF Delivery!Clear, Delivery!Next
  <1>8. CASE UNCHANGED vars
    BY <1>8 DEF vars
  <1> QED
    BY <1>1, <1>2, <1>3, <1>4, <1>5, <1>6, <1>7, <1>8 DEF OrderlyNext, Service, Worker

\* The sender, with its threads, crashes and restarts, keeps the promise of
\* CertifiedDelivery: at least once, and in order.
THEOREM SenderImplementsDelivery == OrderlySpec => ImplementsDelivery
  <1>1. Init => Delivery!Init
    BY DEF Init, Delivery!Init, MessagesIn
  <1>2. DeliveryInv /\ [OrderlyNext]_vars => [Delivery!Next]_(Delivery!delivery)
    BY StepImplements
  <1> QED
    BY <1>1, <1>2, InvInit, InvStep, PTL DEF OrderlySpec, ImplementsDelivery, Delivery!Spec
=============================================================================
