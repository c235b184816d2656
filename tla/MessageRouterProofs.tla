-------------------------- MODULE MessageRouterProofs --------------------------
(***************************************************************************)
(* Theorems about the connection, for any number of transports, messages,  *)
(* callers and calls.                                                      *)
(***************************************************************************)
EXTENDS HTTP2Transport, LeastNumbers, SequenceTheorems, FiniteSetTheorems, TLAPS

\* A transport that the network may still connect, or that is connected.
Pulls(t) == transport[t].state \in {"CONNECTING", "CONNECTED"}

\* A transport begins when the router connects it, and the main loop comes after
\* the state.
LoopInv ==
    \A t \in Transport :
        /\ transport[t].at = "none" <=> transport[t].state = "INIT"
        /\ transport[t].state = "CONNECTING" => transport[t].at = "CONNECTING"
        /\ transport[t].state = "CONNECTED" =>
             transport[t].at \in {"CONNECTING", "handleConnected", "sending"}

\* The transports that the router lists and those that callers stop have begun.
Begun(t) == transport[t].state # "INIT"

ListedBegun ==
    \A t \in Transport :
        t \in router.transports \/ (\E c \in Caller : t \in caller[c].left) => Begun(t)

-----------------------------------------------------------------------------
(***************************************************************************)
(* Types.                                                                  *)
(***************************************************************************)
LEMMA MinIsMember ==
    ASSUME NEW S \in SUBSET Nat, S # {}
    PROVE  Min(S) \in S
  BY NonemptyHasLeast DEF Min

LEMMA NoneIsNoTransport == None \notin Transport
  BY RouterAssumption DEF Transport

\* The factory makes a new transport, or none.
LEMMA MadeIsUnused ==
    ASSUME NEW u \in Made
    PROVE  u = None \/ (u \in Transport /\ transport[u].state = "INIT")
  <1> DEFINE unused == {t \in Transport : transport[t].state = "INIT"}
  <1>1. unused \in SUBSET Nat
    BY DEF Transport
  <1>2. unused # {} => Min(unused) \in unused
    <2> HIDE DEF unused
    <2> QED
      BY <1>1, MinIsMember
  <1> QED
    BY <1>2 DEF Made

LEMMA SubmitType ==
    ASSUME NEW r \in RouterType, NEW task \in TaskType
    PROVE  Submit(r, task) \in RouterType
  <1>1. r.tasks \in Seq(TaskType)
    BY DEF RouterType
  <1>2. Append(r.tasks, task) \in Seq(TaskType)
    BY <1>1, AppendProperties
  <1> QED
    BY <1>2 DEF RouterType, Submit

LEMMA SetStatusType ==
    ASSUME NEW r \in RouterType, NEW status \in Status, NEW reason \in Reason
    PROVE  SetStatus(r, status, reason) \in RouterType
  <1> DEFINE task == [does |-> "report", status |-> status, reason |-> reason]
             s == [r EXCEPT !.status = status]
  <1>1. task \in TaskType
    BY DEF TaskType
  <1>2. s \in RouterType
    BY DEF RouterType
  <1>3. Submit(s, task) \in RouterType
    <2> HIDE DEF s, task
    <2> QED
      BY <1>1, <1>2, SubmitType
  <1> QED
    BY <1>3 DEF SetStatus

LEMMA CreateActiveType ==
    ASSUME NEW r \in RouterType, NEW u \in Transport \cup {None}
    PROVE  CreateActive(r, u) \in RouterType
  <1>1. CASE u # None
    BY <1>1 DEF CreateActive, RouterType
  <1>2. CASE u = None
    <2> DEFINE s == [r EXCEPT !.active = None]
    <2>1. s \in RouterType
      BY DEF RouterType
    <2>2. "DISCONNECTED" \in Status /\ "INTERNAL_ERROR" \in Reason
      BY DEF Status, Reason
    <2> HIDE DEF s
    <2>3. SetStatus(s, "DISCONNECTED", "INTERNAL_ERROR") \in RouterType
      BY <2>1, <2>2, SetStatusType
    <2> QED
      BY <1>2, <2>3 DEF CreateActive, s
  <1> QED
    BY <1>1, <1>2

LEMMA DisconnectAllType ==
    ASSUME NEW r \in RouterType, NEW reason \in Reason
    PROVE  DisconnectAll(r, reason) \in RouterType
  <1> DEFINE s == [r EXCEPT !.active = None, !.transports = {}]
  <1>1. s \in RouterType
    BY DEF RouterType
  <1>2. "DISCONNECTED" \in Status
    BY DEF Status
  <1> HIDE DEF s
  <1>3. SetStatus(s, "DISCONNECTED", reason) \in RouterType
    BY <1>1, <1>2, SetStatusType
  <1> QED
    BY <1>3 DEF DisconnectAll, s

LEMMA AtType ==
    ASSUME NEW f \in [Transport -> TransportType], NEW t \in Transport, NEW at \in MainLoopAt
    PROVE  [f EXCEPT ![t].at = at] \in [Transport -> TransportType]
  BY DEF TransportType

LEMMA StateType ==
    ASSUME NEW f \in [Transport -> TransportType], NEW t \in Transport,
           NEW state \in TransportState
    PROVE  [f EXCEPT ![t].state = state] \in [Transport -> TransportType]
  BY DEF TransportType

LEMMA ReasonType ==
    ASSUME NEW f \in [Transport -> TransportType], NEW t \in Transport, NEW reason \in Reason
    PROVE  [f EXCEPT ![t].reason = reason] \in [Transport -> TransportType]
  BY DEF TransportType

LEMMA TransportFields ==
    ASSUME NEW f \in [Transport -> TransportType], NEW t \in Transport
    PROVE  f[t].state \in TransportState /\ f[t].reason \in Reason /\ f[t].at \in MainLoopAt
  BY DEF TransportType

LEMMA SetShutdownType ==
    ASSUME transport \in [Transport -> TransportType], NEW t \in Transport,
           NEW reason \in Reason, SetShutdown(t, reason)
    PROVE  transport' \in [Transport -> TransportType]
  <1> DEFINE f == [transport EXCEPT ![t].state = "SHUTDOWN"]
             q == IF transport[t].reason = "NONE" THEN reason ELSE transport[t].reason
  <1>1. f \in [Transport -> TransportType]
    BY StateType DEF TransportState
  <1>2. q \in Reason
    BY TransportFields
  <1>3. transport' = [f EXCEPT ![t].reason = q]
    BY <1>2 DEF SetShutdown, TransportType, Reason
  <1> QED
    BY <1>1, <1>2, <1>3, ReasonType

LEMMA HandlerType ==
    ASSUME NEW state \in TransportState \ {"INIT", "CONNECTING"}
    PROVE  Handler(state) \in {"handleConnected", "handleServerSideDisconnect", "handleShutdown"}
  BY DEF Handler, TransportState

LEMMA ConnectType ==
    ASSUME NEW state \in [Transport -> TransportType], NEW u \in Transport \cup {None}
    PROVE  Connect(state, u) \in [Transport -> TransportType]
  <1> DEFINE f == [state EXCEPT ![u].state = "CONNECTING"]
  <1>1. CASE u = None
    BY <1>1 DEF Connect
  <1>2. CASE u # None
    <2>1. f \in [Transport -> TransportType]
      BY <1>2, StateType DEF TransportState
    <2>2. [f EXCEPT ![u].at = "CONNECTING"] \in [Transport -> TransportType]
      <3> HIDE DEF f
      <3> QED
        BY <1>2, <2>1, AtType DEF MainLoopAt
    <2> QED
      BY <1>2, <2>2 DEF Connect
  <1> QED
    BY <1>1, <1>2

\* What the router is after enable(), onServerSideDisconnect(),
\* onDisconnected() and setAVSGateway() have made a transport.
LEMMA CreateAndConnectType ==
    ASSUME TypeOK, NEW r \in RouterType, NEW state \in [Transport -> TransportType],
           NEW u \in Made
    PROVE  /\ CreateActive(r, u) \in RouterType
           /\ Connect(state, u) \in [Transport -> TransportType]
  BY MadeIsUnused, CreateActiveType, ConnectType

QueueOf == [requests : Seq(Request), waiting : BOOLEAN]

LEMMA QueueType ==
    ASSUME NEW q \in QueueOf
    PROVE  /\ q.requests # <<>> =>
                DequeueOldest(q) \in QueueOf /\ Head(q.requests) \in Request
           /\ ClearWaiting(q) \in QueueOf /\ SetWaiting(q) \in QueueOf
           /\ \A r \in Request : Enqueue(q, r) \in QueueOf
  <1>1. q.requests \in Seq(Request)
    BY DEF QueueOf
  <1>2. q.requests # <<>> => Head(q.requests) \in Request /\ Tail(q.requests) \in Seq(Request)
    BY <1>1, HeadTailProperties
  <1>3. q.requests # <<>> => DequeueOldest(q) \in QueueOf
    BY <1>2 DEF DequeueOldest, QueueOf
  <1>4. ClearWaiting(q) \in QueueOf /\ SetWaiting(q) \in QueueOf
    BY DEF ClearWaiting, SetWaiting, QueueOf
  <1>5. ASSUME NEW r \in Request PROVE Enqueue(q, r) \in QueueOf
    <2>1. Append(q.requests, r) \in Seq(Request)
      BY <1>1, AppendProperties
    <2> QED
      BY <2>1 DEF Enqueue, QueueOf
  <1> QED
    BY <1>2, <1>3, <1>4, <1>5

\* What is sent next is a message, and may be sent.
LEMMA NextSendableIs ==
    ASSUME NEW q \in QueueOf,
           IsMessageRequestAvailable(q)
    PROVE  /\ NextSendable(q) \in Request
           /\ NextSendable(q) \in Serialized => ~q.waiting
           /\ DequeueSendable(q) \in QueueOf
           /\ DequeueSendable(q).waiting = q.waiting
  <1> DEFINE i == Min(SendableAt(q))
  <1>1. SendableAt(q) \in SUBSET Nat /\ SendableAt(q) # {}
    <2>1. DOMAIN q.requests = 1 .. Len(q.requests)
      BY DEF QueueOf
    <2> QED
      BY <2>1 DEF SendableAt, IsMessageRequestAvailable
  <1>2. i \in SendableAt(q)
    BY <1>1, MinIsMember
  <1>3. i \in DOMAIN q.requests /\ (~q.waiting \/ q.requests[i] \notin Serialized)
    BY <1>2 DEF SendableAt
  <1> HIDE DEF i
  <1>4. q.requests \in Seq(Request) /\ i \in 1 .. Len(q.requests)
    BY <1>3 DEF QueueOf
  <1>5. RemoveAt(q.requests, i) \in Seq(Request)
    <2>1. i - 1 \in Nat /\ i + 1 \in Nat /\ i \in Nat /\ Len(q.requests) \in Nat
      BY <1>4
    <2>2. \A j \in 1 .. Len(q.requests) : q.requests[j] \in Request
      BY <1>4, ElementOfSeq
    <2>3. /\ \A j \in 1 .. i - 1 : q.requests[j] \in Request
          /\ \A j \in i + 1 .. Len(q.requests) : q.requests[j] \in Request
      BY <1>4, <2>1, <2>2
    <2>4. SubSeq(q.requests, 1, i - 1) \in Seq(Request)
      BY <2>1, <2>3, SubSeqProperties
    <2>5. SubSeq(q.requests, i + 1, Len(q.requests)) \in Seq(Request)
      BY <2>1, <2>3, SubSeqProperties
    <2> QED
      BY <2>4, <2>5, ConcatProperties DEF RemoveAt
  <1> QED
    BY <1>3, <1>4, <1>5 DEF NextSendable, DequeueSendable, QueueOf, i

LEMMA InitType == Init => TypeOK
  <1> SUFFICES ASSUME Init PROVE TypeOK
    OBVIOUS
  <1>1. router \in RouterType
    BY EmptySeq DEF Init, RouterType, Status
  <1>2. transport \in [Transport -> TransportType]
    BY DEF Init, TransportType, TransportState, MainLoopAt, Reason
  <1>3. reporter \in [last : Status, pending : BOOLEAN, timer : BOOLEAN]
    BY DEF Init, Status
  <1> QED
    BY <1>1, <1>2, <1>3, EmptySeq DEF Init, TypeOK, EmptyQueue, Idle

\* The steps of the callers.
LEMMA CallerType ==
    ASSUME TypeOK, NEW c \in Caller,
           \/ Enable(c) \/ Disable(c) \/ SetAVSGateway(c) \/ Shutdown(c)
           \/ ShutdownTransport(c) \/ TransportIsShutdown(c)
           \/ DisableReturns(c) \/ SetAVSGatewayReturns(c)
           \/ DisabledForShutdown(c) \/ Drain(c) \/ StopExecutor(c)
    PROVE  TypeOK'
  <1> USE DEF TypeOK
  <1>1. CASE Enable(c)
    <2> DEFINE r == [router EXCEPT !.enabled = TRUE]
               s == SetStatus(r, "PENDING", "ACL_CLIENT_REQUEST")
    <2>1. r \in RouterType
      BY DEF RouterType
    <2>2. s \in RouterType
      <3> HIDE DEF r
      <3> QED
        BY <2>1, SetStatusType DEF Status, Reason
    <2>3. router' \in RouterType /\ transport' \in [Transport -> TransportType]
      <3> HIDE DEF s
      <3> QED
        BY <1>1, <2>2, CreateAndConnectType DEF Enable, s
    <2> QED
      BY <1>1, <2>3 DEF Enable, Call, messages
  <1>2. ASSUME NEW r \in RouterType, NEW reason \in Reason,
               NEW what \in {"disable", "setAVSGateway", "doShutdown"},
               TakeTransports(c, r, reason, what)
        PROVE  /\ router' \in RouterType
               /\ caller' \in [Caller ->
                     [at : {"idle", "disable", "setAVSGateway", "doShutdown", "drain",
                            "stop", "stopped"},
                      left : SUBSET Transport]]
    BY <1>2, DisconnectAllType DEF TakeTransports, RouterType
  <1>3. /\ [router EXCEPT !.enabled = FALSE] \in RouterType
        /\ "ACL_CLIENT_REQUEST" \in Reason /\ "SERVER_ENDPOINT_CHANGED" \in Reason
    BY DEF RouterType, Reason
  <1>4. CASE Disable(c)
    <2>1. PICK r \in RouterType : TakeTransports(c, r, "ACL_CLIENT_REQUEST", "disable")
      BY <1>3, <1>4 DEF Disable
    <2> QED
      BY <1>2, <1>3, <1>4, <2>1 DEF Disable, Call, messages
  <1>5. CASE SetAVSGateway(c)
    BY <1>2, <1>3, <1>5 DEF SetAVSGateway, Call, messages
  <1>6. CASE Shutdown(c)
    BY <1>2, <1>3, <1>6 DEF Shutdown, messages
  <1>7. CASE ShutdownTransport(c)
    <2>1. Min(caller[c].left) \in Transport
      BY <1>7, MinIsMember DEF ShutdownTransport, Transport
    <2>2. transport' \in [Transport -> TransportType]
      BY <1>3, <1>7, <2>1, SetShutdownType DEF ShutdownTransport
    <2> QED
      BY <1>7, <2>2 DEF ShutdownTransport, messages
  <1>8. CASE TransportIsShutdown(c)
    BY <1>8 DEF TransportIsShutdown, messages
  <1>9. CASE DisableReturns(c)
    BY <1>9 DEF DisableReturns, Returns, Idle, messages
  <1>10. CASE SetAVSGatewayReturns(c)
    <2>1. router' \in RouterType /\ transport' \in [Transport -> TransportType]
      BY <1>10, CreateAndConnectType DEF SetAVSGatewayReturns
    <2> QED
      BY <1>10, <2>1 DEF SetAVSGatewayReturns, Returns, Idle, messages
  <1>11. CASE DisabledForShutdown(c)
    BY <1>11 DEF DisabledForShutdown, messages
  <1>12. CASE Drain(c)
    <2>1. queue' \in QueueOf
      BY <1>12, EmptySeq DEF Drain, QueueOf
    <2>2. place' \in [Request -> {"new", "queued", "sent", "acknowledged", "completed"}]
      BY <1>12 DEF Drain
    <2>3. caller' \in [Caller ->
             [at : {"idle", "disable", "setAVSGateway", "doShutdown", "drain", "stop",
                    "stopped"},
              left : SUBSET Transport]]
      BY <1>12 DEF Drain
    <2>4. UNCHANGED <<router, reporter, transport, carrier, calls, overlapped, flagLost>>
      BY <1>12 DEF Drain
    <2> QED
      BY <2>1, <2>2, <2>3, <2>4 DEF QueueOf
  <1>13. CASE StopExecutor(c)
    <2>1. router' \in RouterType
      BY <1>13, EmptySeq DEF StopExecutor, RouterType
    <2> QED
      BY <1>13, <2>1 DEF StopExecutor, messages
  <1> QED
    BY <1>1, <1>4, <1>5, <1>6, <1>7, <1>8, <1>9, <1>10, <1>11, <1>12, <1>13

\* The steps of a message.
LEMMA RequestType ==
    ASSUME TypeOK, NEW r \in Request,
           SendMessage(r) \/ OnReceiveResponseCode(r) \/ OnResponseFinished(r)
    PROVE  TypeOK'
  <1> USE DEF TypeOK
  <1>1. queue \in QueueOf
    BY DEF QueueOf
  <1>2. OthersAwaited(carrier[r]) \in BOOLEAN
    BY DEF OthersAwaited
  <1>3. ASSUME Acknowledged(r) PROVE queue' \in QueueOf /\ flagLost' \in BOOLEAN
    BY <1>1, <1>2, <1>3, QueueType DEF Acknowledged, ClearsFlag
  <1>4. CASE SendMessage(r)
    <2>1. queue' \in QueueOf
      BY <1>1, <1>4, QueueType DEF SendMessage
    <2> QED
      BY <1>4, <2>1 DEF SendMessage, QueueOf
  <1>5. CASE OnReceiveResponseCode(r)
    BY <1>3, <1>5 DEF OnReceiveResponseCode, KeepsCalls, QueueOf
  <1>6. CASE OnResponseFinished(r)
    BY <1>3, <1>6 DEF OnResponseFinished, KeepsCalls, QueueOf
  <1> QED
    BY <1>4, <1>5, <1>6

\* The steps of a transport.
LEMMA TransportStepType ==
    ASSUME TypeOK, LoopInv, NEW t \in Transport,
           \/ OnPostConnected(t) \/ OnDownchannelFinished(t) \/ Fails(t)
           \/ NextState(t) \/ TimesOut(t) \/ HandleConnected(t) \/ SendsMessage(t)
           \/ HandleServerSideDisconnect(t) \/ HandleDisconnecting(t)
           \/ HandleShutdown(t) \/ Disconnect(t)
    PROVE  TypeOK'
  <1> USE DEF TypeOK
  <1>1. queue \in QueueOf
    BY DEF QueueOf
  <1>2. ASSUME NEW u \in Transport, ClearsFlag(u)
        PROVE  queue' \in QueueOf /\ flagLost' \in BOOLEAN
    BY <1>1, <1>2, QueueType DEF ClearsFlag, OthersAwaited
  <1>3. CASE OnPostConnected(t)
    <2>1. transport' \in [Transport -> TransportType]
      BY <1>3, StateType DEF OnPostConnected, TransportState
    <2> QED
      BY <1>3, <2>1 DEF OnPostConnected, KeepsCalls, messages
  <1>4. CASE OnDownchannelFinished(t)
    <2>1. transport' \in [Transport -> TransportType]
      <3> DEFINE f == [transport EXCEPT ![t].state = "SERVER_SIDE_DISCONNECT"]
      <3>1. f \in [Transport -> TransportType]
        BY StateType DEF TransportState
      <3>2. [f EXCEPT ![t].reason = "SERVER_SIDE_DISCONNECT"] \in [Transport -> TransportType]
        <4> HIDE DEF f
        <4> QED
          BY <3>1, ReasonType DEF Reason
      <3> QED
        BY <1>4, <3>2 DEF OnDownchannelFinished
    <2> QED
      BY <1>4, <2>1 DEF OnDownchannelFinished, KeepsCalls, messages
  <1>5. CASE Fails(t)
    <2>1. transport' \in [Transport -> TransportType]
      BY <1>5, SetShutdownType DEF Fails, Reason
    <2> QED
      BY <1>5, <2>1 DEF Fails, KeepsCalls, messages
  <1>6. CASE HandleConnected(t)
    <2>1. router' \in RouterType
      BY <1>6, SetStatusType DEF HandleConnected, Status, Reason
    <2>2. transport' \in [Transport -> TransportType]
      BY <1>6, AtType DEF HandleConnected, Goes, MainLoopAt
    <2> QED
      BY <1>6, <2>1, <2>2 DEF HandleConnected, KeepsCalls, messages
  <1>7. CASE TimesOut(t)
    <2>1. queue' \in QueueOf /\ Head(queue.requests) \in Request
      BY <1>1, <1>7, QueueType DEF TimesOut
    <2> QED
      BY <1>7, <2>1 DEF TimesOut, KeepsCalls, QueueOf
  <1>8. CASE SendsMessage(t)
    <2> DEFINE r == NextSendable(queue)
               rest == DequeueSendable(queue)
    <2>1. r \in Request /\ rest \in QueueOf
      BY <1>1, <1>8, NextSendableIs DEF SendsMessage
    <2>2. queue' \in QueueOf
      <3> HIDE DEF rest, r
      <3> QED
        BY <1>8, <2>1, QueueType DEF SendsMessage, rest, r
    <2>3. /\ place' \in [Request -> {"new", "queued", "sent", "acknowledged", "completed"}]
          /\ carrier' \in [Request -> Transport \cup {None}]
      <3> HIDE DEF rest, r
      <3> QED
        BY <1>8, <2>1 DEF SendsMessage, rest, r
    <2> QED
      BY <1>8, <2>2, <2>3 DEF SendsMessage, KeepsCalls, QueueOf
  <1>9. CASE NextState(t)
    <2>1. transport[t].state \notin {"INIT", "CONNECTING"}
      BY <1>9 DEF NextState, LoopInv
    <2>2. transport' \in [Transport -> TransportType]
      <3>1. Handler(transport[t].state) \in MainLoopAt
        BY <2>1, HandlerType, TransportFields DEF MainLoopAt
      <3> QED
        BY <1>9, <3>1, AtType DEF NextState, Goes
    <2> QED
      BY <1>9, <2>2 DEF NextState, KeepsCalls, messages
  <1>10. CASE HandleServerSideDisconnect(t)
    <2> DEFINE gone == [transport EXCEPT ![t].at = "handleDisconnecting"]
               r == SetStatus(router, "PENDING", "SERVER_SIDE_DISCONNECT")
    <2>1. gone \in [Transport -> TransportType] /\ r \in RouterType
      BY SetStatusType, AtType DEF Status, Reason, MainLoopAt
    <2>2. router' \in RouterType /\ transport' \in [Transport -> TransportType]
      <3>1. \/ transport' = gone /\ router' = router
            \/ \E u \in Made : router' = CreateActive(r, u) /\ transport' = Connect(gone, u)
        BY <1>10 DEF HandleServerSideDisconnect
      <3> HIDE DEF gone, r
      <3>2. ASSUME NEW u \in Made
            PROVE  /\ CreateActive(r, u) \in RouterType
                   /\ Connect(gone, u) \in [Transport -> TransportType]
        BY <2>1, CreateAndConnectType
      <3> QED
        BY <2>1, <3>1, <3>2
    <2> QED
      BY <1>10, <2>2 DEF HandleServerSideDisconnect, KeepsCalls, messages
  <1>11. CASE HandleDisconnecting(t)
    <2>1. transport' \in [Transport -> TransportType]
      <3> DEFINE q == IF transport[t].reason = "NONE" THEN "SUCCESS" ELSE transport[t].reason
                 f == [transport EXCEPT ![t].state = "SHUTDOWN"]
                 g == [f EXCEPT ![t].reason = q]
      <3>1. f \in [Transport -> TransportType] /\ q \in Reason
        BY StateType, TransportFields DEF TransportState, Reason
      <3>2. g \in [Transport -> TransportType]
        <4> HIDE DEF f, q
        <4> QED
          BY <3>1, ReasonType
      <3>3. [g EXCEPT ![t].at = "handleShutdown"] \in [Transport -> TransportType]
        <4> HIDE DEF g
        <4> QED
          BY <3>2, AtType DEF MainLoopAt
      <3>4. transport' = [g EXCEPT ![t].at = "handleShutdown"]
        BY <1>11 DEF HandleDisconnecting, TransportType
      <3> QED
        BY <3>3, <3>4
    <2> QED
      BY <1>11, <2>1 DEF HandleDisconnecting, KeepsCalls, messages
  <1>12. CASE HandleShutdown(t)
    <2>1. transport' \in [Transport -> TransportType]
      BY <1>12, AtType DEF HandleShutdown, Goes, MainLoopAt
    <2>2. queue' \in QueueOf /\ flagLost' \in BOOLEAN
      BY <1>2, <1>12 DEF HandleShutdown
    <2> QED
      BY <1>12, <2>1, <2>2 DEF HandleShutdown, KeepsCalls, QueueOf
  <1>13. CASE Disconnect(t)
    <2>1. /\ queue' \in QueueOf /\ flagLost' \in BOOLEAN
          /\ place' \in [Request -> {"new", "queued", "sent", "acknowledged", "completed"}]
          /\ carrier' = carrier
      BY <1>1, <1>2, <1>13 DEF Disconnect, CancelAllStreams
    <2>2. router' \in RouterType /\ transport' \in [Transport -> TransportType]
      <3> DEFINE reason == transport[t].reason
                 ended  == [transport EXCEPT ![t].at = "ended"]
                 listed == [router EXCEPT !.transports = @ \ {t}]
                 lost   == [listed EXCEPT !.active = None]
      <3>1. /\ reason \in Reason /\ ended \in [Transport -> TransportType]
            /\ "PENDING" \in Status /\ "DISCONNECTED" \in Status
        BY AtType, TransportFields DEF MainLoopAt, Status
      <3>2. listed \in RouterType /\ lost \in RouterType
        BY DEF RouterType
      <3>3. OnDisconnected(t)
        BY <1>13 DEF Disconnect
      <3>4. /\ SetStatus(lost, "PENDING", reason) \in RouterType
            /\ SetStatus(lost, "DISCONNECTED", reason) \in RouterType
        <4> HIDE DEF reason, ended, listed, lost
        <4> QED
          BY <3>1, <3>2, SetStatusType
      <3>5. \/ /\ router' \in {listed, lost, SetStatus(lost, "DISCONNECTED", reason)}
               /\ transport' = ended
            \/ \E u \in Made : /\ router' = CreateActive(SetStatus(lost, "PENDING", reason), u)
                               /\ transport' = Connect(ended, u)
        BY <3>3 DEF OnDisconnected
      <3> HIDE DEF reason, ended, listed, lost
      <3> QED
        <4>1. ASSUME NEW u \in Made
              PROVE  /\ CreateActive(SetStatus(lost, "PENDING", reason), u) \in RouterType
                     /\ Connect(ended, u) \in [Transport -> TransportType]
          BY <3>1, <3>4, CreateAndConnectType
        <4> QED
          BY <3>1, <3>2, <3>4, <3>5, <4>1
    <2> QED
      BY <1>13, <2>1, <2>2 DEF Disconnect, KeepsCalls, QueueOf
  <1> QED
    BY <1>3, <1>4, <1>5, <1>6, <1>7, <1>8, <1>9, <1>10, <1>11, <1>12, <1>13

\* The steps of the executor and of the timer.
LEMMA ReporterType ==
    ASSUME TypeOK, NotifyObserver \/ TimerExpires \/ GraceIsOver
    PROVE  TypeOK'
  <1> USE DEF TypeOK
  <1>1. router.tasks \in Seq(TaskType)
    BY DEF RouterType
  <1>2. ASSUME router.tasks # <<>>
        PROVE  Task \in TaskType /\ [router EXCEPT !.tasks = Tail(@)] \in RouterType
    <2>1. Tail(router.tasks) \in Seq(TaskType) /\ Task \in TaskType
      BY <1>1, <1>2, HeadTailProperties DEF Task
    <2> QED
      BY <2>1 DEF RouterType
  <1>3. CASE NotifyObserver
    <2>1. Task.status \in Status
      BY <1>2, <1>3 DEF NotifyObserver, TaskType
    <2>2. reporter' \in [last : Status, pending : BOOLEAN, timer : BOOLEAN]
      BY <1>3, <2>1 DEF NotifyObserver, Reported
    <2> QED
      BY <1>2, <1>3, <2>2 DEF NotifyObserver, Done, KeepsCalls, messages
  <1>4. CASE TimerExpires
    <2>1. [does |-> "graceOver"] \in TaskType
      BY DEF TaskType
    <2>2. router' \in RouterType
      BY <1>4, <2>1, SubmitType DEF TimerExpires
    <2> QED
      BY <1>4, <2>2 DEF TimerExpires, KeepsCalls, messages
  <1>5. CASE GraceIsOver
    <2>1. reporter' \in [last : Status, pending : BOOLEAN, timer : BOOLEAN]
      BY <1>5 DEF GraceIsOver, Status
    <2> QED
      BY <1>2, <1>5, <2>1 DEF GraceIsOver, Done, KeepsCalls, messages
  <1> QED
    BY <1>3, <1>4, <1>5

LEMMA NextType == TypeOK /\ LoopInv /\ [Next]_vars => TypeOK'
  <1> SUFFICES ASSUME TypeOK, LoopInv, [Next]_vars PROVE TypeOK'
    OBVIOUS
  <1>1. CASE UNCHANGED vars
    BY <1>1 DEF TypeOK, vars, messages
  <1>2. CASE Next
    BY <1>2, CallerType, RequestType, TransportStepType, ReporterType DEF Next
  <1> QED
    BY <1>1, <1>2

-----------------------------------------------------------------------------
(***************************************************************************)
(* What the router's parts do to the fields that the invariants relate.    *)
(***************************************************************************)
SameLists(r, s) ==
    r.enabled = s.enabled /\ r.active = s.active /\ r.transports = s.transports

LEMMA SetStatusLists ==
    ASSUME NEW r \in RouterType, NEW status, NEW reason
    PROVE  SameLists(SetStatus(r, status, reason), r)
  BY DEF SetStatus, Submit, SameLists, RouterType

LEMMA CreateActiveLists ==
    ASSUME NEW r \in RouterType, NEW u
    PROVE  /\ CreateActive(r, u).enabled = r.enabled
           /\ CreateActive(r, u).active = u
           /\ CreateActive(r, u).transports =
                 r.transports \cup (IF u = None THEN {} ELSE {u})
  <1>1. CASE u = None
    <2> DEFINE s == [r EXCEPT !.active = None]
    <2>1. s \in RouterType /\ s.enabled = r.enabled /\ s.active = None
          /\ s.transports = r.transports
      BY DEF RouterType
    <2>2. SameLists(SetStatus(s, "DISCONNECTED", "INTERNAL_ERROR"), s)
      <3> HIDE DEF s
      <3> QED
        BY <2>1, SetStatusLists
    <2>3. CreateActive(r, u) = SetStatus(s, "DISCONNECTED", "INTERNAL_ERROR")
      BY <1>1 DEF CreateActive
    <2> HIDE DEF s
    <2> QED
      BY <1>1, <2>1, <2>2, <2>3 DEF SameLists
  <1>2. CASE u # None
    BY <1>2 DEF CreateActive, RouterType
  <1> QED
    BY <1>1, <1>2

LEMMA DisconnectAllLists ==
    ASSUME NEW r \in RouterType, NEW reason
    PROVE  /\ DisconnectAll(r, reason).enabled = r.enabled
           /\ DisconnectAll(r, reason).active = None
           /\ DisconnectAll(r, reason).transports = {}
  <1> DEFINE s == [r EXCEPT !.active = None, !.transports = {}]
  <1>1. s \in RouterType /\ s.enabled = r.enabled /\ s.active = None /\ s.transports = {}
    BY DEF RouterType
  <1>2. SameLists(SetStatus(s, "DISCONNECTED", reason), s)
    <2> HIDE DEF s
    <2> QED
      BY <1>1, SetStatusLists
  <1> HIDE DEF s
  <1> QED
    BY <1>1, <1>2 DEF SameLists, DisconnectAll, s

LEMMA ConnectFields ==
    ASSUME NEW f \in [Transport -> TransportType], NEW u \in Transport \cup {None},
           NEW t \in Transport
    PROVE  /\ Connect(f, u)[t].state = IF t = u THEN "CONNECTING" ELSE f[t].state
           /\ Connect(f, u)[t].at = IF t = u THEN "CONNECTING" ELSE f[t].at
  BY NoneIsNoTransport DEF Connect, TransportType

\* A transport is made and connected: one that had not begun, or none.
Makes(r, f, u) ==
    /\ u = None \/ (u \in Transport /\ ~Begun(u))
    /\ router'.enabled = r.enabled /\ router'.active = u
    /\ router'.transports = r.transports \cup (IF u = None THEN {} ELSE {u})
    /\ \A t \in Transport :
         /\ transport'[t].state = IF t = u THEN "CONNECTING" ELSE f[t].state
         /\ transport'[t].at = IF t = u THEN "CONNECTING" ELSE f[t].at

LEMMA MadeMakes ==
    ASSUME NEW r \in RouterType, NEW f \in [Transport -> TransportType], NEW u \in Made,
           router' = CreateActive(r, u), transport' = Connect(f, u)
    PROVE  Makes(r, f, u)
  <1>1. u = None \/ (u \in Transport /\ ~Begun(u))
    BY MadeIsUnused DEF Begun
  <1> QED
    BY <1>1, CreateActiveLists, ConnectFields DEF Makes

\* What each step does to the lists of the router and to the transports.
Kept(t) == transport'[t].state = transport[t].state /\ transport'[t].at = transport[t].at

Moves(t, state, at) ==
    /\ transport'[t].state = state /\ transport'[t].at = at
    /\ \A u \in Transport \ {t} : Kept(u)

LEMMA HandleServerSideDisconnectDoes ==
    ASSUME TypeOK, NEW t \in Transport, HandleServerSideDisconnect(t)
    PROVE  \/ SameLists(router', router)
              /\ Moves(t, transport[t].state, "handleDisconnecting")
           \/ \E u : /\ router.enabled /\ t = router.active
                    /\ Makes(router, [transport EXCEPT ![t].at = "handleDisconnecting"], u)
  <1> DEFINE gone == [transport EXCEPT ![t].at = "handleDisconnecting"]
             r == SetStatus(router, "PENDING", "SERVER_SIDE_DISCONNECT")
  <1>1. gone \in [Transport -> TransportType] /\ r \in RouterType
    BY SetStatusType, AtType DEF TypeOK, Status, Reason, MainLoopAt
  <1>2. SameLists(r, router)
    BY SetStatusLists DEF TypeOK
  <1>3. \/ transport' = gone /\ router' = router
        \/ \E u \in Made : /\ router.enabled /\ t = router.active
                           /\ router' = CreateActive(r, u) /\ transport' = Connect(gone, u)
    BY DEF HandleServerSideDisconnect
  <1>4. ASSUME transport' = gone, router' = router
        PROVE  SameLists(router', router) /\ Moves(t, transport[t].state, "handleDisconnecting")
    BY <1>4 DEF SameLists, Moves, Kept, TypeOK, TransportType
  <1> HIDE DEF gone, r
  <1>5. ASSUME NEW u \in Made, router' = CreateActive(r, u), transport' = Connect(gone, u)
        PROVE  Makes(router, gone, u)
    <2>1. Makes(r, gone, u)
      BY <1>1, <1>5, MadeMakes
    <2> QED
      BY <1>2, <2>1 DEF Makes, SameLists
  <1> QED
    BY <1>3, <1>4, <1>5 DEF gone

\* onDisconnected() takes the transport out of the list.
LEMMA DisconnectDoes ==
    ASSUME TypeOK, NEW t \in Transport, Disconnect(t)
    PROVE  LET listed == [router EXCEPT !.transports = @ \ {t}]
           IN  \/ /\ Moves(t, transport[t].state, "ended")
                  /\ router'.enabled = router.enabled
                  /\ router'.active = IF t = router.active THEN None ELSE router.active
                  /\ router'.transports = listed.transports
               \/ \E u : /\ router.enabled /\ t = router.active
                        /\ Makes(listed, [transport EXCEPT ![t].at = "ended"], u)
  <1> DEFINE reason == transport[t].reason
             ended  == [transport EXCEPT ![t].at = "ended"]
             listed == [router EXCEPT !.transports = @ \ {t}]
             lost   == [listed EXCEPT !.active = None]
             last   == SetStatus(lost, "DISCONNECTED", reason)
             next   == SetStatus(lost, "PENDING", reason)
  <1>1. /\ reason \in Reason /\ ended \in [Transport -> TransportType]
        /\ "PENDING" \in Status /\ "DISCONNECTED" \in Status
    BY AtType, TransportFields DEF TypeOK, MainLoopAt, Status
  <1>2. /\ listed \in RouterType /\ lost \in RouterType
        /\ listed.enabled = router.enabled /\ lost.enabled = router.enabled
        /\ listed.active = router.active /\ lost.active = None
        /\ lost.transports = listed.transports
    BY DEF TypeOK, RouterType
  <1>3. Disconnect(t) => OnDisconnected(t)
    BY DEF Disconnect
  <1>4. \/ t # router.active /\ router' = listed /\ transport' = ended
        \/ t = router.active /\ router' \in {lost, last} /\ transport' = ended
        \/ \E u \in Made : /\ router.enabled /\ t = router.active
                           /\ router' = CreateActive(next, u) /\ transport' = Connect(ended, u)
    BY <1>3 DEF OnDisconnected
  <1>5. transport' = ended => Moves(t, transport[t].state, "ended")
    BY DEF Moves, Kept, TypeOK, TransportType
  <1>6. /\ SameLists(last, lost) /\ SameLists(next, lost) /\ next \in RouterType
    <2> HIDE DEF lost, reason
    <2> QED
      BY <1>1, <1>2, SetStatusLists, SetStatusType
  <1> HIDE DEF reason, ended, listed, lost, last, next
  <1>7. ASSUME NEW u \in Made, router' = CreateActive(next, u), transport' = Connect(ended, u)
        PROVE  Makes(listed, ended, u)
    <2>1. Makes(next, ended, u)
      BY <1>1, <1>6, <1>7, MadeMakes
    <2> QED
      BY <1>2, <1>6, <2>1 DEF Makes, SameLists
  <1> QED
    BY <1>2, <1>4, <1>5, <1>6, <1>7 DEF SameLists, listed, ended

\* What the other steps of a transport do to it.
LEMMA TransportMoves ==
    ASSUME TypeOK, LoopInv, NEW t \in Transport
    PROVE  /\ OnPostConnected(t) =>
                Moves(t, "CONNECTED", transport[t].at) /\ transport[t].state = "CONNECTING"
           /\ OnDownchannelFinished(t) =>
                Moves(t, "SERVER_SIDE_DISCONNECT", transport[t].at) /\ Pulls(t)
           /\ Fails(t) => Moves(t, "SHUTDOWN", transport[t].at) /\ Begun(t)
           /\ NextState(t) =>
                /\ Moves(t, transport[t].state, Handler(transport[t].state))
                /\ transport[t].state \notin {"INIT", "CONNECTING"}
                /\ transport[t].at \in {"CONNECTING", "sending"}
           /\ HandleConnected(t) =>
                Moves(t, transport[t].state, "sending") /\ transport[t].at = "handleConnected"
           /\ HandleDisconnecting(t) =>
                /\ Moves(t, "SHUTDOWN", "handleShutdown")
                /\ transport[t].at = "handleDisconnecting"
           /\ HandleShutdown(t) =>
                /\ Moves(t, transport[t].state, "disconnect")
                /\ transport[t].at = "handleShutdown"
  <1> USE DEF Moves, Kept, TypeOK
  <1>1. ASSUME OnPostConnected(t)
        PROVE  Moves(t, "CONNECTED", transport[t].at) /\ transport[t].state = "CONNECTING"
    BY <1>1 DEF OnPostConnected, TransportType
  <1>2. ASSUME OnDownchannelFinished(t)
        PROVE  Moves(t, "SERVER_SIDE_DISCONNECT", transport[t].at) /\ Pulls(t)
    BY <1>2 DEF OnDownchannelFinished, TransportType, Pulls
  <1>3. ASSUME Fails(t) PROVE Moves(t, "SHUTDOWN", transport[t].at) /\ Begun(t)
    BY <1>3 DEF Fails, SetShutdown, TransportType, Begun
  <1>4. ASSUME NextState(t)
        PROVE  /\ Moves(t, transport[t].state, Handler(transport[t].state))
               /\ transport[t].state \notin {"INIT", "CONNECTING"}
               /\ transport[t].at \in {"CONNECTING", "sending"}
    <2>1. /\ transport[t].state \notin {"INIT", "CONNECTING"}
          /\ transport[t].at \in {"CONNECTING", "sending"}
      BY <1>4 DEF NextState, LoopInv
    <2>2. Moves(t, transport[t].state, Handler(transport[t].state))
      BY <1>4 DEF NextState, Goes, TransportType
    <2> QED
      BY <2>1, <2>2
  <1>5. ASSUME HandleConnected(t)
        PROVE  Moves(t, transport[t].state, "sending") /\ transport[t].at = "handleConnected"
    BY <1>5 DEF HandleConnected, Goes, TransportType
  <1>6. ASSUME HandleDisconnecting(t)
        PROVE  /\ Moves(t, "SHUTDOWN", "handleShutdown")
               /\ transport[t].at = "handleDisconnecting"
    BY <1>6 DEF HandleDisconnecting, TransportType
  <1>7. ASSUME HandleShutdown(t)
        PROVE  /\ Moves(t, transport[t].state, "disconnect")
               /\ transport[t].at = "handleShutdown"
    BY <1>7 DEF HandleShutdown, Goes, TransportType
  <1> QED
    BY <1>1, <1>2, <1>3, <1>4, <1>5, <1>6, <1>7

\* What the steps of a caller do.
Leaves(c, at, left) ==
    /\ caller'[c].at = at /\ caller'[c].left = left
    /\ \A d \in Caller \ {c} : caller'[d] = caller[d]

LEMMA TakesAll ==
    ASSUME TypeOK, NEW c \in Caller,
           Disable(c) \/ SetAVSGateway(c) \/ Shutdown(c)
    PROVE  /\ router'.active = None /\ router'.transports = {}
           /\ Shutdown(c) => router'.enabled = FALSE
           /\ caller[c].at = "idle" /\ transport' = transport
           /\ overlapped' = (overlapped \/ Released # {})
           /\ UNCHANGED messages /\ UNCHANGED flagLost
           /\ Leaves(c, IF Shutdown(c) THEN "doShutdown"
                        ELSE IF SetAVSGateway(c) THEN "setAVSGateway" ELSE "disable",
                     router.transports)
  <1> DEFINE off == [router EXCEPT !.enabled = FALSE]
  <1>1. /\ router \in RouterType /\ off \in RouterType
        /\ off.enabled = FALSE /\ off.transports = router.transports
    BY DEF TypeOK, RouterType
  <1> HIDE DEF off
  <1>2. ASSUME NEW r \in RouterType, NEW reason, NEW what, TakeTransports(c, r, reason, what),
               r.transports = router.transports
        PROVE  /\ router'.active = None /\ router'.transports = {}
               /\ router'.enabled = r.enabled /\ Leaves(c, what, router.transports)
    BY <1>2, DisconnectAllLists DEF TakeTransports, Leaves, TypeOK
  <1>3. CASE Shutdown(c)
    BY <1>1, <1>2, <1>3 DEF Shutdown, off
  <1>4. CASE SetAVSGateway(c) /\ ~Shutdown(c)
    BY <1>1, <1>2, <1>4 DEF SetAVSGateway, Call
  <1>5. CASE Disable(c) /\ ~Shutdown(c) /\ ~SetAVSGateway(c)
    BY <1>1, <1>2, <1>5 DEF Disable, Call, off
  <1> QED
    BY <1>3, <1>4, <1>5

LEMMA Restarts ==
    ASSUME TypeOK, NEW c \in Caller, Enable(c) \/ SetAVSGatewayReturns(c)
    PROVE  \/ /\ SetAVSGatewayReturns(c) /\ router' = router /\ transport' = transport
           \/ \E u : \E r \in RouterType :
                /\ r.active = router.active /\ r.transports = router.transports
                /\ SetAVSGatewayReturns(c) => router.enabled /\ r.enabled
                /\ Makes(r, transport, u)
  <1> DEFINE r == [router EXCEPT !.enabled = TRUE]
             s == SetStatus(r, "PENDING", "ACL_CLIENT_REQUEST")
  <1>1. /\ router \in RouterType /\ r \in RouterType
        /\ r.active = router.active /\ r.transports = router.transports
        /\ transport \in [Transport -> TransportType]
    BY DEF TypeOK, RouterType
  <1>2. CASE Enable(c)
    <2>1. PICK u \in Made : router' = CreateActive(s, u) /\ transport' = Connect(transport, u)
      BY <1>2 DEF Enable
    <2>2. s \in RouterType /\ SameLists(s, r)
      <3> HIDE DEF r
      <3> QED
        BY <1>1, SetStatusType, SetStatusLists DEF Status, Reason
    <2> HIDE DEF s
    <2>3. Makes(s, transport, u)
      BY <1>1, <2>1, <2>2, MadeMakes
    <2> QED
      BY <1>1, <1>2, <2>2, <2>3 DEF SameLists, Enable, SetAVSGatewayReturns, Relocked, Call
  <1>3. CASE SetAVSGatewayReturns(c) /\ router.enabled
    <2>1. PICK u \in Made : router' = CreateActive(router, u) /\ transport' = Connect(transport, u)
      BY <1>3 DEF SetAVSGatewayReturns
    <2>2. Makes(router, transport, u)
      BY <1>1, <2>1, MadeMakes
    <2> QED
      BY <1>1, <1>3, <2>2
  <1>4. CASE SetAVSGatewayReturns(c) /\ ~router.enabled
    BY <1>4 DEF SetAVSGatewayReturns
  <1> QED
    BY <1>2, <1>3, <1>4

\* The steps that leave the lists and the transports alone.
LEMMA MessageSteps ==
    ASSUME TypeOK,
           \/ \E r \in Request :
                SendMessage(r) \/ OnReceiveResponseCode(r) \/ OnResponseFinished(r)
           \/ \E t \in Transport : TimesOut(t) \/ SendsMessage(t)
           \/ NotifyObserver \/ TimerExpires \/ GraceIsOver
    PROVE  /\ SameLists(router', router)
           /\ UNCHANGED <<transport, caller, overlapped>>
  <1> USE DEF SameLists, TypeOK
  <1>1. ASSUME NEW r \in Request,
               SendMessage(r) \/ OnReceiveResponseCode(r) \/ OnResponseFinished(r)
        PROVE  router' = router /\ UNCHANGED <<transport, caller, overlapped>>
    BY <1>1 DEF SendMessage, OnReceiveResponseCode, OnResponseFinished, KeepsCalls
  <1>2. ASSUME NEW t \in Transport, TimesOut(t) \/ SendsMessage(t)
        PROVE  router' = router /\ UNCHANGED <<transport, caller, overlapped>>
    BY <1>2 DEF TimesOut, SendsMessage, KeepsCalls
  <1>3. ASSUME NotifyObserver \/ GraceIsOver
        PROVE  SameLists(router', router) /\ UNCHANGED <<transport, caller, overlapped>>
    BY <1>3 DEF NotifyObserver, GraceIsOver, Done, KeepsCalls, RouterType
  <1>4. ASSUME TimerExpires
        PROVE  SameLists(router', router) /\ UNCHANGED <<transport, caller, overlapped>>
    BY <1>4 DEF TimerExpires, Submit, KeepsCalls, RouterType
  <1> QED
    BY <1>1, <1>2, <1>3, <1>4

\* The steps by which a caller that has the transports gets on.
LEMMA CallerSteps ==
    ASSUME TypeOK, NEW c \in Caller
    PROVE  /\ TransportIsShutdown(c) =>
                /\ SameLists(router', router) /\ UNCHANGED <<transport, overlapped>>
                /\ \E t \in caller[c].left :
                     /\ transport[t].state = "SHUTDOWN" /\ transport[t].at = "ended"
                     /\ Leaves(c, caller[c].at, caller[c].left \ {t})
           /\ DisableReturns(c) =>
                /\ SameLists(router', router) /\ UNCHANGED <<transport, overlapped>>
                /\ caller[c].at = "disable" /\ caller[c].left = {} /\ Leaves(c, "idle", {})
           /\ SetAVSGatewayReturns(c) =>
                /\ UNCHANGED overlapped
                /\ caller[c].at = "setAVSGateway" /\ caller[c].left = {} /\ Leaves(c, "idle", {})
           /\ DisabledForShutdown(c) =>
                /\ SameLists(router', router) /\ UNCHANGED <<transport, overlapped>>
                /\ caller[c].at = "doShutdown" /\ caller[c].left = {} /\ Leaves(c, "drain", {})
           /\ Drain(c) =>
                /\ SameLists(router', router) /\ UNCHANGED <<transport, overlapped>>
                /\ caller[c].at = "drain" /\ Leaves(c, "stop", caller[c].left)
           /\ StopExecutor(c) =>
                /\ SameLists(router', router) /\ UNCHANGED <<transport, overlapped>>
                /\ caller[c].at = "stop" /\ Leaves(c, "stopped", caller[c].left)
  <1> USE DEF TypeOK, SameLists, Leaves
  <1>1. ASSUME TransportIsShutdown(c)
        PROVE  /\ SameLists(router', router) /\ UNCHANGED <<transport, overlapped>>
               /\ \E t \in caller[c].left :
                    /\ transport[t].state = "SHUTDOWN" /\ transport[t].at = "ended"
                    /\ Leaves(c, caller[c].at, caller[c].left \ {t})
    <2>1. Min(caller[c].left) \in caller[c].left
      BY <1>1, MinIsMember DEF TransportIsShutdown, Transport
    <2> QED
      BY <1>1, <2>1 DEF TransportIsShutdown
  <1>2. ASSUME DisableReturns(c)
        PROVE  /\ SameLists(router', router) /\ UNCHANGED <<transport, overlapped>>
               /\ caller[c].at = "disable" /\ caller[c].left = {} /\ Leaves(c, "idle", {})
    BY <1>2 DEF DisableReturns, Relocked, Returns, Idle
  <1>3. ASSUME SetAVSGatewayReturns(c)
        PROVE  /\ UNCHANGED overlapped
               /\ caller[c].at = "setAVSGateway" /\ caller[c].left = {} /\ Leaves(c, "idle", {})
    BY <1>3 DEF SetAVSGatewayReturns, Relocked, Returns, Idle
  <1>4. ASSUME DisabledForShutdown(c)
        PROVE  /\ SameLists(router', router) /\ UNCHANGED <<transport, overlapped>>
               /\ caller[c].at = "doShutdown" /\ caller[c].left = {} /\ Leaves(c, "drain", {})
    BY <1>4 DEF DisabledForShutdown, Relocked
  <1>5. ASSUME Drain(c)
        PROVE  /\ SameLists(router', router) /\ UNCHANGED <<transport, overlapped>>
               /\ caller[c].at = "drain" /\ Leaves(c, "stop", caller[c].left)
    BY <1>5 DEF Drain
  <1>6. ASSUME StopExecutor(c)
        PROVE  /\ SameLists(router', router) /\ UNCHANGED <<transport, overlapped>>
               /\ caller[c].at = "stop" /\ Leaves(c, "stopped", caller[c].left)
    BY <1>6 DEF StopExecutor, RouterType
  <1> QED
    BY <1>1, <1>2, <1>3, <1>4, <1>5, <1>6

-----------------------------------------------------------------------------
(***************************************************************************)
(* Who may send, and who shuts a transport down.                           *)
(***************************************************************************)
Running(t) == transport[t].at \notin {"none", "ended"}

\* A transport that runs is listed, or a caller is to shut it down.
ListInv ==
    /\ router.active \in router.transports \cup {None}
    /\ \A t \in Transport :
         Running(t) => t \in router.transports \/ \E c \in Caller : t \in caller[c].left

ClosedBy(c) == caller[c].at \in {"doShutdown", "drain", "stop", "stopped"}

\* No transport is made once the router is being shut down.
ClosedInv ==
    /\ \A c \in Caller :
         caller[c].at \in {"idle", "drain", "stop", "stopped"} => caller[c].left = {}
    /\ \A c \in Caller : ClosedBy(c) =>
         ~router.enabled /\ router.active = None /\ router.transports = {}

\* Who may send is the active transport, or one that the only caller that has
\* taken the transports is to shut down.
PullInv == ~overlapped =>
    /\ \A t \in Transport :
         Pulls(t) => t = router.active \/ \E c \in Caller : t \in caller[c].left
    /\ \A t, u \in Transport : Pulls(t) /\ Pulls(u) => t = u
    /\ \A c \in Released : router.active = None
    /\ \A c, d \in Released : c = d

StructInv == LoopInv /\ ListedBegun /\ ListInv /\ ClosedInv /\ PullInv

LEMMA StructUnchanged ==
    ASSUME StructInv, SameLists(router', router), UNCHANGED <<transport, caller, overlapped>>
    PROVE  StructInv'
  BY DEF StructInv, SameLists, LoopInv, ListedBegun, ListInv, ClosedInv, PullInv,
         Begun, Running, ClosedBy, Pulls, Released

\* One transport moves: it does not begin, it does not come to send if it could
\* not, and it does not end.
LEMMA StructMoves ==
    ASSUME TypeOK, StructInv, SameLists(router', router), UNCHANGED <<caller, overlapped>>,
           NEW t \in Transport, NEW state, NEW at, Moves(t, state, at), Begun(t),
           state # "INIT",
           at = transport[t].at \/ (Running(t) /\ at \notin {"none", "ended"}),
           state = "CONNECTING" => at = "CONNECTING",
           state = "CONNECTED" => at \in {"CONNECTING", "handleConnected", "sending"},
           state \in {"CONNECTING", "CONNECTED"} => Pulls(t)
    PROVE  StructInv'
  <1> USE DEF StructInv, SameLists, Moves, Kept
  <1>1. LoopInv'
    BY DEF LoopInv, Begun
  <1>2. ListedBegun'
    BY DEF ListedBegun, Begun, TypeOK, RouterType
  <1>3. ListInv'
    BY DEF ListInv, Running, LoopInv, Begun
  <1>4. ClosedInv'
    BY DEF ClosedInv, ClosedBy
  <1>5. PullInv'
    BY DEF PullInv, Pulls, Released
  <1> QED
    BY <1>1, <1>2, <1>3, <1>4, <1>5

LEMMA StructTransport ==
    ASSUME TypeOK, StructInv, NEW t \in Transport,
           \/ OnPostConnected(t) \/ OnDownchannelFinished(t) \/ Fails(t)
           \/ NextState(t) \/ HandleConnected(t) \/ HandleDisconnecting(t)
           \/ HandleShutdown(t)
    PROVE  StructInv'
  <1>1. LoopInv
    BY DEF StructInv
  <1>2. UNCHANGED <<caller, overlapped>>
    BY DEF OnPostConnected, OnDownchannelFinished, Fails, NextState, HandleConnected,
           HandleDisconnecting, HandleShutdown, KeepsCalls
  <1>3. SameLists(router', router)
    <2>1. CASE HandleConnected(t)
      BY <2>1, SetStatusLists DEF HandleConnected, SameLists, TypeOK
    <2> QED
      BY <2>1 DEF OnPostConnected, OnDownchannelFinished, Fails, NextState,
                  HandleDisconnecting, HandleShutdown, SameLists
  <1>4. CASE OnPostConnected(t)
    BY <1>1, <1>2, <1>3, <1>4, TransportMoves, StructMoves DEF LoopInv, Begun, Pulls, Running
  <1>5. CASE OnDownchannelFinished(t)
    BY <1>1, <1>2, <1>3, <1>5, TransportMoves, StructMoves DEF LoopInv, Begun, Pulls, Running
  <1>6. CASE Fails(t)
    BY <1>1, <1>2, <1>3, <1>6, TransportMoves, StructMoves DEF LoopInv, Begun, Pulls, Running
  <1>7. CASE NextState(t)
    <2>1. /\ Moves(t, transport[t].state, Handler(transport[t].state))
          /\ transport[t].state \in TransportState \ {"INIT", "CONNECTING"}
          /\ transport[t].at \in {"CONNECTING", "sending"}
      BY <1>1, <1>7, TransportMoves, TransportFields DEF TypeOK
    <2>2. /\ Handler(transport[t].state) \notin {"none", "ended"}
          /\ transport[t].state = "CONNECTED" =>
               Handler(transport[t].state) = "handleConnected"
      BY <2>1 DEF Handler, TransportState
    <2> QED
      BY <1>2, <1>3, <2>1, <2>2, StructMoves DEF Begun, Pulls, Running
  <1>8. CASE HandleConnected(t)
    BY <1>1, <1>2, <1>3, <1>8, TransportMoves, StructMoves DEF LoopInv, Begun, Pulls, Running
  <1>9. CASE HandleDisconnecting(t)
    BY <1>1, <1>2, <1>3, <1>9, TransportMoves, StructMoves DEF LoopInv, Begun, Pulls, Running
  <1>10. CASE HandleShutdown(t)
    BY <1>1, <1>2, <1>3, <1>10, TransportMoves, StructMoves DEF LoopInv, Begun, Pulls, Running
  <1> QED
    BY <1>4, <1>5, <1>6, <1>7, <1>8, <1>9, <1>10

\* A transport is made when none can send, and no caller shuts the router down.
LEMMA StructMakes ==
    ASSUME TypeOK, StructInv, NEW r \in RouterType, NEW f \in [Transport -> TransportType],
           NEW u, Makes(r, f, u), r.transports \subseteq router.transports,
           \A t \in Transport :
              /\ f[t].state = transport[t].state
              /\ \/ f[t].at = transport[t].at
                 \/ ~Pulls(t) /\ Running(t) /\ f[t].at # "none"
              /\ f[t].at \notin {"none", "ended"} =>
                    t \in r.transports \/ \E c \in Caller : t \in caller'[c].left,
           \A c \in Caller : caller'[c] = caller[c] \/ caller'[c] = Idle,
           \A c \in Caller : ~ClosedBy(c)',
           ~overlapped' => ~overlapped /\ Released' = {} /\ \A t \in Transport : ~Pulls(t)
    PROVE  StructInv'
  <1> USE DEF StructInv, Makes
  <1>1. LoopInv'
    BY DEF LoopInv, Begun, Pulls, Running
  <1>2. ListedBegun'
    BY DEF ListedBegun, Begun, Idle, TypeOK, RouterType
  <1>3. ListInv'
    <2>1. router'.active \in router'.transports \cup {None}
      OBVIOUS
    <2>2. ASSUME NEW t \in Transport, Running(t)'
          PROVE  t \in router'.transports \/ \E c \in Caller : t \in caller'[c].left
      <3>1. CASE t = u
        BY <3>1, NoneIsNoTransport
      <3>2. CASE t # u
        <4>1. f[t].at \notin {"none", "ended"}
          BY <2>2, <3>2 DEF Running
        <4> QED
          BY <4>1
      <3> QED
        BY <3>1, <3>2
    <2> QED
      BY <2>1, <2>2 DEF ListInv
  <1>4. ClosedInv'
    BY DEF ClosedInv, ClosedBy, Idle
  <1>5. PullInv'
    BY DEF PullInv, Pulls, Released
  <1> QED
    BY <1>1, <1>2, <1>3, <1>4, <1>5

\* While no call overlaps another, the active transport is the only one to send,
\* and nobody has taken the transports.
LEMMA ActiveAlone ==
    ASSUME TypeOK, StructInv, router.active # None, ~Pulls(router.active)
    PROVE  /\ \A c \in Caller : ~ClosedBy(c)
           /\ ~overlapped => Released = {} /\ \A t \in Transport : ~Pulls(t)
  <1>1. ASSUME NEW c \in Caller, ClosedBy(c) PROVE FALSE
    BY <1>1 DEF StructInv, ClosedInv
  <1>2. ASSUME ~overlapped PROVE Released = {} /\ \A t \in Transport : ~Pulls(t)
    <2>1. Released = {}
      BY <1>2 DEF StructInv, PullInv
    <2>2. \A c \in Caller : caller[c].left = {}
      BY <2>1 DEF StructInv, ClosedInv, Released
    <2> QED
      BY <1>2, <2>1, <2>2 DEF StructInv, PullInv
  <1> QED
    BY <1>1, <1>2

LEMMA StructHandleServerSideDisconnect ==
    ASSUME TypeOK, StructInv, NEW t \in Transport, HandleServerSideDisconnect(t)
    PROVE  StructInv'
  <1> DEFINE f == [transport EXCEPT ![t].at = "handleDisconnecting"]
  <1>1. /\ transport[t].at = "handleServerSideDisconnect"
        /\ UNCHANGED <<caller, overlapped>>
    BY DEF HandleServerSideDisconnect, KeepsCalls
  <1>2. Running(t) /\ ~Pulls(t) /\ Begun(t) /\ transport[t].state \notin {"CONNECTING", "CONNECTED"}
    BY <1>1 DEF Running, Pulls, Begun, StructInv, LoopInv
  <1>3. CASE SameLists(router', router) /\ Moves(t, transport[t].state, "handleDisconnecting")
    BY <1>1, <1>2, <1>3, StructMoves DEF Begun
  <1>4. ASSUME NEW u, router.enabled, t = router.active, Makes(router, f, u)
        PROVE  StructInv'
    <2>1. /\ \A c \in Caller : ~ClosedBy(c)
          /\ ~overlapped => Released = {} /\ \A v \in Transport : ~Pulls(v)
      BY <1>2, <1>4, NoneIsNoTransport, ActiveAlone
    <2>2. f \in [Transport -> TransportType] /\ router \in RouterType
      BY AtType DEF TypeOK, MainLoopAt
    <2>3. \A v \in Transport :
             /\ f[v].state = transport[v].state
             /\ \/ f[v].at = transport[v].at
                \/ ~Pulls(v) /\ Running(v) /\ f[v].at # "none"
             /\ f[v].at \notin {"none", "ended"} => Running(v)
      BY <1>2 DEF TypeOK, TransportType, Running
    <2>4. \A v \in Transport : f[v].at \notin {"none", "ended"} =>
             v \in router.transports \/ \E c \in Caller : v \in caller'[c].left
      BY <1>1, <2>3 DEF StructInv, ListInv
    <2>5. /\ \A c \in Caller : caller'[c] = caller[c] /\ ~ClosedBy(c)'
          /\ ~overlapped' => ~overlapped /\ Released' = {} /\ \A v \in Transport : ~Pulls(v)
      BY <1>1, <2>1 DEF ClosedBy, Released
    <2> HIDE DEF f
    <2> QED
      BY <1>4, <2>2, <2>3, <2>4, <2>5, StructMakes
  <1> QED
    BY <1>3, <1>4, HandleServerSideDisconnectDoes

LEMMA StructDisconnect ==
    ASSUME TypeOK, StructInv, NEW t \in Transport, Disconnect(t)
    PROVE  StructInv'
  <1> DEFINE f == [transport EXCEPT ![t].at = "ended"]
             listed == [router EXCEPT !.transports = @ \ {t}]
  <1>1. transport[t].at = "disconnect" /\ UNCHANGED <<caller, overlapped>>
    BY DEF Disconnect, KeepsCalls
  <1>2. Running(t) /\ ~Pulls(t) /\ Begun(t) /\ transport[t].state \notin {"CONNECTING", "CONNECTED"}
    BY <1>1 DEF Running, Pulls, Begun, StructInv, LoopInv
  <1>3. /\ listed \in RouterType /\ listed.transports = router.transports \ {t}
        /\ router \in RouterType
    BY DEF TypeOK, RouterType
  <1>4. ASSUME Moves(t, transport[t].state, "ended"),
               router'.enabled = router.enabled,
               router'.active = IF t = router.active THEN None ELSE router.active,
               router'.transports = router.transports \ {t}
        PROVE  StructInv'
    <2> USE <1>1, <1>2, <1>4 DEF StructInv, Moves, Kept
    <2>1. LoopInv'
      BY DEF LoopInv, Begun
    <2>2. ListedBegun'
      BY <1>3 DEF ListedBegun, Begun, TypeOK, RouterType
    <2>3. ListInv'
      BY DEF ListInv, Running
    <2>4. ClosedInv'
      BY DEF ClosedInv, ClosedBy
    <2>5. PullInv'
      BY DEF PullInv, Pulls, Released
    <2> QED
      BY <2>1, <2>2, <2>3, <2>4, <2>5
  <1>5. ASSUME NEW u, router.enabled, t = router.active, Makes(listed, f, u)
        PROVE  StructInv'
    <2>1. /\ \A c \in Caller : ~ClosedBy(c)
          /\ ~overlapped => Released = {} /\ \A v \in Transport : ~Pulls(v)
      BY <1>2, <1>5, NoneIsNoTransport, ActiveAlone
    <2>2. f \in [Transport -> TransportType]
      BY AtType DEF TypeOK, MainLoopAt
    <2>3. \A v \in Transport :
             /\ f[v].state = transport[v].state
             /\ \/ f[v].at = transport[v].at
                \/ ~Pulls(v) /\ Running(v) /\ f[v].at # "none"
             /\ f[v].at \notin {"none", "ended"} => Running(v) /\ v # t
      BY <1>2 DEF TypeOK, TransportType, Running
    <2>4. \A v \in Transport : f[v].at \notin {"none", "ended"} =>
             v \in listed.transports \/ \E c \in Caller : v \in caller'[c].left
      BY <1>1, <1>3, <2>3 DEF StructInv, ListInv
    <2>5. /\ \A c \in Caller : caller'[c] = caller[c] /\ ~ClosedBy(c)'
          /\ ~overlapped' => ~overlapped /\ Released' = {} /\ \A v \in Transport : ~Pulls(v)
      BY <1>1, <2>1 DEF ClosedBy, Released
    <2>6. listed.transports \subseteq router.transports
      BY <1>3
    <2> HIDE DEF f, listed
    <2> QED
      BY <1>3, <1>5, <2>2, <2>3, <2>4, <2>5, <2>6, StructMakes
  <1> QED
    BY <1>3, <1>4, <1>5, DisconnectDoes

LEMMA StructCaller ==
    ASSUME TypeOK, StructInv, NEW c \in Caller,
           \/ Enable(c) \/ Disable(c) \/ SetAVSGateway(c) \/ Shutdown(c)
           \/ ShutdownTransport(c) \/ TransportIsShutdown(c)
           \/ DisableReturns(c) \/ SetAVSGatewayReturns(c)
           \/ DisabledForShutdown(c) \/ Drain(c) \/ StopExecutor(c)
    PROVE  StructInv'
  <1>1. CASE Disable(c) \/ SetAVSGateway(c) \/ Shutdown(c)
    <2> USE DEF StructInv, Leaves
    <2>1. /\ router'.active = None /\ router'.transports = {}
          /\ Shutdown(c) => router'.enabled = FALSE
          /\ ~Shutdown(c) => caller'[c].at \notin {"doShutdown", "drain", "stop", "stopped"}
          /\ caller[c].at = "idle" /\ transport' = transport
          /\ overlapped' = (overlapped \/ Released # {})
          /\ caller'[c].at # "idle" /\ caller'[c].at \notin {"drain", "stop", "stopped"}
          /\ caller'[c].left = router.transports
          /\ \A d \in Caller \ {c} : caller'[d] = caller[d]
          /\ ~ShuttingDown
      BY <1>1, TakesAll DEF Disable, SetAVSGateway, Shutdown, Call
    <2> HIDE DEF Leaves
    <2>2. caller[c].left = {}
      BY <2>1 DEF ClosedInv
    <2>3. LoopInv' /\ ListedBegun'
      BY <2>1, <2>2 DEF LoopInv, ListedBegun, Begun
    <2>4. ListInv'
      BY <2>1, <2>2 DEF ListInv, Running
    <2>5. ClosedInv'
      BY <2>1 DEF ClosedInv, ClosedBy, ShuttingDown
    <2>6. ASSUME ~overlapped' PROVE PullInv'
      <3>1. ~overlapped /\ Released = {} /\ \A d \in Caller : caller[d].left = {}
        BY <2>1, <2>6 DEF ClosedInv, Released
      <3>2. \A t \in Transport : Pulls(t) => t \in router.transports
        BY <3>1, NoneIsNoTransport DEF PullInv, ListInv
      <3>3. \A d \in Released' : d = c
        BY <2>1, <3>1 DEF Released
      <3> QED
        BY <2>1, <3>1, <3>2, <3>3 DEF PullInv, Pulls
    <2> QED
      BY <2>3, <2>4, <2>5, <2>6 DEF PullInv
  <1>2. ASSUME NEW r \in RouterType, NEW u, r.transports = router.transports,
               Makes(r, transport, u),
               \A d \in Caller : caller'[d] = caller[d] \/ caller'[d] = Idle,
               \A d \in Caller : ~ClosedBy(d),
               \A d \in Caller : caller[d] # caller'[d] => caller[d].left = {},
               ~overlapped' => /\ ~overlapped /\ Released' = {} /\ router.active = None
                               /\ \A d \in Caller : caller[d].left = {}
        PROVE  StructInv'
    <2>1. \A t \in Transport : Running(t) =>
             t \in r.transports \/ \E d \in Caller : t \in caller'[d].left
      BY <1>2 DEF StructInv, ListInv
    <2>2. \A d \in Caller : ~ClosedBy(d)'
      BY <1>2 DEF ClosedBy, Idle
    <2>3. ASSUME ~overlapped' PROVE \A t \in Transport : ~Pulls(t)
      BY <1>2, <2>3, NoneIsNoTransport DEF StructInv, PullInv
    <2>4. \A t \in Transport : transport[t].at \notin {"none", "ended"} => Running(t)
      BY DEF Running
    <2> QED
      BY <1>2, <2>1, <2>2, <2>3, <2>4, StructMakes DEF TypeOK
  <1>3. CASE Enable(c)
    <2>1. PICK u, r : /\ r \in RouterType /\ r.transports = router.transports
                    /\ Makes(r, transport, u)
      BY <1>3, Restarts DEF Enable, SetAVSGatewayReturns, Relocked, Call
    <2>2. /\ router.active = None /\ caller' = caller
          /\ overlapped' = (overlapped \/ Released # {}) /\ ~ShuttingDown
      BY <1>3 DEF Enable, Call
    <2>3. /\ \A d \in Caller : ~ClosedBy(d)
          /\ ~overlapped' => /\ ~overlapped /\ Released' = {}
                             /\ \A d \in Caller : caller[d].left = {}
      BY <2>2 DEF ShuttingDown, ClosedBy, Released, StructInv, ClosedInv
    <2> QED
      BY <1>2, <2>1, <2>2, <2>3
  <1>4. CASE SetAVSGatewayReturns(c)
    <2>1. /\ caller[c].at = "setAVSGateway" /\ caller[c].left = {} /\ caller'[c] = Idle
          /\ \A d \in Caller \ {c} : caller'[d] = caller[d]
          /\ UNCHANGED overlapped
      BY <1>4 DEF SetAVSGatewayReturns, Relocked, Returns, TypeOK
    <2>2. ASSUME ~overlapped
          PROVE  /\ router.active = None /\ Released' = {}
                 /\ \A d \in Caller : caller[d].left = {}
      <3>1. c \in Released
        BY <2>1 DEF Released
      <3>2. router.active = None /\ \A d \in Caller \ {c} : caller[d].at = "idle"
        BY <2>2, <3>1 DEF StructInv, PullInv, Released
      <3> QED
        BY <2>1, <3>2 DEF StructInv, ClosedInv, Released, Idle
    <2>3. CASE router' = router /\ transport' = transport
      <3> USE <2>1, <2>3 DEF StructInv
      <3>1. LoopInv' /\ ListedBegun'
        BY DEF LoopInv, ListedBegun, Begun, Idle
      <3>2. ListInv'
        BY DEF ListInv, Running
      <3>3. ClosedInv'
        BY DEF ClosedInv, ClosedBy, Idle
      <3>4. PullInv'
        BY <2>2 DEF PullInv, Pulls, Released
      <3> QED
        BY <3>1, <3>2, <3>3, <3>4
    <2>4. CASE ~ (router' = router /\ transport' = transport)
      <3>1. PICK u, r : /\ r \in RouterType /\ r.transports = router.transports
                        /\ router.enabled /\ Makes(r, transport, u)
        BY <1>4, <2>4, Restarts
      <3>2. \A d \in Caller : ~ClosedBy(d)
        BY <3>1 DEF StructInv, ClosedInv
      <3> QED
        BY <1>2, <2>1, <2>2, <3>1, <3>2
    <2> QED
      BY <2>3, <2>4
  <1>5. CASE ShutdownTransport(c)
    <2> DEFINE t == Min(caller[c].left)
    <2>1. t \in caller[c].left /\ t \in Transport
      BY <1>5, MinIsMember DEF ShutdownTransport, Transport, TypeOK
    <2>2. Begun(t)
      BY <2>1 DEF StructInv, ListedBegun
    <2> HIDE DEF t
    <2>3. Moves(t, "SHUTDOWN", transport[t].at)
      BY <1>5, <2>1 DEF ShutdownTransport, SetShutdown, Moves, Kept, TypeOK, TransportType, t
    <2>4. SameLists(router', router) /\ UNCHANGED <<caller, overlapped>>
      BY <1>5 DEF ShutdownTransport, SameLists
    <2> QED
      BY <2>1, <2>2, <2>3, <2>4, StructMoves
  <1>6. ASSUME SameLists(router', router), UNCHANGED <<transport, overlapped>>,
               NEW at, NEW left, Leaves(c, at, left), left \subseteq caller[c].left,
               \A t \in caller[c].left \ left :
                  transport[t].state = "SHUTDOWN" /\ transport[t].at = "ended",
               at = "idle" \/ caller[c].at # "idle",
               at \in {"idle", "drain", "stop", "stopped"} => left = {},
               at \in {"doShutdown", "drain", "stop", "stopped"} => ClosedBy(c)
        PROVE  StructInv'
    <2> USE <1>6 DEF StructInv, SameLists, Leaves
    <2>1. LoopInv' /\ ListedBegun'
      BY DEF LoopInv, ListedBegun, Begun
    <2>2. ListInv'
      BY DEF ListInv, Running
    <2>3. ClosedInv'
      BY DEF ClosedInv, ClosedBy
    <2>4. PullInv'
      BY DEF PullInv, Pulls, Released
    <2> QED
      BY <2>1, <2>2, <2>3, <2>4
  <1>7. CASE TransportIsShutdown(c)
    <2>1. /\ SameLists(router', router) /\ UNCHANGED <<transport, overlapped>>
          /\ \E t \in caller[c].left :
               /\ transport[t].state = "SHUTDOWN" /\ transport[t].at = "ended"
               /\ Leaves(c, caller[c].at, caller[c].left \ {t})
      BY <1>7, CallerSteps
    <2>2. caller[c].left # {}
      BY <2>1
    <2>3. caller[c].at \notin {"idle", "drain", "stop", "stopped"}
      BY <2>2 DEF StructInv, ClosedInv
    <2> QED
      BY <1>6, <2>1, <2>3 DEF ClosedBy
  <1>8. CASE DisableReturns(c)
    BY <1>6, <1>8, CallerSteps DEF ClosedBy
  <1>9. CASE DisabledForShutdown(c)
    BY <1>6, <1>9, CallerSteps DEF ClosedBy
  <1>10. CASE Drain(c) \/ StopExecutor(c)
    <2>1. caller[c].at \in {"drain", "stop"} /\ caller[c].left = {}
      BY <1>10, CallerSteps DEF StructInv, ClosedInv
    <2> QED
      BY <1>6, <1>10, <2>1, CallerSteps DEF ClosedBy
  <1> QED
    BY <1>1, <1>3, <1>4, <1>5, <1>7, <1>8, <1>9, <1>10

LEMMA StructStep == TypeOK /\ StructInv /\ [Next]_vars => StructInv'
  <1> SUFFICES ASSUME TypeOK, StructInv, [Next]_vars PROVE StructInv'
    OBVIOUS
  <1>1. CASE UNCHANGED vars
    BY <1>1, StructUnchanged DEF vars, SameLists
  <1>2. ASSUME NEW c \in Caller,
               \/ Enable(c) \/ Disable(c) \/ SetAVSGateway(c) \/ Shutdown(c)
               \/ ShutdownTransport(c) \/ TransportIsShutdown(c)
               \/ DisableReturns(c) \/ SetAVSGatewayReturns(c)
               \/ DisabledForShutdown(c) \/ Drain(c) \/ StopExecutor(c)
        PROVE  StructInv'
    BY <1>2, StructCaller
  <1>3. CASE \/ \E r \in Request :
                  SendMessage(r) \/ OnReceiveResponseCode(r) \/ OnResponseFinished(r)
             \/ \E t \in Transport : TimesOut(t) \/ SendsMessage(t)
             \/ NotifyObserver \/ TimerExpires \/ GraceIsOver
    BY <1>3, MessageSteps, StructUnchanged
  <1>4. ASSUME NEW t \in Transport,
               \/ OnPostConnected(t) \/ OnDownchannelFinished(t) \/ Fails(t)
               \/ NextState(t) \/ HandleConnected(t) \/ HandleDisconnecting(t)
               \/ HandleShutdown(t)
        PROVE  StructInv'
    BY <1>4, StructTransport
  <1>5. ASSUME NEW t \in Transport, HandleServerSideDisconnect(t) \/ Disconnect(t)
        PROVE  StructInv'
    BY <1>5, StructHandleServerSideDisconnect, StructDisconnect
  <1> QED
    BY <1>1, <1>2, <1>3, <1>4, <1>5 DEF Next

LEMMA StructInit == Init => StructInv
  <1> SUFFICES ASSUME Init PROVE StructInv
    OBVIOUS
  <1>1. LoopInv /\ ListedBegun
    BY DEF Init, LoopInv, ListedBegun, Idle
  <1>2. ListInv /\ ClosedInv
    BY DEF Init, ListInv, ClosedInv, ClosedBy, Running, Idle
  <1>3. PullInv
    BY DEF Init, PullInv, Pulls, Released, Idle
  <1> QED
    BY <1>1, <1>2, <1>3 DEF StructInv

LEMMA StructAlways == Spec => [](TypeOK /\ StructInv)
  <1>1. Init => TypeOK /\ StructInv
    BY InitType, StructInit
  <1>2. (TypeOK /\ StructInv) /\ [Next]_vars => (TypeOK /\ StructInv)'
    BY NextType, StructStep DEF StructInv
  <1> QED
    BY <1>1, <1>2, PTL DEF Spec

\* Every variable of the connection has its type in every state.
THEOREM ConnectionTypeCorrect == Spec => []TypeOK
  BY StructAlways, PTL

\* Two transports never take messages from the shared queue at one time, as long
\* as no call comes while another one has the router's mutex released.
THEOREM OnlyOnePulls == Spec => []OnePuller
  <1>1. ASSUME StructInv PROVE OnePuller
    <2> DEFINE pulling == {t \in Transport : transport[t].state \in {"CONNECTING", "CONNECTED"}}
    <2>1. ASSUME ~overlapped, pulling # {} PROVE Cardinality(pulling) <= 1
      <3>1. PICK t \in Transport : t \in pulling
        BY <2>1
      <3>2. pulling = {t}
        BY <1>1, <2>1, <3>1 DEF StructInv, PullInv, Pulls
      <3> QED
        BY <3>2, FS_Singleton
    <2>2. CASE pulling = {}
      BY <2>2, FS_EmptySet DEF OnePuller
    <2> QED
      BY <2>1, <2>2 DEF OnePuller
  <1> QED
    BY <1>1, StructAlways, PTL

-----------------------------------------------------------------------------
(***************************************************************************)
(* What becomes of the messages.                                           *)
(***************************************************************************)
InAnswer(r) == place[r] \in {"sent", "acknowledged"}

\* A message that is not finished is on a transport that runs, and none is
\* queued once the queue has been drained.
PlaceInv ==
    /\ \A r \in Request :
         InAnswer(r) => carrier[r] \in Transport /\ Running(carrier[r])
    /\ \A c \in Caller : caller[c].at \in {"stop", "stopped"} =>
         \A r \in Request : place[r] # "queued"

\* A serialized message that is neither acknowledged nor about to be cancelled.
Live(r) ==
    r \in Serialized /\ place[r] = "sent" /\ transport[carrier[r]].at # "disconnect"

\* While there is one, the flag is set, and there is no other.
FlagInv == ~flagLost =>
    \A r \in Request : Live(r) =>
        queue.waiting /\ \A q \in Request : Live(q) => q = r

MessageInv == PlaceInv /\ FlagInv

\* Transports that carry messages keep running, and do not come back from where
\* they cancel them.
LEMMA MessagesKept ==
    ASSUME TypeOK, MessageInv, UNCHANGED messages, UNCHANGED flagLost,
           \A t \in Transport : Running(t) => Running(t)',
           \A t \in Transport :
              transport[t].at = "disconnect" => transport'[t].at = "disconnect",
           \A c \in Caller : caller'[c].at \in {"stop", "stopped"} =>
              \E d \in Caller : caller[d].at \in {"stop", "stopped"}
    PROVE  MessageInv'
  <1> USE DEF MessageInv, messages
  <1>1. PlaceInv'
    BY DEF PlaceInv, InAnswer
  <1>2. ASSUME NEW r \in Request, Live(r)' PROVE Live(r)
    BY <1>2 DEF Live, PlaceInv, InAnswer
  <1>3. FlagInv'
    BY <1>2 DEF FlagInv
  <1> QED
    BY <1>1, <1>3

LEMMA MessageCaller ==
    ASSUME TypeOK, StructInv, MessageInv, NEW c \in Caller,
           \/ Enable(c) \/ Disable(c) \/ SetAVSGateway(c) \/ Shutdown(c)
           \/ ShutdownTransport(c) \/ TransportIsShutdown(c)
           \/ DisableReturns(c) \/ SetAVSGatewayReturns(c)
           \/ DisabledForShutdown(c) \/ Drain(c) \/ StopExecutor(c)
    PROVE  MessageInv'
  <1>1. CASE Drain(c)
    <2> USE DEF MessageInv
    <2>1. /\ \A r \in Request :
               place'[r] = IF place[r] = "queued" THEN "completed" ELSE place[r]
          /\ queue'.waiting = queue.waiting /\ UNCHANGED <<transport, carrier, flagLost>>
      BY <1>1 DEF Drain, TypeOK
    <2>2. PlaceInv'
      BY <2>1 DEF PlaceInv, InAnswer, Running
    <2>3. \A r \in Request : Live(r)' <=> Live(r)
      BY <2>1 DEF Live
    <2>4. FlagInv'
      BY <2>1, <2>3 DEF FlagInv
    <2> QED
      BY <2>2, <2>4
  <1>2. ASSUME UNCHANGED messages, UNCHANGED flagLost, UNCHANGED transport,
               \A d \in Caller : caller'[d].at \in {"stop", "stopped"} =>
                  caller[d].at \in {"stop", "stopped"}
        PROVE  MessageInv'
    BY <1>2, MessagesKept DEF Running
  <1>3. CASE Disable(c) \/ SetAVSGateway(c) \/ Shutdown(c)
    <2>1. /\ UNCHANGED messages /\ UNCHANGED flagLost /\ UNCHANGED transport
          /\ caller'[c].at \notin {"stop", "stopped"}
          /\ \A d \in Caller \ {c} : caller'[d] = caller[d]
      BY <1>3, TakesAll DEF Leaves
    <2> QED
      BY <1>2, <2>1
  <1>4. CASE TransportIsShutdown(c) \/ DisableReturns(c) \/ DisabledForShutdown(c) \/ StopExecutor(c)
    <2>1. UNCHANGED messages /\ UNCHANGED flagLost
      BY <1>4 DEF TransportIsShutdown, DisableReturns, DisabledForShutdown, StopExecutor
    <2>2. /\ UNCHANGED transport
          /\ caller'[c].at \in {"stop", "stopped"} => caller[c].at \in {"stop", "stopped"}
          /\ \A d \in Caller \ {c} : caller'[d] = caller[d]
      BY <1>4, CallerSteps DEF Leaves
    <2> QED
      BY <1>2, <2>1, <2>2
  <1>5. CASE Enable(c) \/ SetAVSGatewayReturns(c)
    <2>1. UNCHANGED messages /\ UNCHANGED flagLost
      BY <1>5 DEF Enable, SetAVSGatewayReturns
    <2>2. \A d \in Caller : caller'[d].at \in {"stop", "stopped"} => caller[d].at \in {"stop", "stopped"}
      BY <1>5 DEF Enable, SetAVSGatewayReturns, Returns, Idle, TypeOK
    <2>3. ASSUME NEW r \in RouterType, NEW u, Makes(r, transport, u), NEW t \in Transport
          PROVE  /\ Running(t) => Running(t)'
                 /\ transport[t].at = "disconnect" => transport'[t].at = "disconnect"
      <3>1. t = u => transport[t].at = "none"
        BY <2>3, NoneIsNoTransport DEF Makes, Begun, StructInv, LoopInv
      <3> QED
        BY <2>3, <3>1 DEF Makes, Running
    <2> QED
      BY <1>5, <2>1, <2>2, <2>3, MessagesKept, Restarts DEF Running
  <1>6. CASE ShutdownTransport(c)
    <2>1. UNCHANGED messages /\ UNCHANGED flagLost /\ UNCHANGED caller
      BY <1>6 DEF ShutdownTransport
    <2>2. \A t \in Transport : transport'[t].at = transport[t].at
      BY <1>6 DEF ShutdownTransport, SetShutdown, TypeOK, TransportType
    <2> QED
      BY <2>1, <2>2, MessagesKept DEF Running
  <1> QED
    BY <1>1, <1>3, <1>4, <1>5, <1>6

LEMMA MessageTransport ==
    ASSUME TypeOK, StructInv, MessageInv, NEW t \in Transport,
           \/ OnPostConnected(t) \/ OnDownchannelFinished(t) \/ Fails(t)
           \/ NextState(t) \/ HandleConnected(t) \/ HandleDisconnecting(t)
           \/ HandleServerSideDisconnect(t)
    PROVE  MessageInv'
  <1>1. UNCHANGED messages /\ UNCHANGED flagLost /\ UNCHANGED caller
    BY DEF OnPostConnected, OnDownchannelFinished, Fails, NextState, HandleConnected,
           HandleDisconnecting, HandleServerSideDisconnect, KeepsCalls
  <1>2. ASSUME NEW state, NEW at, Moves(t, state, at),
               \/ at = transport[t].at
               \/ transport[t].at # "disconnect" /\ at \notin {"none", "ended"}
        PROVE  MessageInv'
    BY <1>1, <1>2, MessagesKept DEF Moves, Kept, Running
  <1>3. LoopInv
    BY DEF StructInv
  <1>4. CASE OnPostConnected(t) \/ OnDownchannelFinished(t) \/ Fails(t)
    BY <1>2, <1>3, <1>4, TransportMoves
  <1>5. CASE NextState(t)
    <2>1. /\ Moves(t, transport[t].state, Handler(transport[t].state))
          /\ transport[t].state \in TransportState \ {"INIT", "CONNECTING"}
          /\ transport[t].at \in {"CONNECTING", "sending"}
      BY <1>3, <1>5, TransportMoves, TransportFields DEF TypeOK
    <2>2. Handler(transport[t].state) \notin {"none", "ended"}
      BY <2>1, HandlerType
    <2> QED
      BY <1>2, <2>1, <2>2
  <1>6. CASE HandleConnected(t) \/ HandleDisconnecting(t)
    BY <1>2, <1>3, <1>6, TransportMoves
  <1>7. CASE HandleServerSideDisconnect(t)
    <2>1. transport[t].at = "handleServerSideDisconnect"
      BY <1>7 DEF HandleServerSideDisconnect
    <2>2. ASSUME NEW u, Makes(router, [transport EXCEPT ![t].at = "handleDisconnecting"], u)
          PROVE  MessageInv'
      <3>1. \A v \in Transport : v = u => transport[v].at = "none"
        BY <1>3, <2>2, NoneIsNoTransport DEF Makes, Begun, LoopInv
      <3>2. \A v \in Transport : /\ Running(v) => Running(v)'
                                 /\ transport[v].at = "disconnect" => transport'[v].at = "disconnect"
        BY <2>1, <2>2, <3>1 DEF Makes, Running, TypeOK, TransportType
      <3> QED
        BY <1>1, <3>2, MessagesKept
    <2>3. CASE Moves(t, transport[t].state, "handleDisconnecting")
      BY <1>2, <2>1, <2>3
    <2> QED
      BY <1>7, <2>2, <2>3, HandleServerSideDisconnectDoes
  <1> QED
    BY <1>4, <1>5, <1>6, <1>7

\* The flag is cleared when another transport's message is not live, or the
\* transport that clears it is no longer one to keep count of.
LEMMA MessageAnswered ==
    ASSUME TypeOK, MessageInv, NEW r \in Request,
           OnReceiveResponseCode(r) \/ OnResponseFinished(r)
    PROVE  MessageInv'
  <1> USE DEF MessageInv
  <1>1. /\ InAnswer(r) /\ place'[r] \in {"acknowledged", "completed"}
        /\ \A q \in Request \ {r} : place'[q] = place[q]
        /\ UNCHANGED <<transport, carrier, caller>> /\ Acknowledged(r)
    BY DEF OnReceiveResponseCode, OnResponseFinished, InAnswer, KeepsCalls, TypeOK
  <1>2. PlaceInv'
    BY <1>1 DEF PlaceInv, InAnswer, Running
  <1>3. \A q \in Request : Live(q)' => Live(q) /\ q # r
    BY <1>1 DEF Live
  <1>4. CASE place[r] = "sent" /\ r \in Serialized
    <2>1. queue'.waiting = FALSE /\ flagLost' = (flagLost \/ OthersAwaited(carrier[r]))
      BY <1>1, <1>4 DEF Acknowledged, ClearsFlag, ClearWaiting, TypeOK
    <2>2. ASSUME ~flagLost', NEW q \in Request, Live(q)' PROVE FALSE
      <3>1. Live(q) /\ q # r /\ ~Live(r)
        BY <1>3, <2>1, <2>2 DEF FlagInv
      <3>2. carrier[q] # carrier[r]
        BY <1>4, <3>1 DEF Live
      <3> QED
        BY <2>1, <2>2, <3>1, <3>2 DEF OthersAwaited, Live
    <2> QED
      BY <1>2, <2>2 DEF FlagInv
  <1>5. CASE ~ (place[r] = "sent" /\ r \in Serialized)
    BY <1>1, <1>2, <1>3, <1>5 DEF Acknowledged, FlagInv
  <1> QED
    BY <1>4, <1>5

LEMMA MessageSent ==
    ASSUME TypeOK, StructInv, MessageInv, NEW r \in Request, SendMessage(r)
    PROVE  MessageInv'
  <1> USE DEF MessageInv
  <1>1. /\ place[r] = "new" /\ place'[r] \in {"queued", "completed"}
        /\ place'[r] = "queued" => router.active # None
        /\ \A q \in Request \ {r} : place'[q] = place[q]
        /\ queue'.waiting = queue.waiting
        /\ UNCHANGED <<transport, carrier, caller, flagLost>>
    BY DEF SendMessage, TypeOK, Enqueue
  <1>2. PlaceInv'
    BY <1>1 DEF PlaceInv, InAnswer, Running, StructInv, ClosedInv, ClosedBy
  <1>3. \A q \in Request : Live(q)' => Live(q)
    BY <1>1 DEF Live
  <1> QED
    BY <1>1, <1>2, <1>3 DEF FlagInv

LEMMA MessageTimesOut ==
    ASSUME TypeOK, MessageInv, NEW t \in Transport, TimesOut(t)
    PROVE  MessageInv'
  <1> USE DEF MessageInv
  <1>1. /\ \A q \in Request : place'[q] \in {place[q], "completed"}
        /\ queue'.waiting = queue.waiting
        /\ UNCHANGED <<transport, carrier, caller, flagLost>>
    BY DEF TimesOut, TypeOK, DequeueOldest, KeepsCalls
  <1>2. PlaceInv'
    BY <1>1 DEF PlaceInv, InAnswer, Running
  <1>3. \A q \in Request : Live(q)' => Live(q)
    BY <1>1 DEF Live
  <1> QED
    BY <1>1, <1>2, <1>3 DEF FlagInv

LEMMA MessageGoesOut ==
    ASSUME TypeOK, MessageInv, NEW t \in Transport, SendsMessage(t)
    PROVE  MessageInv'
  <1> USE DEF MessageInv
  <1> DEFINE r    == NextSendable(queue)
             rest == DequeueSendable(queue)
  <1>1. /\ r \in Request /\ (r \in Serialized => ~queue.waiting)
        /\ rest \in QueueOf /\ rest.waiting = queue.waiting
    BY NextSendableIs DEF SendsMessage, TypeOK, QueueOf
  <1> HIDE DEF r, rest
  <1>2. /\ transport[t].at = "sending" /\ UNCHANGED <<transport, caller, flagLost>>
        /\ \/ /\ place' = [place EXCEPT ![r] = "sent"]
              /\ carrier' = [carrier EXCEPT ![r] = t]
              /\ queue' = IF r \in Serialized THEN SetWaiting(rest) ELSE rest
           \/ /\ place' = [place EXCEPT ![r] = "completed"]
              /\ queue' = rest /\ carrier' = carrier
    BY DEF SendsMessage, KeepsCalls, r, rest
  <1>3. PlaceInv'
    BY <1>1, <1>2 DEF PlaceInv, InAnswer, Running, TypeOK
  <1>4. ASSUME ~flagLost PROVE FlagInv'
    <2>1. CASE r \in Serialized /\ place'[r] = "sent"
      <3>1. queue'.waiting = TRUE
        BY <1>1, <1>2, <2>1 DEF SetWaiting, QueueOf, TypeOK
      <3>2. \A q \in Request : Live(q)' => q = r
        BY <1>1, <1>2, <1>4, <2>1 DEF FlagInv, Live, TypeOK
      <3> QED
        BY <3>1, <3>2 DEF FlagInv
    <2>2. CASE ~ (r \in Serialized /\ place'[r] = "sent")
      <3>1. queue'.waiting = queue.waiting
        BY <1>1, <1>2, <2>2 DEF TypeOK
      <3>2. \A q \in Request : Live(q)' => Live(q)
        BY <1>1, <1>2, <2>2 DEF Live, TypeOK
      <3> QED
        BY <1>2, <3>1, <3>2 DEF FlagInv
    <2> QED
      BY <2>1, <2>2
  <1> QED
    BY <1>2, <1>3, <1>4 DEF FlagInv

LEMMA MessageShutdown ==
    ASSUME TypeOK, StructInv, MessageInv, NEW t \in Transport,
           HandleShutdown(t) \/ Disconnect(t)
    PROVE  MessageInv'
  <1> USE DEF MessageInv
  <1>1. ASSUME HandleShutdown(t) PROVE MessageInv'
    <2>1. /\ transport[t].at = "handleShutdown" /\ transport'[t].at = "disconnect"
          /\ \A v \in Transport \ {t} : transport'[v].at = transport[v].at
          /\ UNCHANGED <<place, carrier, caller>>
          /\ queue'.waiting = FALSE /\ flagLost' = (flagLost \/ OthersAwaited(t))
      BY <1>1 DEF HandleShutdown, Goes, ClearsFlag, ClearWaiting, KeepsCalls, TypeOK, TransportType
    <2>2. PlaceInv'
      BY <2>1 DEF PlaceInv, InAnswer, Running
    <2>3. ASSUME ~flagLost', NEW q \in Request, Live(q)' PROVE FALSE
      <3>1. carrier[q] \in Transport /\ place[q] = "sent" /\ q \in Serialized
        BY <2>1, <2>3 DEF Live, PlaceInv, InAnswer
      <3>2. carrier[q] # t /\ transport[carrier[q]].at # "disconnect"
        BY <2>1, <2>3, <3>1 DEF Live
      <3> QED
        BY <2>1, <2>3, <3>1, <3>2 DEF OthersAwaited
    <2> QED
      BY <2>2, <2>3 DEF FlagInv
  <1>2. ASSUME Disconnect(t) PROVE MessageInv'
    <2>1. /\ transport[t].at = "disconnect" /\ UNCHANGED <<carrier, caller>>
          /\ \A q \in Request : place'[q] =
               IF carrier[q] = t /\ InAnswer(q) THEN "completed" ELSE place[q]
          /\ \/ UNCHANGED <<queue, flagLost>>
             \/ queue'.waiting = FALSE /\ flagLost' = (flagLost \/ OthersAwaited(t))
      BY <1>2 DEF Disconnect, CancelAllStreams, Carried, InAnswer, ClearsFlag, ClearWaiting,
                  KeepsCalls, TypeOK
    <2>2. \A v \in Transport \ {t} : /\ Running(v) => Running(v)'
                                     /\ transport[v].at = "disconnect" => transport'[v].at = "disconnect"
      <3> DEFINE f == [transport EXCEPT ![t].at = "ended"]
      <3>1. \A v \in Transport \ {t} : f[v].at = transport[v].at
        BY DEF TypeOK, TransportType
      <3>2. ASSUME NEW r, NEW u, Makes(r, f, u), NEW v \in Transport \ {t}
            PROVE  /\ Running(v) => Running(v)'
                   /\ transport[v].at = "disconnect" => transport'[v].at = "disconnect"
        <4>1. v = u => transport[v].at = "none"
          BY <3>2, NoneIsNoTransport DEF Makes, Begun, StructInv, LoopInv
        <4> HIDE DEF f
        <4> QED
          BY <3>1, <3>2, <4>1 DEF Makes, Running
      <3>3. Moves(t, transport[t].state, "ended") \/ \E r, u : Makes(r, f, u)
        BY <1>2, DisconnectDoes
      <3> HIDE DEF f
      <3> QED
        BY <3>2, <3>3 DEF Moves, Kept, Running
    <2>3. PlaceInv'
      BY <2>1, <2>2 DEF PlaceInv, InAnswer
    <2>4. ASSUME NEW q \in Request, Live(q)'
          PROVE  Live(q) /\ carrier[q] \in Transport \ {t}
      <3>1. /\ place[q] = "sent" /\ q \in Serialized /\ carrier[q] # t
            /\ carrier[q] \in Transport /\ transport'[carrier[q]].at # "disconnect"
        BY <2>1, <2>4 DEF Live, PlaceInv, InAnswer
      <3> QED
        BY <2>2, <3>1 DEF Live
    <2>5. CASE UNCHANGED <<queue, flagLost>>
      BY <2>3, <2>4, <2>5 DEF FlagInv
    <2>6. CASE queue'.waiting = FALSE /\ flagLost' = (flagLost \/ OthersAwaited(t))
      <3>1. ASSUME ~flagLost', NEW q \in Request, Live(q)' PROVE FALSE
        BY <2>4, <2>6, <3>1 DEF OthersAwaited, Live
      <3> QED
        BY <2>3, <3>1 DEF FlagInv
    <2> QED
      BY <2>1, <2>5, <2>6
  <1> QED
    BY <1>1, <1>2

LEMMA MessageStep == TypeOK /\ StructInv /\ MessageInv /\ [Next]_vars => MessageInv'
  <1> SUFFICES ASSUME TypeOK, StructInv, MessageInv, [Next]_vars PROVE MessageInv'
    OBVIOUS
  <1>1. CASE UNCHANGED vars
    BY <1>1, MessagesKept DEF vars, Running
  <1>2. ASSUME NEW c \in Caller,
               \/ Enable(c) \/ Disable(c) \/ SetAVSGateway(c) \/ Shutdown(c)
               \/ ShutdownTransport(c) \/ TransportIsShutdown(c)
               \/ DisableReturns(c) \/ SetAVSGatewayReturns(c)
               \/ DisabledForShutdown(c) \/ Drain(c) \/ StopExecutor(c)
        PROVE  MessageInv'
    BY <1>2, MessageCaller
  <1>3. ASSUME NEW r \in Request,
               SendMessage(r) \/ OnReceiveResponseCode(r) \/ OnResponseFinished(r)
        PROVE  MessageInv'
    BY <1>3, MessageSent, MessageAnswered
  <1>4. ASSUME NEW t \in Transport,
               \/ OnPostConnected(t) \/ OnDownchannelFinished(t) \/ Fails(t)
               \/ NextState(t) \/ HandleConnected(t) \/ HandleDisconnecting(t)
               \/ HandleServerSideDisconnect(t)
        PROVE  MessageInv'
    BY <1>4, MessageTransport
  <1>5. ASSUME NEW t \in Transport,
               TimesOut(t) \/ SendsMessage(t) \/ HandleShutdown(t) \/ Disconnect(t)
        PROVE  MessageInv'
    BY <1>5, MessageTimesOut, MessageGoesOut, MessageShutdown
  <1>6. CASE NotifyObserver \/ TimerExpires \/ GraceIsOver
    <2>1. UNCHANGED messages /\ UNCHANGED flagLost /\ UNCHANGED <<transport, caller>>
      BY <1>6 DEF NotifyObserver, TimerExpires, GraceIsOver, KeepsCalls
    <2> QED
      BY <2>1, MessagesKept DEF Running
  <1> QED
    BY <1>1, <1>2, <1>3, <1>4, <1>5, <1>6 DEF Next

LEMMA MessageAlways == Spec => [](TypeOK /\ StructInv /\ MessageInv)
  <1>1. Init => TypeOK /\ StructInv /\ MessageInv
    BY InitType, StructInit
    DEF Init, MessageInv, PlaceInv, FlagInv, Live, InAnswer, Idle
  <1>2. (TypeOK /\ StructInv /\ MessageInv) /\ [Next]_vars => (TypeOK /\ StructInv /\ MessageInv)'
    BY NextType, StructStep, MessageStep DEF StructInv
  <1> QED
    BY <1>1, <1>2, PTL DEF Spec

\* Once doShutdown() is through, every message that was accepted is completed
\* and every transport has ended, but for those that another call is stopping.
THEOREM NothingIsLeft == Spec => []ShutdownLeavesNothing
  <1>1. ASSUME TypeOK, StructInv, MessageInv PROVE ShutdownLeavesNothing
    <2> SUFFICES ASSUME NEW c \in Caller, caller[c].at = "stopped"
                 PROVE  LET taken == UNION {caller[o].left : o \in Caller}
                        IN  /\ \A r \in Request :
                                 \/ place[r] \in {"new", "completed"}
                                 \/ place[r] \in {"sent", "acknowledged"} /\ carrier[r] \in taken
                            /\ \A t \in Transport :
                                 transport[t].at \in {"none", "ended"} \/ t \in taken
      BY DEF ShutdownLeavesNothing
    <2>1. router.transports = {}
      BY <1>1 DEF StructInv, ClosedInv, ClosedBy
    <2>2. \A t \in Transport : Running(t) => \E o \in Caller : t \in caller[o].left
      BY <1>1, <2>1 DEF StructInv, ListInv
    <2>3. \A r \in Request :
             \/ place[r] \in {"new", "completed"}
             \/ InAnswer(r) /\ carrier[r] \in Transport /\ Running(carrier[r])
      BY <1>1 DEF MessageInv, PlaceInv, InAnswer, TypeOK
    <2> QED
      BY <2>2, <2>3 DEF Running, InAnswer
  <1> QED
    BY <1>1, MessageAlways, PTL

\* Serialized messages are sent one at a time, each after the one before it is
\* acknowledged or about to be cancelled, unless a transport on its way out has
\* cleared the flag that another one's message had set.
THEOREM SerializedAreSentInTurn == Spec => []SerializedOneAtATime
  <1>1. ASSUME MessageInv PROVE SerializedOneAtATime
    <2> DEFINE sent == {r \in Serialized :
                          place[r] = "sent" /\ transport[carrier[r]].at # "disconnect"}
    <2>1. ASSUME ~flagLost, sent # {} PROVE Cardinality(sent) <= 1
      <3>1. PICK r \in Serialized : r \in sent
        BY <2>1
      <3>2. \A q \in sent : q \in Request /\ Live(q)
        BY RouterAssumption DEF Live
      <3>3. sent = {r}
        BY <1>1, <2>1, <3>1, <3>2 DEF MessageInv, FlagInv
      <3> HIDE DEF sent
      <3> QED
        BY <3>3, FS_Singleton
    <2>2. CASE sent = {}
      BY <2>2, FS_EmptySet DEF SerializedOneAtATime
    <2> QED
      BY <2>1, <2>2 DEF SerializedOneAtATime
  <1> QED
    BY <1>1, MessageAlways, PTL

-----------------------------------------------------------------------------
(***************************************************************************)
(* What the observer is told.                                              *)
(***************************************************************************)
Reports(tasks) == {i \in DOMAIN tasks : tasks[i].does = "report"}

\* The last report that waits in the executor's queue has the router's status.
\* If none waits, the observer knows it, or is held back in a grace period of a
\* router that is PENDING still, which the timer or a task will end.
Told(r, rep) == ~r.isShutdown =>
    /\ \A i \in Reports(r.tasks) :
         (\A j \in Reports(r.tasks) : j <= i) => r.tasks[i].status = r.status
    /\ Reports(r.tasks) = {} =>
         /\ rep.last = r.status \/ (rep.pending /\ (rep.timer \/ r.tasks # <<>>))
         /\ rep.pending => r.status = "PENDING"

LEMMA ToldSubmit ==
    ASSUME NEW r \in RouterType, NEW status \in Status, NEW reason \in Reason, NEW rep
    PROVE  Told(Submit([r EXCEPT !.status = status],
                       [does |-> "report", status |-> status, reason |-> reason]), rep)
           \/ r.isShutdown
  <1> DEFINE task == [does |-> "report", status |-> status, reason |-> reason]
             s == Submit([r EXCEPT !.status = status], task)
             n == Len(r.tasks) + 1
  <1> SUFFICES ASSUME ~r.isShutdown PROVE Told(s, rep)
    OBVIOUS
  <1>1. r.tasks \in Seq(TaskType) /\ task \in TaskType
    BY DEF RouterType, TaskType
  <1>2. s.tasks = Append(r.tasks, task) /\ s.status = status
    BY DEF Submit, RouterType
  <1>3. /\ Append(r.tasks, task) \in Seq(TaskType) /\ n \in Nat
        /\ Len(Append(r.tasks, task)) = n /\ Append(r.tasks, task)[n] = task
    BY <1>1, AppendProperties
  <1> HIDE DEF s
  <1>4. n \in Reports(s.tasks) /\ \A i \in Reports(s.tasks) : i \in 1 .. n
    <2>1. DOMAIN s.tasks = 1 .. n
      BY <1>2, <1>3
    <2> QED
      BY <1>2, <1>3, <2>1 DEF Reports
  <1>5. ASSUME NEW i \in Reports(s.tasks), \A j \in Reports(s.tasks) : j <= i
        PROVE  s.tasks[i].status = s.status
    <2>1. i = n
      BY <1>3, <1>4, <1>5
    <2> QED
      BY <1>2, <1>3, <2>1
  <1> QED
    BY <1>4, <1>5 DEF Told

LEMMA ToldSetStatus ==
    ASSUME NEW r \in RouterType, NEW status \in Status, NEW reason \in Reason, NEW rep,
           Told(r, rep)
    PROVE  Told(SetStatus(r, status, reason), rep)
  <1>1. CASE status = r.status
    BY <1>1 DEF SetStatus
  <1>2. CASE status # r.status /\ ~r.isShutdown
    BY <1>2, ToldSubmit DEF SetStatus
  <1>3. CASE status # r.status /\ r.isShutdown
    BY <1>3 DEF SetStatus, Submit, Told, RouterType
  <1> QED
    BY <1>1, <1>2, <1>3

LEMMA ToldOfFields ==
    ASSUME NEW r, NEW s, NEW rep, Told(r, rep),
           s.tasks = r.tasks, s.status = r.status, s.isShutdown = r.isShutdown
    PROVE  Told(s, rep)
  BY DEF Told

LEMMA ToldCreateActive ==
    ASSUME NEW r \in RouterType, NEW u, NEW rep, Told(r, rep)
    PROVE  Told(CreateActive(r, u), rep)
  <1>1. CASE u # None
    <2> DEFINE s == [r EXCEPT !.transports = @ \cup {u}, !.active = u]
    <2>1. s.tasks = r.tasks /\ s.status = r.status /\ s.isShutdown = r.isShutdown
      BY DEF RouterType
    <2> HIDE DEF s
    <2>2. Told(s, rep)
      BY <2>1, ToldOfFields
    <2> QED
      BY <1>1, <2>2 DEF CreateActive, s
  <1>2. CASE u = None
    <2> DEFINE s == [r EXCEPT !.active = None]
    <2>1. /\ s \in RouterType
          /\ s.tasks = r.tasks /\ s.status = r.status /\ s.isShutdown = r.isShutdown
      BY DEF RouterType
    <2> HIDE DEF s
    <2>2. Told(SetStatus(s, "DISCONNECTED", "INTERNAL_ERROR"), rep)
      BY <2>1, ToldOfFields, ToldSetStatus DEF Status, Reason
    <2> QED
      BY <1>2, <2>2 DEF CreateActive, s
  <1> QED
    BY <1>1, <1>2

LEMMA ToldDisconnectAll ==
    ASSUME NEW r \in RouterType, NEW reason \in Reason, NEW rep, Told(r, rep)
    PROVE  Told(DisconnectAll(r, reason), rep)
  <1> DEFINE s == [r EXCEPT !.active = None, !.transports = {}]
  <1>1. /\ s \in RouterType
        /\ s.tasks = r.tasks /\ s.status = r.status /\ s.isShutdown = r.isShutdown
    BY DEF RouterType
  <1> HIDE DEF s
  <1>2. Told(SetStatus(s, "DISCONNECTED", reason), rep)
    BY <1>1, ToldOfFields, ToldSetStatus DEF Status
  <1> QED
    BY <1>2 DEF DisconnectAll, s

LEMMA ToldCaller ==
    ASSUME TypeOK, Told(router, reporter), NEW c \in Caller,
           \/ Enable(c) \/ Disable(c) \/ SetAVSGateway(c) \/ Shutdown(c)
           \/ SetAVSGatewayReturns(c) \/ StopExecutor(c)
    PROVE  Told(router', reporter')
  <1> DEFINE on  == [router EXCEPT !.enabled = TRUE]
             off == [router EXCEPT !.enabled = FALSE]
  <1>1. /\ router \in RouterType /\ on \in RouterType /\ off \in RouterType
        /\ on.tasks = router.tasks /\ on.status = router.status
        /\ on.isShutdown = router.isShutdown
        /\ off.tasks = router.tasks /\ off.status = router.status
        /\ off.isShutdown = router.isShutdown
    BY DEF TypeOK, RouterType
  <1> HIDE DEF on, off
  <1>2. Told(on, reporter) /\ Told(off, reporter)
    BY <1>1, ToldOfFields
  <1>3. "PENDING" \in Status /\ "ACL_CLIENT_REQUEST" \in Reason /\ "SERVER_ENDPOINT_CHANGED" \in Reason
    BY DEF Status, Reason
  <1>4. CASE Enable(c)
    <2> DEFINE s == SetStatus(on, "PENDING", "ACL_CLIENT_REQUEST")
    <2>1. s \in RouterType /\ Told(s, reporter)
      BY <1>1, <1>2, <1>3, SetStatusType, ToldSetStatus
    <2>2. reporter' = reporter /\ \E u : router' = CreateActive(s, u)
      BY <1>4 DEF Enable, on
    <2> HIDE DEF s
    <2> QED
      BY <2>1, <2>2, ToldCreateActive
  <1>5. CASE Disable(c)
    <2>1. reporter' = reporter /\ router' = DisconnectAll(off, "ACL_CLIENT_REQUEST")
      BY <1>5 DEF Disable, TakeTransports, off
    <2> QED
      BY <1>1, <1>2, <1>3, <2>1, ToldDisconnectAll
  <1>6. CASE SetAVSGateway(c)
    <2>1. reporter' = reporter /\ router' = DisconnectAll(router, "SERVER_ENDPOINT_CHANGED")
      BY <1>6 DEF SetAVSGateway, TakeTransports
    <2> QED
      BY <1>1, <1>3, <2>1, ToldDisconnectAll
  <1>7. CASE Shutdown(c)
    <2>1. reporter' = reporter /\ router' = DisconnectAll(off, "ACL_CLIENT_REQUEST")
      BY <1>7 DEF Shutdown, TakeTransports, off
    <2> QED
      BY <1>1, <1>2, <1>3, <2>1, ToldDisconnectAll
  <1>8. CASE SetAVSGatewayReturns(c)
    <2>1. /\ reporter' = reporter
          /\ router' = router \/ \E u : router' = CreateActive(router, u)
      BY <1>8 DEF SetAVSGatewayReturns
    <2> QED
      BY <1>1, <2>1, ToldCreateActive
  <1>9. CASE StopExecutor(c)
    <2>1. router'.isShutdown
      BY <1>9 DEF StopExecutor, TypeOK, RouterType
    <2> QED
      BY <2>1 DEF Told
  <1> QED
    BY <1>4, <1>5, <1>6, <1>7, <1>8, <1>9

LEMMA ToldTransport ==
    ASSUME TypeOK, Told(router, reporter), NEW t \in Transport,
           HandleConnected(t) \/ HandleServerSideDisconnect(t) \/ Disconnect(t)
    PROVE  Told(router', reporter')
  <1>1. router \in RouterType /\ transport[t].reason \in Reason
    BY TransportFields DEF TypeOK
  <1>2. \A status \in Status, reason \in Reason :
           /\ SetStatus(router, status, reason) \in RouterType
           /\ Told(SetStatus(router, status, reason), reporter)
    BY <1>1, SetStatusType, ToldSetStatus
  <1>3. /\ "PENDING" \in Status /\ "CONNECTED" \in Status /\ "DISCONNECTED" \in Status
        /\ "ACL_CLIENT_REQUEST" \in Reason /\ "SERVER_SIDE_DISCONNECT" \in Reason
    BY DEF Status, Reason
  <1>4. CASE HandleConnected(t)
    <2>1. /\ reporter' = reporter
          /\ router' \in {router, SetStatus(router, "CONNECTED", "ACL_CLIENT_REQUEST")}
      BY <1>4 DEF HandleConnected
    <2> QED
      BY <1>2, <1>3, <2>1
  <1>5. CASE HandleServerSideDisconnect(t)
    <2> DEFINE s == SetStatus(router, "PENDING", "SERVER_SIDE_DISCONNECT")
    <2>1. /\ reporter' = reporter
          /\ router' = router \/ \E u : router' = CreateActive(s, u)
      BY <1>5 DEF HandleServerSideDisconnect
    <2>2. s \in RouterType /\ Told(s, reporter)
      BY <1>2, <1>3
    <2> HIDE DEF s
    <2> QED
      BY <2>1, <2>2, ToldCreateActive
  <1>6. CASE Disconnect(t)
    <2> DEFINE reason == transport[t].reason
               listed == [router EXCEPT !.transports = @ \ {t}]
               lost   == [listed EXCEPT !.active = None]
               last   == SetStatus(lost, "DISCONNECTED", reason)
               next   == SetStatus(lost, "PENDING", reason)
    <2>1. /\ lost \in RouterType
          /\ listed.tasks = router.tasks /\ listed.status = router.status
          /\ listed.isShutdown = router.isShutdown
          /\ lost.tasks = router.tasks /\ lost.status = router.status
          /\ lost.isShutdown = router.isShutdown
      BY DEF TypeOK, RouterType
    <2>2. Disconnect(t) => OnDisconnected(t) /\ reporter' = reporter
      BY DEF Disconnect
    <2>3. /\ reporter' = reporter
          /\ \/ router' \in {listed, lost, last}
             \/ \E u : router' = CreateActive(next, u)
      BY <1>6, <2>2 DEF OnDisconnected
    <2> HIDE DEF reason, listed, lost
    <2>4. Told(listed, reporter) /\ Told(lost, reporter)
      BY <2>1, ToldOfFields
    <2>5. Told(last, reporter) /\ Told(next, reporter) /\ next \in RouterType
      BY <1>1, <1>3, <2>1, <2>4, SetStatusType, ToldSetStatus DEF reason
    <2> HIDE DEF last, next
    <2> QED
      BY <2>3, <2>4, <2>5, ToldCreateActive
  <1> QED
    BY <1>4, <1>5, <1>6

\* The tasks that are left when the first one is done.
LEMMA RestOfReports ==
    ASSUME NEW tasks \in Seq(TaskType), tasks # <<>>
    PROVE  /\ \A i \in Reports(Tail(tasks)) :
                i + 1 \in Reports(tasks) /\ Tail(tasks)[i] = tasks[i + 1] /\ i \in Nat
           /\ \A i \in Reports(tasks) : i = 1 \/ i - 1 \in Reports(Tail(tasks))
           /\ Head(tasks).does = "report" => 1 \in Reports(tasks)
           /\ Head(tasks).does # "report" => 1 \notin Reports(tasks)
           /\ Head(tasks) = tasks[1] /\ \A i \in Reports(tasks) : i \in Nat \ {0}
  <1>1. /\ Tail(tasks) \in Seq(TaskType) /\ Len(Tail(tasks)) = Len(tasks) - 1
        /\ \A i \in 1 .. Len(Tail(tasks)) : Tail(tasks)[i] = tasks[i + 1]
    BY HeadTailProperties
  <1>2. /\ DOMAIN tasks = 1 .. Len(tasks) /\ Len(tasks) \in Nat \ {0}
        /\ DOMAIN Tail(tasks) = 1 .. Len(tasks) - 1
    BY <1>1, EmptySeq
  <1>3. Head(tasks) = tasks[1] /\ 1 \in DOMAIN tasks
    BY <1>2
  <1>4. ASSUME NEW i \in Reports(Tail(tasks))
        PROVE  i + 1 \in Reports(tasks) /\ Tail(tasks)[i] = tasks[i + 1] /\ i \in Nat
    BY <1>1, <1>2, <1>4 DEF Reports
  <1>5. ASSUME NEW i \in Reports(tasks), i # 1 PROVE i - 1 \in Reports(Tail(tasks))
    <2>1. i \in 1 .. Len(tasks) /\ tasks[i].does = "report"
      BY <1>2, <1>5 DEF Reports
    <2>2. i - 1 \in 1 .. Len(tasks) - 1 /\ (i - 1) + 1 = i
      BY <1>2, <1>5, <2>1
    <2>3. Tail(tasks)[i - 1] = tasks[i]
      BY <1>1, <2>2
    <2> QED
      BY <1>2, <2>1, <2>2, <2>3 DEF Reports
  <1> QED
    BY <1>2, <1>3, <1>4, <1>5 DEF Reports

LEMMA ToldReporter ==
    ASSUME TypeOK, Told(router, reporter), NotifyObserver \/ TimerExpires \/ GraceIsOver
    PROVE  Told(router', reporter')
  <1> DEFINE tasks == router.tasks
             rest  == Tail(tasks)
  <1>1. tasks \in Seq(TaskType)
    BY DEF TypeOK, RouterType
  <1>2. ASSUME tasks # <<>>, Done, ~router.isShutdown
        PROVE  /\ router'.tasks = rest /\ router'.status = router.status
               /\ router'.isShutdown = router.isShutdown
               /\ \A i \in Reports(rest) : (\A j \in Reports(rest) : j <= i) =>
                     rest[i].status = router.status
    <2>1. /\ router'.tasks = rest /\ router'.status = router.status
          /\ router'.isShutdown = router.isShutdown
      BY <1>2 DEF Done, TypeOK, RouterType
    <2>2. ASSUME NEW i \in Reports(rest), \A j \in Reports(rest) : j <= i
          PROVE  rest[i].status = router.status
      <3> HIDE DEF tasks
      <3>1. i + 1 \in Reports(tasks) /\ rest[i] = tasks[i + 1] /\ i \in Nat
        BY <1>1, <1>2, <2>2, RestOfReports
      <3>2. ASSUME NEW j \in Reports(tasks) PROVE j <= i + 1
        <4>1. j \in Nat \ {0} /\ (j = 1 \/ j - 1 \in Reports(rest))
          BY <1>1, <1>2, <3>2, RestOfReports
        <4>2. CASE j = 1
          BY <3>1, <4>2
        <4>3. CASE j - 1 \in Reports(rest)
          BY <2>2, <3>1, <4>1, <4>3
        <4> QED
          BY <4>1, <4>2, <4>3
      <3> QED
        BY <1>2, <3>1, <3>2 DEF Told, tasks
    <2> QED
      BY <2>1, <2>2
  <1>3. CASE router.isShutdown
    <2>1. router'.isShutdown
      BY <1>3 DEF NotifyObserver, TimerExpires, GraceIsOver, Done, Submit, TypeOK, RouterType
    <2> QED
      BY <2>1 DEF Told
  <1>4. CASE NotifyObserver /\ ~router.isShutdown
    <2>1. tasks # <<>> /\ Done /\ Task = Head(tasks) /\ Task.does = "report"
      BY <1>4 DEF NotifyObserver, Task
    <2>2. ASSUME Reports(rest) = {} PROVE Task.status = router.status
      <3> HIDE DEF tasks
      <3>1. /\ 1 \in Reports(tasks) /\ Head(tasks) = tasks[1]
            /\ \A i \in Reports(tasks) : i = 1
        BY <1>1, <2>1, <2>2, RestOfReports
      <3> QED
        BY <1>4, <2>1, <3>1 DEF Told, tasks
    <2>3. \/ InGracePeriod /\ reporter'.pending = TRUE /\ reporter'.timer = TRUE
          \/ ~InGracePeriod /\ reporter' = Reported(Task.status)
      BY <1>4 DEF NotifyObserver, TypeOK
    <2>4. /\ router'.tasks = rest /\ router'.status = router.status
          /\ \A i \in Reports(rest) : (\A j \in Reports(rest) : j <= i) =>
                rest[i].status = router.status
      BY <1>2, <1>4, <2>1
    <2>5. ASSUME Reports(rest) = {}
          PROVE  \/ reporter'.pending /\ reporter'.timer /\ router.status = "PENDING"
                 \/ ~reporter'.pending /\ reporter'.last = router.status
      BY <2>2, <2>3, <2>5 DEF InGracePeriod, Reported
    <2> HIDE DEF rest
    <2> QED
      BY <2>4, <2>5 DEF Told
  <1>5. CASE GraceIsOver /\ ~router.isShutdown
    <2>1. tasks # <<>> /\ Done /\ Task = Head(tasks) /\ Task.does = "graceOver"
      BY <1>5 DEF GraceIsOver, Task
    <2>2. ASSUME Reports(rest) = {} PROVE Reports(tasks) = {}
      <3> HIDE DEF tasks
      <3>1. 1 \notin Reports(tasks)
        <4>1. Head(tasks).does # "report"
          BY <2>1
        <4> QED
          BY <1>1, <2>1, <4>1, RestOfReports
      <3>2. \A i \in Reports(tasks) : i = 1 \/ i - 1 \in Reports(rest)
        BY <1>1, <2>1, RestOfReports
      <3> QED
        BY <2>2, <3>1, <3>2
    <2>3. \/ reporter.pending /\ reporter'.last = "PENDING" /\ reporter'.pending = FALSE
          \/ ~reporter.pending /\ reporter' = reporter
      BY <1>5 DEF GraceIsOver, TypeOK
    <2> HIDE DEF tasks
    <2> QED
      BY <1>2, <1>5, <2>1, <2>2, <2>3 DEF Told, tasks
  <1>6. CASE TimerExpires /\ ~router.isShutdown
    <2> DEFINE task == [does |-> "graceOver"]
    <2>1. /\ router'.tasks = Append(tasks, task) /\ router'.status = router.status
          /\ router'.isShutdown = router.isShutdown
          /\ reporter'.last = reporter.last /\ reporter'.pending = reporter.pending
      BY <1>6 DEF TimerExpires, Submit, TypeOK, RouterType
    <2>2. task \in TaskType
      BY DEF TaskType
    <2>3. /\ Append(tasks, task) \in Seq(TaskType) /\ Append(tasks, task) # <<>>
          /\ Len(Append(tasks, task)) = Len(tasks) + 1
          /\ \A i \in 1 .. Len(tasks) : Append(tasks, task)[i] = tasks[i]
          /\ Append(tasks, task)[Len(tasks) + 1] = task
      <3> HIDE DEF task, tasks
      <3> QED
        BY <1>1, <2>2, AppendProperties
    <2>4. /\ Reports(Append(tasks, task)) = Reports(tasks)
          /\ \A i \in Reports(tasks) : Append(tasks, task)[i] = tasks[i]
      <3>1. /\ DOMAIN tasks = 1 .. Len(tasks) /\ Len(tasks) \in Nat
            /\ DOMAIN Append(tasks, task) = 1 .. Len(tasks) + 1
        BY <1>1, <2>3
      <3>2. task.does # "report"
        OBVIOUS
      <3> HIDE DEF task, tasks
      <3> QED
        BY <2>3, <3>1, <3>2 DEF Reports
    <2> HIDE DEF task
    <2> QED
      BY <1>6, <2>1, <2>3, <2>4 DEF Told
  <1> QED
    BY <1>3, <1>4, <1>5, <1>6

LEMMA ToldStep ==
    TypeOK /\ Told(router, reporter) /\ [Next]_vars => Told(router', reporter')
  <1> SUFFICES ASSUME TypeOK, Told(router, reporter), [Next]_vars
               PROVE  Told(router', reporter')
    OBVIOUS
  <1>1. CASE UNCHANGED vars
    BY <1>1 DEF vars
  <1>2. ASSUME NEW c \in Caller,
               \/ Enable(c) \/ Disable(c) \/ SetAVSGateway(c) \/ Shutdown(c)
               \/ SetAVSGatewayReturns(c) \/ StopExecutor(c)
        PROVE  Told(router', reporter')
    BY <1>2, ToldCaller
  <1>3. ASSUME NEW c \in Caller,
               \/ ShutdownTransport(c) \/ TransportIsShutdown(c) \/ DisableReturns(c)
               \/ DisabledForShutdown(c) \/ Drain(c)
        PROVE  UNCHANGED <<router, reporter>>
    BY <1>3 DEF ShutdownTransport, TransportIsShutdown, DisableReturns, DisabledForShutdown, Drain
  <1>4. ASSUME NEW r \in Request,
               SendMessage(r) \/ OnReceiveResponseCode(r) \/ OnResponseFinished(r)
        PROVE  UNCHANGED <<router, reporter>>
    BY <1>4 DEF SendMessage, OnReceiveResponseCode, OnResponseFinished
  <1>5. ASSUME NEW t \in Transport,
               HandleConnected(t) \/ HandleServerSideDisconnect(t) \/ Disconnect(t)
        PROVE  Told(router', reporter')
    BY <1>5, ToldTransport
  <1>6. ASSUME NEW t \in Transport,
               \/ OnPostConnected(t) \/ OnDownchannelFinished(t) \/ Fails(t) \/ NextState(t)
               \/ TimesOut(t) \/ SendsMessage(t) \/ HandleDisconnecting(t) \/ HandleShutdown(t)
        PROVE  UNCHANGED <<router, reporter>>
    BY <1>6 DEF OnPostConnected, OnDownchannelFinished, Fails, NextState, TimesOut,
                SendsMessage, HandleDisconnecting, HandleShutdown
  <1>7. CASE NotifyObserver \/ TimerExpires \/ GraceIsOver
    BY <1>7, ToldReporter
  <1> QED
    BY <1>1, <1>2, <1>3, <1>4, <1>5, <1>6, <1>7 DEF Next

\* When the executor has nothing to do, the observer was last told the status
\* that the router has, or waits in the grace period of a router that is PENDING.
THEOREM ObserverIsUpToDate == Spec => []ReportedIsCurrent
  <1>1. Init => Told(router, reporter)
    BY EmptySeq DEF Init, Told, Reports
  <1>2. (TypeOK /\ Told(router, reporter)) /\ [Next]_vars => Told(router, reporter)'
    BY ToldStep
  <1>3. Told(router, reporter) => ReportedIsCurrent
    BY EmptySeq DEF Told, Reports, ReportedIsCurrent
  <1> QED
    BY <1>1, <1>2, <1>3, ConnectionTypeCorrect, PTL DEF Spec
=============================================================================
