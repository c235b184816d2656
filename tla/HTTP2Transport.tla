---------------------------- MODULE HTTP2Transport ----------------------------
(***************************************************************************)
(* The connection: MessageRouter with the main loops of its transports,    *)
(* the network, the executor and the grace timer.                          *)
(*                                                                         *)
(* A main loop is where its handler is: at one of the states it handles, or *)
(* sending, or on its way out of handleShutdown().  Its callbacks to the    *)
(* router are made without the transport's mutex.                          *)
(***************************************************************************)
EXTENDS MessageRouter

Carried(t) == {r \in Request : carrier[r] = t /\ place[r] \in {"sent", "acknowledged"}}

Goes(t, to) == transport' = [transport EXCEPT ![t].at = to]

KeepsCalls == UNCHANGED <<caller, calls, overlapped>>

(***************************************************************************)
(* The network, on other threads than the main loop.                       *)
(***************************************************************************)
OnPostConnected(t) ==
    /\ transport[t].state = "CONNECTING"
    /\ transport' = [transport EXCEPT ![t].state = "CONNECTED"]
    /\ UNCHANGED <<router, reporter, messages, flagLost>> /\ KeepsCalls

\* The downchannel is closed, or a ping is answered with an error.
OnDownchannelFinished(t) ==
    /\ transport[t].state \in {"CONNECTING", "CONNECTED"}
    /\ transport' = [transport EXCEPT ![t].state  = "SERVER_SIDE_DISCONNECT",
                                      ![t].reason = "SERVER_SIDE_DISCONNECT"]
    /\ UNCHANGED <<router, reporter, messages, flagLost>> /\ KeepsCalls

\* No ping comes back, or the authorization is lost for good.
Fails(t) ==
    /\ transport[t].state \notin {"INIT", "SHUTDOWN"}
    /\ \E reason \in {"PING_TIMEDOUT", "UNRECOVERABLE_ERROR"} : SetShutdown(t, reason)
    /\ UNCHANGED <<router, reporter, messages, flagLost>> /\ KeepsCalls

\* Another transport's serialized message is sent, and neither acknowledged nor
\* about to be cancelled.
OthersAwaited(t) ==
    \E r \in Serialized :
        place[r] = "sent" /\ carrier[r] # t /\ transport[carrier[r]].at # "disconnect"

\* The flag is one for all the transports.
ClearsFlag(t) ==
    /\ queue' = ClearWaiting(queue)
    /\ flagLost' = (flagLost \/ OthersAwaited(t))

\* reportMessageRequestAcknowledged(): once for a message.
Acknowledged(r) ==
    IF place[r] = "sent" /\ r \in Serialized
    THEN ClearsFlag(carrier[r]) ELSE UNCHANGED <<queue, flagLost>>

OnReceiveResponseCode(r) ==
    /\ place[r] = "sent"
    /\ place' = [place EXCEPT ![r] = "acknowledged"]
    /\ Acknowledged(r)
    /\ UNCHANGED <<router, reporter, transport, carrier>> /\ KeepsCalls

OnResponseFinished(r) ==
    /\ place[r] \in {"sent", "acknowledged"}
    /\ place' = [place EXCEPT ![r] = "completed"]
    /\ Acknowledged(r)
    /\ UNCHANGED <<router, reporter, transport, carrier>> /\ KeepsCalls

(***************************************************************************)
(* The main loop.                                                          *)
(***************************************************************************)
\* A handler returns when it sees that the state is no longer its own.
Handler(state) ==
    CASE state = "CONNECTED"              -> "handleConnected"
      [] state = "SERVER_SIDE_DISCONNECT" -> "handleServerSideDisconnect"
      [] state = "SHUTDOWN"               -> "handleShutdown"

NextState(t) ==
    /\ \/ transport[t].at = "CONNECTING" /\ transport[t].state # "CONNECTING"
       \/ transport[t].at = "sending"    /\ transport[t].state # "CONNECTED"
    /\ Goes(t, Handler(transport[t].state))
    /\ UNCHANGED <<router, reporter, messages, flagLost>> /\ KeepsCalls

\* While it is not connected, it times out the messages that have waited long.
TimesOut(t) ==
    /\ transport[t].at = "CONNECTING" /\ queue.requests # <<>>
    /\ place' = [place EXCEPT ![Head(queue.requests)] = "completed"]
    /\ queue' = DequeueOldest(queue)
    /\ UNCHANGED <<router, reporter, transport, carrier, flagLost>> /\ KeepsCalls

HandleConnected(t) ==
    /\ transport[t].at = "handleConnected"
    /\ router' = IF router.enabled /\ t = router.active
                 THEN SetStatus(router, "CONNECTED", "ACL_CLIENT_REQUEST")
                 ELSE router
    /\ Goes(t, "sending")
    /\ UNCHANGED <<reporter, messages, flagLost>> /\ KeepsCalls

\* The message is sent, or, for want of a token or a stream, completed.
SendsMessage(t) ==
    /\ transport[t].at = "sending" /\ transport[t].state = "CONNECTED"
    /\ IsMessageRequestAvailable(queue)
    /\ LET r    == NextSendable(queue)
           rest == DequeueSendable(queue)
       IN  \/ /\ place'   = [place EXCEPT ![r] = "sent"]
              /\ carrier' = [carrier EXCEPT ![r] = t]
              /\ queue'   = IF r \in Serialized THEN SetWaiting(rest) ELSE rest
           \/ /\ place'   = [place EXCEPT ![r] = "completed"]
              /\ queue'   = rest
              /\ UNCHANGED carrier
    /\ UNCHANGED <<router, reporter, transport, flagLost>> /\ KeepsCalls

\* onServerSideDisconnect(): new messages go through a new transport.
HandleServerSideDisconnect(t) ==
    /\ transport[t].at = "handleServerSideDisconnect"
    /\ LET gone == [transport EXCEPT ![t].at = "handleDisconnecting"]
       IN  IF router.enabled /\ t = router.active
           THEN \E u \in Made :
                  /\ router' = CreateActive(SetStatus(router, "PENDING",
                                                      "SERVER_SIDE_DISCONNECT"), u)
                  /\ transport' = Connect(gone, u)
           ELSE transport' = gone /\ UNCHANGED router
    /\ UNCHANGED <<reporter, messages, flagLost>> /\ KeepsCalls

\* It waits for the unfinished messages in the state DISCONNECTING only.
HandleDisconnecting(t) ==
    /\ transport[t].at = "handleDisconnecting"
    /\ transport[t].state # "DISCONNECTING" \/ Carried(t) = {}
    /\ transport' = [transport EXCEPT
           ![t].state  = "SHUTDOWN",
           ![t].reason = IF @ = "NONE" THEN "SUCCESS" ELSE @,
           ![t].at     = "handleShutdown"]
    /\ UNCHANGED <<router, reporter, messages, flagLost>> /\ KeepsCalls

HandleShutdown(t) ==
    /\ transport[t].at = "handleShutdown"
    /\ ClearsFlag(t)
    /\ Goes(t, "disconnect")
    /\ UNCHANGED <<router, reporter, place, carrier>> /\ KeepsCalls

\* The HTTP/2 connection cancels its streams, and reports each of them.
CancelAllStreams(t) ==
    LET awaited == {r \in Carried(t) \cap Serialized : place[r] = "sent"}
    IN  /\ IF awaited # {} THEN ClearsFlag(t) ELSE UNCHANGED <<queue, flagLost>>
        /\ place' = [r \in Request |-> IF r \in Carried(t) THEN "completed" ELSE place[r]]
        /\ UNCHANGED carrier

\* onDisconnected(): the active transport is replaced, but not if the error is
\* final or the router already says that it is disconnected.
OnDisconnected(t) ==
    LET reason == transport[t].reason
        ended  == [transport EXCEPT ![t].at = "ended"]
        listed == [router EXCEPT !.transports = @ \ {t}]
        lost   == [listed EXCEPT !.active = None]
    IN  IF t # router.active
        THEN router' = listed /\ transport' = ended
        ELSE IF router.status = "DISCONNECTED"
        THEN router' = lost /\ transport' = ended
        ELSE IF router.enabled /\ reason # "UNRECOVERABLE_ERROR"
        THEN \E u \in Made :
               /\ router' = CreateActive(SetStatus(lost, "PENDING", reason), u)
               /\ transport' = Connect(ended, u)
        ELSE /\ router' = IF lost.transports = {}
                          THEN SetStatus(lost, "DISCONNECTED", reason) ELSE lost
             /\ transport' = ended

\* The last thing that the thread does.  Who sees the streams cancelled and who
\* sees the transport gone do not look at the other: one step stands for both.
Disconnect(t) ==
    /\ transport[t].at = "disconnect"
    /\ CancelAllStreams(t)
    /\ OnDisconnected(t)
    /\ UNCHANGED reporter /\ KeepsCalls

(***************************************************************************)
(* The executor and the timer of the grace period.                         *)
(***************************************************************************)
Task == Head(router.tasks)

InGracePeriod ==
    Task.status = "PENDING" /\ Task.reason = "SERVER_SIDE_DISCONNECT"

\* Mutant: the notification that was held back is not called off.
ReportedStillPending(status) ==
    [last |-> status, pending |-> reporter.pending, timer |-> FALSE]

Reported(status) == [last |-> status, pending |-> FALSE, timer |-> FALSE]

Done == router' = [router EXCEPT !.tasks = Tail(@)]

NotifyObserver ==
    /\ router.tasks # <<>> /\ Task.does = "report"
    /\ Done
    /\ reporter' = IF InGracePeriod
                   THEN [reporter EXCEPT !.pending = TRUE, !.timer = TRUE]
                   ELSE Reported(Task.status)
    /\ UNCHANGED <<transport, messages, flagLost>> /\ KeepsCalls

TimerExpires ==
    /\ reporter.timer
    /\ reporter' = [reporter EXCEPT !.timer = FALSE]
    /\ router' = Submit(router, [does |-> "graceOver"])
    /\ UNCHANGED <<transport, messages, flagLost>> /\ KeepsCalls

GraceIsOver ==
    /\ router.tasks # <<>> /\ Task.does = "graceOver"
    /\ Done
    /\ reporter' = IF reporter.pending
                   THEN [reporter EXCEPT !.last = "PENDING", !.pending = FALSE]
                   ELSE reporter
    /\ UNCHANGED <<transport, messages, flagLost>> /\ KeepsCalls

Next ==
    \/ \E c \in Caller :
         \/ Enable(c) \/ Disable(c) \/ SetAVSGateway(c) \/ Shutdown(c)
         \/ ShutdownTransport(c) \/ TransportIsShutdown(c)
         \/ DisableReturns(c) \/ SetAVSGatewayReturns(c)
         \/ DisabledForShutdown(c) \/ Drain(c) \/ StopExecutor(c)
    \/ \E r \in Request :
         SendMessage(r) \/ OnReceiveResponseCode(r) \/ OnResponseFinished(r)
    \/ \E t \in Transport :
         \/ OnPostConnected(t) \/ OnDownchannelFinished(t) \/ Fails(t)
         \/ NextState(t) \/ TimesOut(t) \/ HandleConnected(t) \/ SendsMessage(t)
         \/ HandleServerSideDisconnect(t) \/ HandleDisconnecting(t)
         \/ HandleShutdown(t) \/ Disconnect(t)
    \/ NotifyObserver \/ TimerExpires \/ GraceIsOver

Spec == Init /\ [][Next]_vars

(***************************************************************************)
(* Properties.                                                             *)
(***************************************************************************)
Status == {"DISCONNECTED", "PENDING", "CONNECTED"}
Reason == {"NONE", "SUCCESS", "ACL_CLIENT_REQUEST", "SERVER_ENDPOINT_CHANGED",
           "SERVER_SIDE_DISCONNECT", "INTERNAL_ERROR", "PING_TIMEDOUT",
           "UNRECOVERABLE_ERROR"}

TaskType ==
    [does : {"graceOver"}] \cup [does : {"report"}, status : Status, reason : Reason]

RouterType ==
    [enabled : BOOLEAN, status : Status, active : Transport \cup {None},
     transports : SUBSET Transport, tasks : Seq(TaskType), isShutdown : BOOLEAN]

TransportState ==
    {"INIT", "CONNECTING", "CONNECTED", "SERVER_SIDE_DISCONNECT", "SHUTDOWN"}

MainLoopAt ==
    {"none", "CONNECTING", "handleConnected", "sending", "handleServerSideDisconnect",
     "handleDisconnecting", "handleShutdown", "disconnect", "ended"}

TransportType == [state : TransportState, reason : Reason, at : MainLoopAt]

\* Every variable has its type.
TypeOK ==
    /\ router \in RouterType
    /\ reporter \in [last : Status, pending : BOOLEAN, timer : BOOLEAN]
    /\ transport \in [Transport -> TransportType]
    /\ queue \in [requests : Seq(Request), waiting : BOOLEAN]
    /\ place \in [Request -> {"new", "queued", "sent", "acknowledged", "completed"}]
    /\ carrier \in [Request -> Transport \cup {None}]
    /\ caller \in [Caller ->
           [at : {"idle", "disable", "setAVSGateway", "doShutdown", "drain", "stop",
                  "stopped"},
            left : SUBSET Transport]]
    /\ calls \in Nat /\ overlapped \in BOOLEAN /\ flagLost \in BOOLEAN

\* When the executor has nothing to do, the observer was last told the status
\* that the router has, whatever was held back, overtaken or dropped: only the
\* grace period of a server-side disconnect keeps it waiting, and only for the
\* router being PENDING (notifyObserverOnConnectionStatusChanged()).
ReportedIsCurrent ==
    router.tasks = <<>> /\ ~router.isShutdown =>
        \/ reporter.last = router.status
        \/ reporter.timer /\ reporter.pending /\ router.status = "PENDING"

\* Two transports never take messages from the queue they share at one time: an
\* old one has left its sending loop before the router makes the next, as long
\* as no call comes while another has the router's mutex released.  (The peek
\* and the dequeue of a message are not one critical section.)
OnePuller ==
    ~overlapped =>
        Cardinality({t \in Transport :
            transport[t].state \in {"CONNECTING", "CONNECTED"}}) <= 1

\* Once doShutdown() is through, every message that was accepted is completed
\* and every transport has ended: another call may still be stopping some that
\* it took along.
ShutdownLeavesNothing ==
    \A c \in Caller : caller[c].at = "stopped" =>
        LET taken == UNION {caller[o].left : o \in Caller}
        IN  /\ \A r \in Request :
                 \/ place[r] \in {"new", "completed"}
                 \/ place[r] \in {"sent", "acknowledged"} /\ carrier[r] \in taken
            /\ \A t \in Transport : transport[t].at \in {"none", "ended"} \/ t \in taken

\* Serialized messages are sent one at a time, each after the one before it is
\* acknowledged or about to be cancelled, over a change of transports as well:
\* unless the old transport, on its way out, clears the flag for a message that
\* the new one has sent, itself or by a late answer (MessageRequest.h:156).
SerializedOneAtATime ==
    ~flagLost /\ ~overlapped =>
        Cardinality({r \in Serialized :
            place[r] = "sent" /\ transport[carrier[r]].at # "disconnect"}) <= 1

\* "For server side disconnects leave the old transport alive to receive any
\* further data": its main loop waits for the messages that are not finished.
OldTransportIsLeftAlive ==
    [][\A t \in Transport :
          transport[t].at = "handleDisconnecting" /\ transport'[t].at = "handleShutdown" =>
              transport[t].state # "SERVER_SIDE_DISCONNECT" \/ Carried(t) = {}]_vars
=============================================================================
