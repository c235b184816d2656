---------------------------- MODULE MessageRouter ----------------------------
(***************************************************************************)
(* The MessageRouter of the Alexa Communications Library, the transports    *)
(* that it makes and their shared queue of messages.                        *)
(*                                                                         *)
(* A transport is an HTTP2Transport: its state, which the network and the  *)
(* router change under its mutex, and the place of its main loop, whose    *)
(* thread calls the router.  Transports are numbered as they are made.     *)
(* INIT stands before connect(); CONNECTING for all that comes up to       *)
(* POST_CONNECTING.                                                        *)
(*                                                                         *)
(* The router's handlers are critical sections of m_connectionMutex, but   *)
(* for disconnectAllTransportsLocked(), which releases it while it shuts   *)
(* the transports down.  The operators on a router record r give the       *)
(* record after a call, the notifications it submits included.             *)
(***************************************************************************)
EXTENDS MessageRequestQueue

CONSTANTS
    Request,        \* the messages: each is sent at most once
    Caller,         \* threads that enable, disable, redirect or shut down
    None,           \* no transport
    MaxTransports,  \* bound: transports that the factory makes
    MaxCalls        \* bound: calls of enable(), disable(), setAVSGateway()

Transport == 1 .. MaxTransports

ASSUME RouterAssumption ==
    /\ Serialized \subseteq Request
    /\ None \notin Nat
    /\ MaxTransports \in Nat /\ MaxCalls \in Nat

VARIABLES
    router,     \* what m_connectionMutex guards, and the executor's queue
    reporter,   \* what the executor's tasks keep, and the grace timer
    transport,  \* each transport's m_state, m_disconnectReason and main loop
    queue,      \* m_requestQueue
    place,      \* what became of each message
    carrier,    \* the transport that it was sent on
    caller,     \* where each caller is, and the transports it has yet to stop
    calls,      \* number of calls
    overlapped, \* a call came while another one had the mutex released
    flagLost    \* a transport cleared the waiting flag of another one's message

messages == <<queue, place, carrier>>
vars == <<router, reporter, transport, messages, caller, calls, overlapped, flagLost>>

Idle == [at |-> "idle", left |-> {}]

Init ==
    /\ router = [enabled |-> FALSE, status |-> "DISCONNECTED", active |-> None,
                 transports |-> {}, tasks |-> <<>>, isShutdown |-> FALSE]
    /\ reporter = [last |-> "DISCONNECTED", pending |-> FALSE, timer |-> FALSE]
    /\ transport = [t \in Transport |->
                      [state |-> "INIT", reason |-> "NONE", at |-> "none"]]
    /\ queue = EmptyQueue
    /\ place = [r \in Request |-> "new"]
    /\ carrier = [r \in Request |-> None]
    /\ caller = [c \in Caller |-> Idle]
    /\ calls = 0
    /\ overlapped = FALSE /\ flagLost = FALSE

(***************************************************************************)
(* The router's parts.                                                     *)
(***************************************************************************)
\* The executor takes no task after its shutdown.
Submit(r, task) ==
    IF r.isShutdown THEN r ELSE [r EXCEPT !.tasks = Append(@, task)]

SetStatus(r, status, reason) ==
    IF status = r.status THEN r
    ELSE Submit([r EXCEPT !.status = status],
                [does |-> "report", status |-> status, reason |-> reason])

\* The transport that the factory makes next: none, when it fails.
Made == LET unused == {t \in Transport : transport[t].state = "INIT"}
        IN  {None} \cup (IF unused = {} THEN {} ELSE {Min(unused)})

CreateActive(r, t) ==
    IF t # None
    THEN [r EXCEPT !.transports = @ \cup {t}, !.active = t]
    ELSE SetStatus([r EXCEPT !.active = None], "DISCONNECTED", "INTERNAL_ERROR")

Connect(state, t) ==
    IF t = None THEN state
    ELSE [state EXCEPT ![t].state = "CONNECTING", ![t].at = "CONNECTING"]

DisconnectAll(r, reason) ==
    SetStatus([r EXCEPT !.active = None, !.transports = {}], "DISCONNECTED", reason)

(***************************************************************************)
(* The callers.                                                            *)
(***************************************************************************)
Released == {c \in Caller : caller[c].at # "idle"}

ShuttingDown ==
    \E c \in Caller : caller[c].at \in {"doShutdown", "drain", "stop", "stopped"}

\* A call begins.  None does once the router is being shut down.
Call(c) ==
    /\ caller[c].at = "idle" /\ ~ShuttingDown /\ calls < MaxCalls
    /\ calls' = calls + 1
    /\ overlapped' = (overlapped \/ Released # {})

Enable(c) ==
    /\ Call(c)
    /\ ~router.enabled /\ router.active = None
    /\ \E t \in Made :
         /\ router' = CreateActive(SetStatus([router EXCEPT !.enabled = TRUE],
                                             "PENDING", "ACL_CLIENT_REQUEST"), t)
         /\ transport' = Connect(transport, t)
    /\ UNCHANGED <<reporter, messages, caller, flagLost>>

\* Mutant: the caller stops the active transport only.
TakeActive(c, r, reason, what) ==
    /\ router' = DisconnectAll(r, reason)
    /\ caller' = [caller EXCEPT ![c] = [at |-> what, left |-> {router.active} \ {None}]]

\* The caller takes the transports along, and stops them without the mutex.
TakeTransports(c, r, reason, what) ==
    /\ router' = DisconnectAll(r, reason)
    /\ caller' = [caller EXCEPT ![c] = [at |-> what, left |-> router.transports]]

Disable(c) ==
    /\ Call(c)
    /\ TakeTransports(c, [router EXCEPT !.enabled = FALSE], "ACL_CLIENT_REQUEST", "disable")
    /\ UNCHANGED <<reporter, transport, messages, flagLost>>

SetAVSGateway(c) ==
    /\ Call(c)
    /\ router.enabled
    /\ TakeTransports(c, router, "SERVER_ENDPOINT_CHANGED", "setAVSGateway")
    /\ UNCHANGED <<reporter, transport, messages, flagLost>>

Shutdown(c) ==
    /\ caller[c].at = "idle" /\ ~ShuttingDown
    /\ overlapped' = (overlapped \/ Released # {})
    /\ TakeTransports(c, [router EXCEPT !.enabled = FALSE], "ACL_CLIENT_REQUEST", "doShutdown")
    /\ UNCHANGED <<reporter, transport, messages, calls, flagLost>>

SetShutdown(t, reason) ==
    transport' = [transport EXCEPT
        ![t].state  = "SHUTDOWN",
        ![t].reason = IF @ = "NONE" THEN reason ELSE @]

\* Its shutdown() sets the transport's state, and then joins its thread.
ShutdownTransport(c) ==
    /\ caller[c].left # {}
    /\ transport[Min(caller[c].left)].state # "SHUTDOWN"
    /\ SetShutdown(Min(caller[c].left), "ACL_CLIENT_REQUEST")
    /\ UNCHANGED <<router, reporter, messages, caller, calls, overlapped, flagLost>>

TransportIsShutdown(c) ==
    /\ caller[c].left # {}
    /\ transport[Min(caller[c].left)].state = "SHUTDOWN"
    /\ transport[Min(caller[c].left)].at = "ended"
    /\ caller' = [caller EXCEPT ![c].left = @ \ {Min(@)}]
    /\ UNCHANGED <<router, reporter, transport, messages, calls, overlapped, flagLost>>

\* Mutant: the transports are shut down by another thread.
RelockedAtOnce(c, what) == caller[c].at = what

Relocked(c, what) == caller[c].at = what /\ caller[c].left = {}

Returns(c) == caller' = [caller EXCEPT ![c] = Idle]

DisableReturns(c) ==
    /\ Relocked(c, "disable")
    /\ Returns(c)
    /\ UNCHANGED <<router, reporter, transport, messages, calls, overlapped, flagLost>>

SetAVSGatewayReturns(c) ==
    /\ Relocked(c, "setAVSGateway")
    /\ Returns(c)
    /\ IF router.enabled
       THEN \E t \in Made : /\ router' = CreateActive(router, t)
                            /\ transport' = Connect(transport, t)
       ELSE UNCHANGED <<router, transport>>
    /\ UNCHANGED <<reporter, messages, calls, overlapped, flagLost>>

DisabledForShutdown(c) ==
    /\ Relocked(c, "doShutdown")
    /\ caller' = [caller EXCEPT ![c].at = "drain"]
    /\ UNCHANGED <<router, reporter, transport, messages, calls, overlapped, flagLost>>

Drain(c) ==
    /\ caller[c].at = "drain"
    /\ place' = [r \in Request |-> IF place[r] = "queued" THEN "completed" ELSE place[r]]
    /\ queue' = [queue EXCEPT !.requests = <<>>]
    /\ caller' = [caller EXCEPT ![c].at = "stop"]
    /\ UNCHANGED <<router, reporter, transport, carrier, calls, overlapped, flagLost>>

StopExecutor(c) ==
    /\ caller[c].at = "stop"
    /\ router' = [router EXCEPT !.tasks = <<>>, !.isShutdown = TRUE]
    /\ caller' = [caller EXCEPT ![c].at = "stopped"]
    /\ UNCHANGED <<reporter, transport, messages, calls, overlapped, flagLost>>

SendMessage(r) ==
    /\ place[r] = "new"
    /\ IF router.active # None
       THEN /\ queue' = Enqueue(queue, r)
            /\ place' = [place EXCEPT ![r] = "queued"]
       ELSE /\ place' = [place EXCEPT ![r] = "completed"]
            /\ UNCHANGED queue
    /\ UNCHANGED <<router, reporter, transport, carrier, caller, calls, overlapped, flagLost>>
=============================================================================
