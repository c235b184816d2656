----------------------------- MODULE ContextManager -----------------------------
(***************************************************************************)
(* The ContextManager with the MultiTimer it shares: requests for the      *)
(* context of an endpoint are put to the state providers, and answered     *)
(* when all of them have answered, one of them fails or the time is up.    *)
(*                                                                         *)
(* Requesters, providers and the timer submit tasks to one executor, which *)
(* runs them in order.  A step is a task, or a call made from outside; the *)
(* task of a request is two steps, since it arms its timer before it locks *)
(* m_requestsMutex.  Capabilities are those of one endpoint.               *)
(***************************************************************************)
EXTENDS Naturals, Sequences, FiniteSets, Functions

CONSTANTS
    Capability,     \* the capability identifiers
    Legacy,         \* those whose provider answers with setState()
    Retrievable,    \* those whose provider says canStateBeRetrieved()
    Queried,        \* those whose provider says shouldQueryState()
    Reportable,     \* those whose provider says hasReportableStateProperties()
    Provided,       \* those that have a provider at the beginning
    LegacyReply,    \* bound: what legacy providers set, as [value, policy]
    MaxRequests,    \* bound: requests in one behaviour
    MaxReplies,     \* bound: replies of the providers in one behaviour
    MaxChanges,     \* bound: providers added or removed, states reported
    FirstTimer      \* the MultiTimer's m_nextToken at the beginning

RefreshPolicy == {"ALWAYS", "SOMETIMES", "NEVER"}

ASSUME ContextAssumption ==
    /\ Legacy \subseteq Capability /\ Retrievable \subseteq Capability
    /\ Queried \subseteq Capability /\ Reportable \subseteq Capability
    /\ Provided \subseteq Capability
    /\ LegacyReply \subseteq [value : BOOLEAN, policy : RefreshPolicy]
    /\ MaxRequests \in Nat /\ MaxReplies \in Nat /\ MaxChanges \in Nat
    /\ FirstTimer \in Nat

Token == 1..MaxRequests

\* StateInfo: whether there is a provider, and a value.  A capability without
\* either is one that the map does not list.
StateInfo == [provider : BOOLEAN, value : BOOLEAN, legacy : BOOLEAN, policy : RefreshPolicy]

NewInfo(provider, value) ==
    [provider |-> provider, value |-> value, legacy |-> FALSE, policy |-> "ALWAYS"]

LegacyInfo(provider, reply) ==
    [provider |-> provider, value |-> reply.value, legacy |-> TRUE, policy |-> reply.policy]

VARIABLES
    info,               \* m_endpointsState of the endpoint
    requestCounter,     \* m_requestCounter
    pendingRequests,    \* m_pendingRequests: token and timerToken
    pendingStates,      \* m_pendingStateRequest
    tasks,              \* the tasks of m_executor
    arming,             \* the timer of a request that is being entered, as a set
    armed,              \* the MultiTimer's tasks: timerToken and token
    nextTimer,          \* the MultiTimer's m_nextToken
    destroyed,          \* the destructor has run
    asked,              \* the requests that each provider was asked for
    owed,               \* history: the states that the answer to a request owes
    answers,            \* history: the answers given to each request
    replies,            \* number of replies
    changes             \* number of changes

executor == <<tasks, arming>>
requests == <<requestCounter, pendingRequests, pendingStates>>
timer    == <<armed, nextTimer>>
history  == <<asked, owed, answers>>
bounds   == <<replies, changes>>

vars == <<info, executor, requests, timer, destroyed, history, bounds>>

Init ==
    /\ info = [c \in Capability |-> NewInfo(c \in Provided, FALSE)]
    /\ requestCounter = 0
    /\ pendingRequests = {}
    /\ pendingStates = [t \in Token |-> {}]
    /\ tasks = <<>> /\ arming = {}
    /\ armed = {} /\ nextTimer = FirstTimer
    /\ destroyed = FALSE
    /\ asked = [c \in Capability |-> {}]
    /\ owed = [t \in Token |-> {}]
    /\ answers = [t \in Token |-> <<>>]
    /\ replies = 0
    /\ changes = 0

Submit(task) ==
    /\ ~destroyed
    /\ tasks' = Append(tasks, task)

IsPending(t) == \E request \in pendingRequests : request.token = t

-----------------------------------------------------------------------------
(***************************************************************************)
(* Calls from outside.                                                     *)
(***************************************************************************)
\* getContextInternal(): the token is made out, and the rest is left to the
\* executor.
GetContext(skipReportable) ==
    /\ requestCounter < MaxRequests
    /\ requestCounter' = requestCounter + 1
    /\ Submit([kind |-> "getContext", token |-> requestCounter + 1, skip |-> skipReportable])
    /\ UNCHANGED <<info, arming, pendingRequests, pendingStates, timer, destroyed, history, bounds>>

\* The state of c is not to be had any longer.
Excused(c) == owed' = [t \in Token |-> owed[t] \ {c}]

Changes ==
    /\ changes < MaxChanges
    /\ changes' = changes + 1
    /\ UNCHANGED replies

\* addStateProvider(), removeStateProvider()
ReplaceProvider(c, new) ==
    /\ ~destroyed
    /\ Changes
    /\ info' = [info EXCEPT ![c] = new]
    /\ Excused(c)
    /\ UNCHANGED <<executor, requests, timer, destroyed, asked, answers>>

AddStateProvider(c) == ReplaceProvider(c, NewInfo(TRUE, FALSE))

RemoveStateProvider(c) == info[c].provider /\ ReplaceProvider(c, NewInfo(FALSE, FALSE))

\* A provider that was asked replies, perhaps more than once.
Replies(t, c) ==
    /\ t \in asked[c]
    /\ replies < MaxReplies
    /\ replies' = replies + 1
    /\ UNCHANGED <<info, arming, requests, timer, destroyed, history, changes>>

\* setState() with a token: it is refused at once if the request does not wait
\* for this capability.
SetState(t, c, reply) ==
    /\ c \in Legacy
    /\ c \in pendingStates[t]
    /\ Replies(t, c)
    /\ Submit([kind |-> "setState", token |-> t, capability |-> c, reply |-> reply])

ProvideStateResponse(t, c) ==
    /\ c \notin Legacy
    /\ Replies(t, c)
    /\ Submit([kind |-> "response", token |-> t, capability |-> c])

ProvideStateUnavailableResponse(t, c, unreachable) ==
    /\ c \notin Legacy
    /\ Replies(t, c)
    /\ Submit([kind |-> "unavailable", token |-> t, capability |-> c, unreachable |-> unreachable])

\* setState() without a token, and reportStateChange(), which has a value.
ReportState(c, reply) ==
    /\ c \in Legacy \/ reply.value
    /\ Changes
    /\ Submit([kind |-> "report", capability |-> c, reply |-> reply])
    /\ UNCHANGED <<info, arming, requests, timer, destroyed, history>>

-----------------------------------------------------------------------------
(***************************************************************************)
(* What a request is answered with.                                        *)
(***************************************************************************)
\* Mutant: the timer is left running.
CancelNothing(t) == armed

\* Mutant: the entry made with operator[] has the second token that the timer gives out.
TimerOrSecond(t) ==
    IF IsPending(t) THEN (CHOOSE request \in pendingRequests : request.token = t).timer
    ELSE FirstTimer + 1

\* MultiTimer::cancelTask() by the guard of the two callbacks.  A request that is
\* no longer pending has an entry too, created with operator[] just before: its
\* timer token is 0.
TimerOf(t) ==
    IF IsPending(t) THEN (CHOOSE request \in pendingRequests : request.token = t).timer ELSE 0

WithoutTimer(t) == {entry \in armed : entry.timer # TimerOf(t)}

WithoutRequest(t) == {request \in pendingRequests : request.token # t}

\* The guard's work, and the callback of a request that has a requester.
Answer(t, answer) ==
    /\ armed' = WithoutTimer(t)
    /\ pendingRequests' = WithoutRequest(t)
    /\ pendingStates' = [pendingStates EXCEPT ![t] = {}]
    /\ answers' = IF IsPending(t) THEN [answers EXCEPT ![t] = Append(@, answer)] ELSE answers

\* getContextFailureCallbackLocked()
Fail(t) == Answer(t, [context |-> FALSE, missing |-> {}])

\* The capabilities whose state goes into the context, with or without a value.
Reported(i, c, skip) ==
    IF i.legacy THEN i.policy # "SOMETIMES" \/ i.value
    ELSE i.provider /\ c \in Retrievable /\ (c \in Reportable => ~skip)

\* The states that are in the context, of those that there are.
HeldIn(i, skip) == {c \in Capability : Reported(i[c], c, skip) /\ i[c].value}

Skips(t) == \E request \in pendingRequests : request.token = t /\ request.skip

\* getContextAvailableCallbackIfReadyLocked(), once the states are up to date
\* (newInfo) and the request waits for the capabilities in waiting.
\* Mutant: the first reply is enough.
ReadyAtOnce(waiting) == TRUE

Ready(waiting) == waiting = {}

AnswerIfReady(t, waiting, newInfo) ==
    IF Ready(waiting)
    THEN Answer(t, [context |-> TRUE, missing |-> owed'[t] \ HeldIn(newInfo, Skips(t))])
    ELSE /\ pendingStates' = [pendingStates EXCEPT ![t] = waiting]
         /\ UNCHANGED <<pendingRequests, armed, answers>>

-----------------------------------------------------------------------------
(***************************************************************************)
(* The tasks.  RunResponse, RunUnavailable and RunTimeout are one critical *)
(* section of m_requestsMutex; the answer is given after it.               *)
(***************************************************************************)
\* The executor is about to run a task of the given kind.
Runs(kind) ==
    /\ tasks # <<>>
    /\ Head(tasks).kind = kind
    /\ arming = {}

Finished ==
    /\ tasks' = Tail(tasks)
    /\ UNCHANGED <<arming, requestCounter, nextTimer, destroyed, bounds>>

\* getContextInternal(): the timer is submitted before any lock is taken.
ArmTimer ==
    LET t == Head(tasks).token
    IN  /\ Runs("getContext")
        /\ armed' = armed \cup {[timer |-> nextTimer, token |-> t]}
        /\ arming' = {nextTimer}
        /\ nextTimer' = nextTimer + 1
        /\ UNCHANGED <<info, tasks, requests, destroyed, history, bounds>>

\* Which providers are asked.
IsAsked(c, skip) ==
    LET i == info[c]
    IN  /\ i.provider
        /\ IF i.legacy THEN i.policy # "NEVER"
           ELSE c \in Retrievable \cap Queried /\ (c \in Reportable => ~skip)

\* The rest of it, in one critical section: the request is entered, the
\* providers are asked, and if there are none it is answered.
EnterRequest ==
    \E k \in arming :
        LET task    == Head(tasks)
            t       == task.token
            waiting == {c \in Capability : IsAsked(c, task.skip)}
        IN  /\ tasks' = Tail(tasks)
            /\ arming' = {}
            /\ asked' = [c \in Capability |-> IF c \in waiting THEN asked[c] \cup {t} ELSE asked[c]]
            /\ owed' = [owed EXCEPT ![t] = waiting]
            /\ pendingStates' = [pendingStates EXCEPT ![t] = waiting]
            /\ IF waiting = {}
               THEN /\ armed' = {entry \in armed : entry.timer # k}
                    /\ answers' = [answers EXCEPT ![t] =
                                       Append(@, [context |-> TRUE, missing |-> {}])]
                    /\ UNCHANGED pendingRequests
               ELSE /\ pendingRequests' = pendingRequests \cup
                           {[token |-> t, timer |-> k, skip |-> task.skip]}
                    /\ UNCHANGED <<armed, answers>>
            /\ UNCHANGED <<info, requestCounter, nextTimer, destroyed, bounds>>

\* updateCapabilityState(), which enters a capability that the map does not list.
Updated(task) ==
    IF task.capability \in Legacy
    THEN [info EXCEPT ![task.capability] = LegacyInfo(@.provider, task.reply)]
    ELSE [info EXCEPT ![task.capability] = NewInfo(@.provider, TRUE)]

\* The task of setState(): the state is updated whatever has become of the
\* request, and "ALWAYS" without a state makes it fail.
RunSetState ==
    LET task == Head(tasks)
    IN  /\ Runs("setState")
        /\ info' = Updated(task)
        /\ IF task.reply.value THEN UNCHANGED owed ELSE Excused(task.capability)
        /\ IF ~task.reply.value /\ task.reply.policy = "ALWAYS"
           THEN Fail(task.token)
           ELSE AnswerIfReady(task.token, pendingStates[task.token] \ {task.capability}, info')
        /\ Finished /\ UNCHANGED asked

\* A reply to a request that does not wait for it is dropped.
IsDropped(task) == task.capability \notin pendingStates[task.token]

DropReply ==
    /\ Runs("response") \/ Runs("unavailable")
    /\ IsDropped(Head(tasks))
    /\ Finished /\ UNCHANGED <<info, pendingRequests, pendingStates, armed, history>>

RunResponse ==
    LET task == Head(tasks)
    IN  /\ Runs("response")
        /\ ~IsDropped(task)
        /\ info' = Updated(task)
        /\ UNCHANGED owed
        /\ AnswerIfReady(task.token, pendingStates[task.token] \ {task.capability}, info')
        /\ Finished /\ UNCHANGED asked

\* The cached state does, if there is one and the endpoint can be reached.
RunUnavailable ==
    LET task == Head(tasks)
    IN  /\ Runs("unavailable")
        /\ ~IsDropped(task)
        /\ UNCHANGED owed
        /\ IF ~task.unreachable /\ info[task.capability].value
           THEN AnswerIfReady(task.token, pendingStates[task.token] \ {task.capability}, info)
           ELSE Fail(task.token)
        /\ Finished /\ UNCHANGED <<info, asked>>

RunReport ==
    /\ Runs("report")
    /\ info' = Updated(Head(tasks))
    /\ IF Head(tasks).reply.value THEN UNCHANGED owed ELSE Excused(Head(tasks).capability)
    /\ Finished /\ UNCHANGED <<pendingRequests, pendingStates, armed, asked, answers>>

RunTimeout ==
    /\ Runs("timeout")
    /\ Fail(Head(tasks).token)
    /\ Finished /\ UNCHANGED <<info, asked, owed>>

\* The timer's thread takes the task out and submits it to the executor.
\* Mutant: the executor is not told.
NothingSubmitted(t) == tasks

TimeoutSubmitted(t) == Append(tasks, [kind |-> "timeout", token |-> t])

TimerFires(t) ==
    \E entry \in armed :
        /\ ~destroyed
        /\ entry.token = t
        /\ armed' = armed \ {entry}
        /\ tasks' = TimeoutSubmitted(t)
        /\ UNCHANGED <<info, arming, requests, nextTimer, destroyed, history, bounds>>

\* The destructor waits for the task that is running and drops the others.  The
\* MultiTimer keeps the timers; when one of them fires it uses what is no more,
\* which has no defined effect.
Destroy ==
    /\ ~destroyed
    /\ arming = {}
    /\ destroyed' = TRUE
    /\ tasks' = <<>>
    /\ pendingRequests' = {}
    /\ pendingStates' = [t \in Token |-> {}]
    /\ info' = [c \in Capability |-> NewInfo(FALSE, FALSE)]
    /\ UNCHANGED <<arming, requestCounter, timer, history, bounds>>

-----------------------------------------------------------------------------
Executor ==
    \/ ArmTimer \/ EnterRequest
    \/ RunSetState \/ DropReply \/ RunResponse \/ RunUnavailable \/ RunReport \/ RunTimeout

Provider(c) ==
    \/ AddStateProvider(c) \/ RemoveStateProvider(c)
    \/ \E reply \in LegacyReply : ReportState(c, reply)
    \/ \E t \in Token :
           \/ \E reply \in LegacyReply : SetState(t, c, reply)
           \/ ProvideStateResponse(t, c)
           \/ \E unreachable \in BOOLEAN : ProvideStateUnavailableResponse(t, c, unreachable)

Next ==
    \/ \E skip \in BOOLEAN : GetContext(skip)
    \/ \E c \in Capability : Provider(c)
    \/ Executor
    \/ \E t \in Token : TimerFires(t)
    \/ Destroy

Spec == Init /\ [][Next]_vars

\* The executor runs and timers fire; providers need not reply.
Fairness == WF_vars(Executor) /\ \A t \in Token : WF_vars(TimerFires(t))

FairSpec == Spec /\ Fairness

-----------------------------------------------------------------------------
\* A task of the executor, as the calls submit it.
TaskType ==
    [kind : {"getContext"}, token : Token, skip : BOOLEAN]
    \cup [kind : {"setState"}, token : Token, capability : Legacy, reply : LegacyReply]
    \cup [kind : {"response"}, token : Token, capability : Capability \ Legacy]
    \cup [kind : {"unavailable"}, token : Token, capability : Capability \ Legacy,
          unreachable : BOOLEAN]
    \cup [kind : {"report"}, capability : Capability, reply : LegacyReply]
    \cup [kind : {"timeout"}, token : Token]

AnswerType == [context : BOOLEAN, missing : SUBSET Capability]

\* The values that each variable takes.
TypeOK ==
    /\ info \in [Capability -> StateInfo]
    /\ tasks \in Seq(TaskType)
    /\ answers \in [Token -> Seq(AnswerType)]
    /\ requestCounter \in 0..MaxRequests
    /\ pendingRequests \subseteq [token : Token, timer : Nat, skip : BOOLEAN]
    /\ pendingStates \in [Token -> SUBSET Capability]
    /\ armed \subseteq [timer : Nat, token : Token] /\ arming \subseteq Nat
    /\ nextTimer \in Nat /\ destroyed \in BOOLEAN
    /\ asked \in [Capability -> SUBSET Token] /\ owed \in [Token -> SUBSET Capability]

(***************************************************************************)
(* Safety.                                                                 *)
(***************************************************************************)
IsTimedOut(t) == \E i \in DOMAIN tasks : tasks[i].kind = "timeout" /\ tasks[i].token = t

\* A request is answered once, and nothing is left of it then: no entry in a map
\* and no timer, whatever replies and timeouts are still on their way.
AnsweredIsForgotten ==
    \A t \in Token : answers[t] # <<>> =>
        /\ Len(answers[t]) = 1
        /\ ~IsPending(t) /\ pendingStates[t] = {}
        /\ ~\E entry \in armed : entry.token = t

\* Its timer is armed, or has submitted its task.
CanTimeOut(request) ==
    \/ [timer |-> request.timer, token |-> request.token] \in armed
    \/ IsTimedOut(request.token)

\* ContextManagerInterface.h: "After the timeout, the context manager will abort the
\* request".  (It does not hold in the code: a task that comes late for an answered
\* request cancels the timer with token 0, which is the first that there is.)
PendingWillTimeOut == \A request \in pendingRequests : CanTimeOut(request)

\* A request that waits for replies can time out, whatever late tasks have cancelled in
\* the meantime, unless its timer is the one with token 0.
OnlyTimerZeroIsLost == \A request \in pendingRequests : request.timer # 0 => CanTimeOut(request)

\* A context holds a state of every provider that was asked for it, unless the
\* provider was replaced since, or said that it has none.
ContextHoldsWhatWasAsked ==
    \A t \in Token : \A i \in DOMAIN answers[t] : answers[t][i].missing = {}

(***************************************************************************)
(* Liveness, under FairSpec.                                               *)
(***************************************************************************)
\* The timer with token 0 was this request's, and a late task has cancelled it.
HasLostTimer(t) ==
    \E request \in pendingRequests :
        request.token = t /\ request.timer = 0 /\ ~CanTimeOut(request)

\* Every request is answered, whether the providers reply or not, unless it has lost
\* the timer with token 0: that one may wait for ever.
EveryRequestIsAnswered ==
    \A t \in Token : requestCounter >= t ~> answers[t] # <<>> \/ destroyed \/ HasLostTimer(t)
=============================================================================
