-------------------------- MODULE ContextManagerProofs --------------------------
(***************************************************************************)
(* Proofs about the ContextManager: every request is answered at most once *)
(* and leaves nothing behind, one that waits can time out unless its timer *)
(* has the token 0, and a context holds what was asked for.                *)
(***************************************************************************)
EXTENDS ContextManager, TLAPS

-----------------------------------------------------------------------------
(***************************************************************************)
(* The executor's queue.                                                   *)
(***************************************************************************)
\* The task of getContextInternal() for t waits or is running.
Entering(t) == \E i \in DOMAIN tasks : tasks[i].kind = "getContext" /\ tasks[i].token = t

\* No request is entered twice.
EnteredOnce ==
    \A i, j \in DOMAIN tasks :
        tasks[i].kind = "getContext" /\ tasks[j].kind = "getContext"
            /\ tasks[i].token = tasks[j].token => i = j

\* What the fields of a task hold, by its kind.
LEMMA TaskFields ==
    ASSUME NEW task \in TaskType
    PROVE  /\ task.kind \in {"getContext", "setState", "response", "unavailable", "report",
                             "timeout"}
           /\ task.kind # "report" => task.token \in Token
           /\ task.kind = "getContext" => task.skip \in BOOLEAN
           /\ task.kind \in {"response", "unavailable"} =>
                 task.capability \in Capability \ Legacy
           /\ task.kind = "setState" => task.capability \in Legacy
           /\ task.kind = "report" => task.capability \in Capability
           /\ task.kind \in {"setState", "report"} => task.reply \in LegacyReply
  BY DEF TaskType

\* What a call that submits a task does to the queue.
LEMMA Submission ==
    ASSUME tasks \in Seq(TaskType), NEW task \in TaskType, tasks' = Append(tasks, task)
    PROVE  /\ tasks' \in Seq(TaskType)
           /\ tasks # <<>> => Head(tasks') = Head(tasks)
           /\ tasks' # <<>>
           /\ \A t : Entering(t)' <=> Entering(t) \/ (task.kind = "getContext" /\ task.token = t)
           /\ \A t : IsTimedOut(t) => IsTimedOut(t)'
           /\ task.kind = "timeout" => IsTimedOut(task.token)'
           /\ EnteredOnce /\ (task.kind = "getContext" => ~Entering(task.token)) => EnteredOnce'
  <1>1. /\ tasks' \in Seq(TaskType) /\ tasks' # <<>>
        /\ DOMAIN tasks = 1..Len(tasks) /\ DOMAIN tasks' = 1..Len(tasks) + 1
        /\ Len(tasks) \in Nat
        /\ \A i \in 1..Len(tasks) : tasks'[i] = tasks[i]
        /\ tasks'[Len(tasks) + 1] = task
    OBVIOUS
  <1>2. tasks # <<>> => Head(tasks') = Head(tasks)
    OBVIOUS
  <1>3. \A t : Entering(t)' <=> Entering(t) \/ (task.kind = "getContext" /\ task.token = t)
    BY <1>1 DEF Entering
  <1>4. /\ \A t : IsTimedOut(t) => IsTimedOut(t)'
        /\ task.kind = "timeout" => IsTimedOut(task.token)'
    BY <1>1 DEF IsTimedOut
  <1>5. EnteredOnce /\ (task.kind = "getContext" => ~Entering(task.token)) => EnteredOnce'
    BY <1>1 DEF EnteredOnce, Entering
  <1> QED
    BY <1>1, <1>2, <1>3, <1>4, <1>5

\* What the end of a task does to the queue.
LEMMA Completion ==
    ASSUME tasks \in Seq(TaskType), tasks # <<>>, tasks' = Tail(tasks), EnteredOnce
    PROVE  /\ Head(tasks) \in TaskType
           /\ tasks' \in Seq(TaskType)
           /\ EnteredOnce'
           /\ \A t : Entering(t)' => Entering(t)
           /\ \A t : Head(tasks).kind = "getContext" /\ Head(tasks).token = t
                        => Entering(t) /\ ~Entering(t)'
           /\ \A t : IsTimedOut(t) /\ ~(Head(tasks).kind = "timeout" /\ Head(tasks).token = t)
                        => IsTimedOut(t)'
  <1>1. /\ tasks' \in Seq(TaskType) /\ Head(tasks) \in TaskType
        /\ Head(tasks) = tasks[1]
        /\ Len(tasks) \in Nat \ {0}
        /\ DOMAIN tasks = 1..Len(tasks) /\ DOMAIN tasks' = 1..Len(tasks) - 1
        /\ \A i \in 1..Len(tasks) - 1 : tasks'[i] = tasks[i + 1]
    OBVIOUS
  <1>2. EnteredOnce' /\ \A t : Entering(t)' => Entering(t)
    BY <1>1 DEF EnteredOnce, Entering
  <1>3. ASSUME NEW t, tasks[1].kind = "getContext", tasks[1].token = t
        PROVE  Entering(t) /\ ~Entering(t)'
    <2>1. 1 \in DOMAIN tasks
      BY <1>1
    <2>2. ASSUME NEW i \in DOMAIN tasks', tasks'[i].kind = "getContext",
                 tasks'[i].token = t
          PROVE  FALSE
      <3>1. i + 1 \in DOMAIN tasks /\ i + 1 # 1 /\ tasks'[i] = tasks[i + 1]
        BY <1>1, <2>2
      <3> QED
        BY <1>3, <2>1, <2>2, <3>1 DEF EnteredOnce
    <2> QED
      BY <1>3, <2>1, <2>2 DEF Entering
  <1>4. ASSUME NEW t, IsTimedOut(t), ~(Head(tasks).kind = "timeout" /\ Head(tasks).token = t)
        PROVE  IsTimedOut(t)'
    <2>1. PICK i \in 1..Len(tasks) : tasks[i].kind = "timeout" /\ tasks[i].token = t
      BY <1>1, <1>4 DEF IsTimedOut
    <2>2. i - 1 \in 1..Len(tasks) - 1 /\ tasks'[i - 1] = tasks[i]
      BY <1>1, <1>4, <2>1
    <2> QED
      BY <1>1, <2>1, <2>2 DEF IsTimedOut
  <1> QED
    BY <1>1, <1>2, <1>3, <1>4

-----------------------------------------------------------------------------
(***************************************************************************)
(* Types.                                                                  *)
(***************************************************************************)
Record == [token : Token, timer : Nat, skip : BOOLEAN]

LEMMA TokenType == MaxRequests \in Nat /\ Token = 1..MaxRequests /\ Token \subseteq Nat
  BY ContextAssumption DEF Token

LEMMA InitType == Init => TypeOK
  <1> SUFFICES ASSUME Init PROVE TypeOK
    OBVIOUS
  <1>1. \A b \in BOOLEAN, v \in BOOLEAN : NewInfo(b, v) \in StateInfo
    BY DEF NewInfo, StateInfo, RefreshPolicy
  <1>2. info \in [Capability -> StateInfo]
    <2>1. ASSUME NEW c \in Capability PROVE NewInfo(c \in Provided, FALSE) \in StateInfo
      BY <1>1, (c \in Provided) \in BOOLEAN
    <2> QED
      BY <2>1 DEF Init
  <1>3. tasks \in Seq(TaskType) /\ answers \in [Token -> Seq(AnswerType)]
    <2>1. <<>> \in Seq(TaskType) /\ <<>> \in Seq(AnswerType)
      OBVIOUS
    <2> QED
      BY <2>1 DEF Init
  <1>4. requestCounter \in 0..MaxRequests /\ nextTimer \in Nat
    BY ContextAssumption DEF Init
  <1>5. /\ pendingRequests \subseteq [token : Token, timer : Nat, skip : BOOLEAN]
        /\ armed \subseteq [timer : Nat, token : Token] /\ arming \subseteq Nat
        /\ destroyed \in BOOLEAN
    BY DEF Init
  <1>6. /\ pendingStates \in [Token -> SUBSET Capability]
        /\ asked \in [Capability -> SUBSET Token] /\ owed \in [Token -> SUBSET Capability]
    BY DEF Init
  <1> QED
    BY <1>2, <1>3, <1>4, <1>5, <1>6 DEF TypeOK

\* The entries of the states that the tasks and the calls make are of their type.
LEMMA InfoType ==
    /\ \A b \in BOOLEAN, v \in BOOLEAN : NewInfo(b, v) \in StateInfo
    /\ \A b \in BOOLEAN, r \in LegacyReply : LegacyInfo(b, r) \in StateInfo
  BY ContextAssumption DEF NewInfo, LegacyInfo, StateInfo, RefreshPolicy

LEMMA UpdatedType ==
    ASSUME TypeOK, NEW task \in TaskType,
           task.kind \in {"setState", "response", "report"}
    PROVE  Updated(task) \in [Capability -> StateInfo]
  <1>1. /\ task.capability \in Capability
        /\ task.capability \in Legacy => task.reply \in LegacyReply
    BY TaskFields, ContextAssumption
  <1>2. info \in [Capability -> StateInfo] /\ info[task.capability].provider \in BOOLEAN
    BY <1>1 DEF TypeOK, StateInfo
  <1> QED
    BY <1>1, <1>2, InfoType DEF Updated

\* A call that submits a task and leaves the requests, the timers and the answers
\* alone.
LEMMA SubmissionType ==
    ASSUME TypeOK, NEW task \in TaskType, tasks' = Append(tasks, task),
           info' \in [Capability -> StateInfo], requestCounter' \in 0..MaxRequests,
           UNCHANGED <<pendingRequests, pendingStates, arming, armed, nextTimer, destroyed,
                       asked, owed, answers>>
    PROVE  TypeOK'
  BY Submission DEF TypeOK

\* What a task does with a request that it concerns.
Settles(t) ==
    \/ \E answer \in AnswerType : Answer(t, answer)
    \/ /\ \E waiting \in SUBSET pendingStates[t] :
              pendingStates' = [pendingStates EXCEPT ![t] = waiting]
       /\ UNCHANGED <<pendingRequests, armed, answers>>

\* A task that is done, and may have settled a request or not.
LEMMA SettledType ==
    ASSUME TypeOK, tasks # <<>>, tasks' = Tail(tasks), NEW t \in Token,
           Settles(t) \/ UNCHANGED <<pendingRequests, pendingStates, armed, answers>>,
           info' \in [Capability -> StateInfo], owed' \in [Token -> SUBSET Capability],
           UNCHANGED <<requestCounter, arming, nextTimer, destroyed, asked>>
    PROVE  TypeOK'
  <1>1. tasks' \in Seq(TaskType)
    BY DEF TypeOK
  <1>2. CASE UNCHANGED <<pendingRequests, pendingStates, armed, answers>>
    BY <1>1, <1>2 DEF TypeOK
  <1>3. CASE \E answer \in AnswerType : Answer(t, answer)
    <2>1. PICK answer \in AnswerType : Answer(t, answer)
      BY <1>3
    <2>2. answers' \in [Token -> Seq(AnswerType)]
      <3>1. \A u \in Token : Append(answers[u], answer) \in Seq(AnswerType)
        BY DEF TypeOK
      <3>2. answers' = answers \/ answers' = [answers EXCEPT ![t] = Append(answers[t], answer)]
        BY <2>1 DEF Answer
      <3> QED
        BY <3>1, <3>2 DEF TypeOK
    <2>3. /\ armed' \subseteq armed /\ pendingRequests' \subseteq pendingRequests
          /\ pendingStates' \in [Token -> SUBSET Capability]
      BY <2>1 DEF TypeOK, Answer, WithoutTimer, WithoutRequest
    <2> QED
      BY <1>1, <2>2, <2>3 DEF TypeOK
  <1>4. CASE /\ \E waiting \in SUBSET pendingStates[t] :
                    pendingStates' = [pendingStates EXCEPT ![t] = waiting]
             /\ UNCHANGED <<pendingRequests, armed, answers>>
    BY <1>1, <1>4 DEF TypeOK
  <1> QED
    BY <1>2, <1>3, <1>4 DEF Settles

\* AnswerIfReady() settles the request that the task is for.
LEMMA ReadyOrNot ==
    ASSUME TypeOK, NEW t \in Token, NEW c, NEW newInfo,
           owed' \in [Token -> SUBSET Capability],
           AnswerIfReady(t, pendingStates[t] \ {c}, newInfo)
    PROVE  Settles(t)
  <1>1. [context |-> TRUE, missing |-> owed'[t] \ HeldIn(newInfo, Skips(t))] \in AnswerType
    BY DEF AnswerType
  <1> QED
    BY <1>1 DEF AnswerIfReady, Settles

LEMMA FailSettles == ASSUME NEW t, Fail(t) PROVE Settles(t)
  BY DEF Fail, Settles, AnswerType

\* The tasks that answer or give up a request, as Settles().
LEMMA RunsSettle ==
    ASSUME TypeOK, RunSetState \/ RunResponse \/ RunUnavailable \/ RunTimeout
    PROVE  /\ Head(tasks) \in TaskType /\ Head(tasks).token \in Token
           /\ Head(tasks).kind \in {"setState", "response", "unavailable", "timeout"}
           /\ Settles(Head(tasks).token)
           /\ tasks # <<>> /\ tasks' = Tail(tasks) /\ arming = {}
           /\ info' \in [Capability -> StateInfo] /\ owed' \in [Token -> SUBSET Capability]
           /\ UNCHANGED <<requestCounter, arming, nextTimer, destroyed, asked>>
           /\ Head(tasks).kind = "timeout" => Fail(Head(tasks).token)
  <1> DEFINE task == Head(tasks)
  <1>1. /\ tasks # <<>> /\ arming = {} /\ Finished
        /\ task.kind \in {"setState", "response", "unavailable", "timeout"}
        /\ RunSetState => task.kind = "setState"
        /\ RunResponse => task.kind = "response"
        /\ RunUnavailable => task.kind = "unavailable"
        /\ RunTimeout => task.kind = "timeout"
    BY DEF RunSetState, RunResponse, RunUnavailable, RunTimeout, Runs
  <1>2. task \in TaskType
    BY <1>1 DEF TypeOK
  <1>3. task.token \in Token
    BY <1>1, <1>2, TaskFields
  <1>4. /\ info' \in [Capability -> StateInfo]
        /\ owed' \in [Token -> SUBSET Capability]
        /\ UNCHANGED asked
    <2>1. RunSetState \/ RunResponse => Updated(task) \in [Capability -> StateInfo]
      BY <1>1, <1>2, UpdatedType
    <2>2. \A c : Excused(c) => owed' \in [Token -> SUBSET Capability]
      BY DEF Excused, TypeOK
    <2> HIDE DEF task
    <2> QED
      BY <2>1, <2>2 DEF RunSetState, RunResponse, RunUnavailable, RunTimeout, TypeOK, task
  <1>5. Settles(task.token)
    BY <1>3, <1>4, ReadyOrNot, FailSettles
      DEF RunSetState, RunResponse, RunUnavailable, RunTimeout
  <1> QED
    BY <1>1, <1>2, <1>3, <1>4, <1>5 DEF Finished, RunTimeout, RunSetState, RunResponse,
      RunUnavailable, Runs

\* The calls that submit a task, but for the one for a new request.
Submits(task) ==
    /\ task \in TaskType /\ task.kind \notin {"getContext", "timeout"}
    /\ tasks' = Append(tasks, task)
    /\ UNCHANGED <<info, arming, requestCounter, pendingRequests, pendingStates, armed, nextTimer,
                   destroyed, asked, owed, answers>>

\* A provider is replaced.
Replaces(c) ==
    /\ info' \in [Capability -> StateInfo]
    /\ \E new \in StateInfo : ~new.legacy /\ info' = [info EXCEPT ![c] = new]
    /\ Excused(c)
    /\ UNCHANGED <<tasks, arming, requestCounter, pendingRequests, pendingStates, armed,
                   nextTimer, destroyed, asked, answers>>

LEMMA ProviderSteps ==
    ASSUME TypeOK, NEW c \in Capability, Provider(c)
    PROVE  (\E task : Submits(task)) \/ Replaces(c)
  <1> USE DEF requests, timer, history, executor
  <1>1. ASSUME NEW t \in Token, NEW reply \in LegacyReply, SetState(t, c, reply)
        PROVE  \E task : Submits(task)
    <2> DEFINE task == [kind |-> "setState", token |-> t, capability |-> c, reply |-> reply]
    <2>1. task \in TaskType /\ task.kind = "setState"
      BY <1>1 DEF SetState, TaskType
    <2> QED
      BY <1>1, <2>1 DEF SetState, Submit, Replies, Submits
  <1>2. ASSUME NEW t \in Token, ProvideStateResponse(t, c)
        PROVE  \E task : Submits(task)
    <2> DEFINE task == [kind |-> "response", token |-> t, capability |-> c]
    <2>1. task \in TaskType /\ task.kind = "response"
      BY <1>2 DEF ProvideStateResponse, TaskType
    <2> QED
      BY <1>2, <2>1 DEF ProvideStateResponse, Submit, Replies, Submits
  <1>3. ASSUME NEW t \in Token, NEW unreachable \in BOOLEAN,
               ProvideStateUnavailableResponse(t, c, unreachable)
        PROVE  \E task : Submits(task)
    <2> DEFINE task == [kind |-> "unavailable", token |-> t, capability |-> c,
                        unreachable |-> unreachable]
    <2>1. task \in TaskType /\ task.kind = "unavailable"
      BY <1>3 DEF ProvideStateUnavailableResponse, TaskType
    <2> QED
      BY <1>3, <2>1 DEF ProvideStateUnavailableResponse, Submit, Replies, Submits
  <1>4. ASSUME NEW reply \in LegacyReply, ReportState(c, reply)
        PROVE  \E task : Submits(task)
    <2> DEFINE task == [kind |-> "report", capability |-> c, reply |-> reply]
    <2>1. task \in TaskType /\ task.kind = "report"
      BY DEF TaskType
    <2> QED
      BY <1>4, <2>1 DEF ReportState, Submit, Changes, Submits
  <1>5. ASSUME NEW b \in BOOLEAN, ReplaceProvider(c, NewInfo(b, FALSE))
        PROVE  Replaces(c)
    <2>1. NewInfo(b, FALSE) \in StateInfo /\ ~NewInfo(b, FALSE).legacy
      BY InfoType DEF NewInfo
    <2> QED
      BY <1>5, <2>1 DEF ReplaceProvider, Replaces, TypeOK
  <1> QED
    BY <1>1, <1>2, <1>3, <1>4, <1>5 DEF Provider, AddStateProvider, RemoveStateProvider

\* A timer is armed for a request only while the executor is entering it.
TypeInv ==
    /\ TypeOK
    /\ arming # {} => tasks # <<>> /\ Head(tasks).kind = "getContext"

\* EnterRequest, for the request t with the timer k.
Enters(t, k, skip, waiting) ==
    /\ t \in Token /\ skip \in BOOLEAN /\ waiting \in SUBSET Capability
    /\ k \in arming
    /\ tasks # <<>> /\ Head(tasks).kind = "getContext" /\ Head(tasks).token = t
    /\ tasks' = Tail(tasks)
    /\ arming' = {}
    /\ asked' \in [Capability -> SUBSET Token]
    /\ owed' = [owed EXCEPT ![t] = waiting]
    /\ pendingStates' = [pendingStates EXCEPT ![t] = waiting]
    /\ \A c \in waiting : IsAsked(c, skip)
    /\ waiting = {} => /\ armed' = {entry \in armed : entry.timer # k}
                       /\ pendingRequests' = pendingRequests
                       /\ answers' = [answers EXCEPT ![t] =
                              Append(answers[t], [context |-> TRUE, missing |-> {}])]
    /\ waiting # {} => /\ UNCHANGED <<armed, answers>>
                       /\ pendingRequests' = pendingRequests \cup
                              {[token |-> t, timer |-> k, skip |-> skip]}
    /\ UNCHANGED <<info, requestCounter, nextTimer, destroyed>>

LEMMA Entrance ==
    ASSUME TypeInv, EnterRequest
    PROVE  \E t, k, skip, waiting : Enters(t, k, skip, waiting)
  <1> DEFINE task    == Head(tasks)
             waiting == {c \in Capability : IsAsked(c, task.skip)}
  <1>1. PICK k \in arming :
          /\ tasks' = Tail(tasks)
          /\ arming' = {}
          /\ asked' = [c \in Capability |->
                          IF c \in waiting THEN asked[c] \cup {task.token} ELSE asked[c]]
          /\ owed' = [owed EXCEPT ![task.token] = waiting]
          /\ pendingStates' = [pendingStates EXCEPT ![task.token] = waiting]
          /\ IF waiting = {}
             THEN /\ armed' = {entry \in armed : entry.timer # k}
                  /\ answers' = [answers EXCEPT ![task.token] =
                                     Append(@, [context |-> TRUE, missing |-> {}])]
                  /\ UNCHANGED pendingRequests
             ELSE /\ pendingRequests' = pendingRequests \cup
                         {[token |-> task.token, timer |-> k, skip |-> task.skip]}
                  /\ UNCHANGED <<armed, answers>>
          /\ UNCHANGED <<info, requestCounter, nextTimer, destroyed, bounds>>
    BY DEF EnterRequest
  <1>2. tasks # <<>> /\ task.kind = "getContext"
    BY <1>1 DEF TypeInv
  <1>3. task \in TaskType
    BY <1>2 DEF TypeInv, TypeOK
  <1>4. task.token \in Token /\ task.skip \in BOOLEAN
    BY <1>2, <1>3, TaskFields
  <1>5. /\ asked' \in [Capability -> SUBSET Token] /\ waiting \in SUBSET Capability
        /\ \A c \in waiting : IsAsked(c, task.skip)
    BY <1>1, <1>4 DEF TypeInv, TypeOK
  <1> HIDE DEF waiting, task
  <1>6. Enters(task.token, k, task.skip, waiting)
    BY <1>1, <1>2, <1>4, <1>5 DEF Enters, task
  <1> QED
    BY <1>6

LEMMA EntersType ==
    ASSUME TypeInv, NEW t, NEW k, NEW skip, NEW waiting, Enters(t, k, skip, waiting)
    PROVE  TypeInv'
  <1>1. tasks' \in Seq(TaskType) /\ arming' = {} /\ k \in Nat
    BY DEF Enters, TypeInv, TypeOK
  <1>2. answers' \in [Token -> Seq(AnswerType)]
    <2>1. [context |-> TRUE, missing |-> {}] \in AnswerType
      BY DEF AnswerType
    <2>2. Append(answers[t], [context |-> TRUE, missing |-> {}]) \in Seq(AnswerType)
      BY <2>1 DEF Enters, TypeInv, TypeOK
    <2> QED
      BY <2>2 DEF Enters, TypeInv, TypeOK
  <1>3. pendingRequests' \subseteq Record /\ armed' \subseteq armed
    BY <1>1 DEF Enters, TypeInv, TypeOK, Record
  <1> QED
    BY <1>1, <1>2, <1>3 DEF Enters, TypeInv, TypeOK, Record

\* The tasks that concern no request, or one that does not wait for their reply.
LEMMA IdleRuns ==
    ASSUME TypeOK, DropReply \/ RunReport
    PROVE  /\ Head(tasks) \in TaskType
           /\ Head(tasks).kind \in {"response", "unavailable", "report"}
           /\ tasks # <<>> /\ tasks' = Tail(tasks) /\ arming = {}
           /\ info' \in [Capability -> StateInfo] /\ owed' \in [Token -> SUBSET Capability]
           /\ UNCHANGED <<requestCounter, arming, nextTimer, destroyed, asked, pendingRequests,
                          pendingStates, armed, answers>>
  <1>1. /\ tasks # <<>> /\ arming = {} /\ Finished
        /\ Head(tasks).kind \in {"response", "unavailable", "report"}
        /\ RunReport => Head(tasks).kind = "report"
    BY DEF DropReply, RunReport, Runs
  <1>2. Head(tasks) \in TaskType
    BY <1>1 DEF TypeOK
  <1>3. RunReport => Updated(Head(tasks)) \in [Capability -> StateInfo]
    BY <1>1, <1>2, UpdatedType
  <1>4. \A c : Excused(c) => owed' \in [Token -> SUBSET Capability]
    BY DEF Excused, TypeOK
  <1>5. info' \in [Capability -> StateInfo] /\ owed' \in [Token -> SUBSET Capability]
    BY <1>3, <1>4 DEF DropReply, RunReport, history, TypeOK
  <1> QED
    BY <1>1, <1>2, <1>5 DEF DropReply, RunReport, Finished, history

\* A timer fires.
Expires(t) ==
    /\ \E entry \in armed : entry.token = t /\ armed' = armed \ {entry}
    /\ [kind |-> "timeout", token |-> t] \in TaskType
    /\ tasks' = Append(tasks, [kind |-> "timeout", token |-> t])
    /\ UNCHANGED <<info, arming, requestCounter, pendingRequests, pendingStates, nextTimer,
                   destroyed, asked, owed, answers>>

LEMMA Expiry == ASSUME NEW t \in Token, TimerFires(t) PROVE Expires(t)
  <1>1. [kind |-> "timeout", token |-> t] \in TaskType
    BY DEF TaskType
  <1> QED
    BY <1>1 DEF TimerFires, TimeoutSubmitted, requests, history, Expires

\* A timer is armed for the request that is about to be entered.
Arms(t) ==
    /\ t \in Token /\ arming = {}
    /\ tasks # <<>> /\ Head(tasks).kind = "getContext" /\ Head(tasks).token = t
    /\ armed' = armed \cup {[timer |-> nextTimer, token |-> t]}
    /\ arming' = {nextTimer} /\ nextTimer' = nextTimer + 1
    /\ UNCHANGED <<info, tasks, requestCounter, pendingRequests, pendingStates, destroyed,
                   asked, owed, answers>>

LEMMA Arming == ASSUME TypeOK, ArmTimer PROVE Arms(Head(tasks).token)
  <1>1. tasks # <<>> /\ Head(tasks).kind = "getContext" /\ arming = {}
    BY DEF ArmTimer, Runs
  <1>2. Head(tasks).token \in Token
    BY <1>1, TaskFields DEF TypeOK
  <1> QED
    BY <1>1, <1>2 DEF ArmTimer, Arms, requests, history

\* A new request.
Asks(skip) ==
    LET task == [kind |-> "getContext", token |-> requestCounter + 1, skip |-> skip]
    IN  /\ requestCounter + 1 \in Token /\ requestCounter' = requestCounter + 1
        /\ task \in TaskType /\ tasks' = Append(tasks, task)
        /\ UNCHANGED <<info, arming, pendingRequests, pendingStates, armed, nextTimer,
                       destroyed, asked, owed, answers>>

LEMMA Request == ASSUME TypeOK, NEW skip \in BOOLEAN, GetContext(skip) PROVE Asks(skip)
  <1>1. requestCounter + 1 \in Token
    BY TokenType DEF GetContext, TypeOK
  <1>2. [kind |-> "getContext", token |-> requestCounter + 1, skip |-> skip] \in TaskType
    BY <1>1 DEF TaskType
  <1> QED
    BY <1>1, <1>2 DEF GetContext, Submit, timer, history, Asks

\* Every step is one of these.
LEMMA Steps ==
    ASSUME TypeInv, [Next]_vars
    PROVE  \/ \E skip \in BOOLEAN : Asks(skip)
           \/ \E task : Submits(task)
           \/ \E c \in Capability : Replaces(c)
           \/ \E t : Arms(t)
           \/ \E t, k, skip, waiting : Enters(t, k, skip, waiting)
           \/ RunSetState \/ RunResponse \/ RunUnavailable \/ RunTimeout
           \/ DropReply \/ RunReport
           \/ \E t \in Token : Expires(t)
           \/ Destroy
           \/ UNCHANGED vars
  <1>1. TypeOK
    BY DEF TypeInv
  <1> QED
    BY <1>1, Request, ProviderSteps, Arming, Entrance, Expiry DEF Next, Executor

LEMMA StepType == TypeInv /\ [Next]_vars => TypeInv'
  <1> SUFFICES ASSUME TypeInv, [Next]_vars PROVE TypeInv'
    OBVIOUS
  <1> USE TokenType
  <1>0. TypeOK
    BY DEF TypeInv
  <1>1. ASSUME NEW skip \in BOOLEAN, Asks(skip)
        PROVE  TypeInv'
    <2>1. requestCounter' \in 0..MaxRequests
      BY <1>1 DEF Asks
    <2> QED
      BY <1>0, <1>1, <2>1, Submission, SubmissionType DEF Asks, TypeInv, TypeOK
  <1>2. ASSUME NEW task, Submits(task)
        PROVE  TypeInv'
    BY <1>0, <1>2, Submission, SubmissionType DEF Submits, TypeInv, TypeOK
  <1>3. ASSUME NEW c \in Capability, Replaces(c)
        PROVE  TypeInv'
    BY <1>3 DEF Replaces, Excused, TypeInv, TypeOK
  <1>4. ASSUME NEW t, Arms(t)
        PROVE  TypeInv'
    BY <1>4 DEF Arms, TypeInv, TypeOK
  <1>5. CASE RunSetState \/ RunResponse \/ RunUnavailable \/ RunTimeout
    BY <1>0, <1>5, RunsSettle, SettledType DEF TypeInv
  <1>6. CASE DropReply \/ RunReport
    <2>1. TypeOK'
      <3>1. tasks' \in Seq(TaskType)
        <4>1. tasks \in Seq(TaskType) /\ tasks # <<>> /\ tasks' = Tail(tasks)
          BY <1>0, <1>6, IdleRuns DEF TypeOK
        <4> QED
          BY <4>1
      <3> QED
        BY <1>0, <1>6, <3>1, IdleRuns DEF TypeOK
    <2> QED
      BY <1>0, <1>6, <2>1, IdleRuns DEF TypeInv
  <1>7. ASSUME NEW t \in Token, Expires(t)
        PROVE  TypeInv'
    <2>1. tasks' \in Seq(TaskType)
      BY <1>7 DEF Expires, TypeInv, TypeOK
    <2>2. arming' # {} => tasks' # <<>> /\ Head(tasks') = Head(tasks)
      BY <1>7, Submission DEF Expires, TypeInv, TypeOK
    <2> QED
      BY <1>7, <2>1, <2>2 DEF Expires, TypeInv, TypeOK
  <1>8. CASE Destroy
    <2>1. <<>> \in Seq(TaskType)
      OBVIOUS
    <2> QED
      BY <1>8, <2>1, InfoType DEF Destroy, timer, history, TypeInv, TypeOK
  <1>9. CASE UNCHANGED vars
    BY <1>9 DEF vars, executor, requests, timer, history, TypeInv, TypeOK
  <1> QED
    BY <1>1, <1>2, <1>3, <1>4, <1>5, <1>6, <1>7, <1>8, <1>9, EntersType, Steps

\* The variables keep their types: no task comes with fields that its code does not
\* expect, and the executor enters a request only when it has armed its timer.
THEOREM ContextTypeCorrect == Spec => []TypeOK
  <1>1. Init => TypeInv
    BY InitType DEF TypeInv, Init
  <1>2. TypeInv => TypeOK
    BY DEF TypeInv
  <1> QED
    BY <1>1, <1>2, StepType, PTL DEF Spec

-----------------------------------------------------------------------------
(***************************************************************************)
(* Requests.  Before the executor enters a request nothing is kept for it; *)
(* a timer belongs to one request; and what is answered is forgotten.      *)
(***************************************************************************)
Unasked(t) == ~IsPending(t) /\ pendingStates[t] = {} /\ answers[t] = <<>>

NewInv == \A t \in Token : t > requestCounter \/ Entering(t) => Unasked(t)

QueueInv == EnteredOnce /\ \A t \in Token : Entering(t) => t <= requestCounter

Given(k) == FirstTimer <= k /\ k < nextTimer

ArmedInv ==
    /\ FirstTimer <= nextTimer
    /\ \A entry \in armed :
           /\ Given(entry.timer)
           /\ entry.token <= requestCounter
           /\ Entering(entry.token) => entry.timer \in arming
           /\ entry.timer \in arming => Head(tasks).token = entry.token

ArmingInv ==
    \A k \in arming :
        /\ Given(k) /\ arming = {k}
        /\ \A t : Head(tasks).token = t => [timer |-> k, token |-> t] \in armed \/ IsTimedOut(t)
        /\ \A request \in pendingRequests : request.timer # k

PairInv ==
    \A request \in pendingRequests :
        /\ Given(request.timer)
        /\ \A entry \in armed : entry.timer = request.timer <=> entry.token = request.token
        /\ \A other \in pendingRequests :
               other.timer = request.timer \/ other.token = request.token => other = request

RequestInv ==
    TypeInv /\ NewInv /\ QueueInv /\ ArmedInv /\ ArmingInv /\ PairInv /\ AnsweredIsForgotten

LEMMA Fields ==
    ASSUME TypeInv
    PROVE  /\ \A entry \in armed : entry.timer \in Nat /\ entry.token \in Token
           /\ \A request \in pendingRequests :
                  request.timer \in Nat /\ request.token \in Token /\ request.skip \in BOOLEAN
           /\ \A t \in Token : t \in Nat
           /\ requestCounter \in Nat /\ nextTimer \in Nat /\ FirstTimer \in Nat
           /\ arming \subseteq Nat
  BY TokenType, ContextAssumption DEF TypeInv, TypeOK

\* The timer of a request that is pending is its own; that of another one is 0.
LEMMA TimerOfRequest ==
    ASSUME PairInv, NEW t
    PROVE  /\ \A request \in pendingRequests : request.token = t => TimerOf(t) = request.timer
           /\ ~IsPending(t) => TimerOf(t) = 0
  BY DEF PairInv, TimerOf, IsPending

\* To settle a request leaves the others alone, and leaves nothing of it once it is
\* answered.
LEMMA Settlement ==
    ASSUME TypeInv, PairInv, NEW t,
           (t \in Token /\ Settles(t))
               \/ UNCHANGED <<pendingRequests, pendingStates, armed, answers>>
    PROVE  /\ armed' \subseteq armed /\ pendingRequests' \subseteq pendingRequests
           /\ \A u \in Token : pendingStates'[u] \subseteq pendingStates[u]
           /\ \A u \in Token :
                  \/ answers'[u] = answers[u]
                  \/ /\ u = t /\ IsPending(t) /\ ~IsPending(t)' /\ pendingStates'[t] = {}
                     /\ \A entry \in armed' : entry.token # t
                     /\ \E answer \in AnswerType : answers'[t] = Append(answers[t], answer)
           /\ \A entry \in armed : entry \notin armed' =>
                  \/ entry.timer = 0
                  \/ \E request \in pendingRequests \ pendingRequests' :
                         request.timer = entry.timer
           /\ \A request \in pendingRequests' : request.token # t \/ UNCHANGED armed
  <1>1. CASE UNCHANGED <<pendingRequests, pendingStates, armed, answers>>
    BY <1>1
  <1>2. CASE /\ \E waiting \in SUBSET pendingStates[t] :
                    pendingStates' = [pendingStates EXCEPT ![t] = waiting]
             /\ UNCHANGED <<pendingRequests, armed, answers>>
    BY <1>2 DEF TypeInv, TypeOK
  <1>3. ASSUME t \in Token, NEW answer \in AnswerType, Answer(t, answer)
        PROVE  /\ armed' \subseteq armed /\ pendingRequests' \subseteq pendingRequests
               /\ \A u \in Token : pendingStates'[u] \subseteq pendingStates[u]
               /\ \A u \in Token :
                      \/ answers'[u] = answers[u]
                      \/ /\ u = t /\ IsPending(t) /\ ~IsPending(t)' /\ pendingStates'[t] = {}
                         /\ \A entry \in armed' : entry.token # t
                         /\ answers'[t] = Append(answers[t], answer)
               /\ \A entry \in armed : entry \notin armed' =>
                      \/ entry.timer = 0
                      \/ \E request \in pendingRequests \ pendingRequests' :
                             request.timer = entry.timer
               /\ \A request \in pendingRequests' : request.token # t
    <2>1. /\ armed' = {entry \in armed : entry.timer # TimerOf(t)}
          /\ pendingRequests' = {request \in pendingRequests : request.token # t}
          /\ pendingStates' = [pendingStates EXCEPT ![t] = {}]
          /\ answers' = IF IsPending(t) THEN [answers EXCEPT ![t] = Append(answers[t], answer)]
                        ELSE answers
      BY <1>3 DEF Answer, WithoutTimer, WithoutRequest
    <2>2. ~IsPending(t)' /\ \A request \in pendingRequests' : request.token # t
      BY <2>1 DEF IsPending
    <2>3. pendingStates \in [Token -> SUBSET Capability] /\ DOMAIN answers = Token
      BY DEF TypeInv, TypeOK
    <2>4. \A u \in Token : pendingStates'[u] \subseteq pendingStates[u] /\ pendingStates'[t] = {}
      BY <1>3, <2>1, <2>3
    <2>5. CASE IsPending(t)
      <3>1. PICK request \in pendingRequests : request.token = t
        BY <2>5 DEF IsPending
      <3>2. TimerOf(t) = request.timer /\ request \notin pendingRequests'
        BY <2>2, <3>1, TimerOfRequest
      <3>3. \A entry \in armed' : entry.token # t
        BY <2>1, <3>1, <3>2 DEF PairInv
      <3> QED
        BY <2>1, <2>2, <2>3, <2>4, <2>5, <3>1, <3>2, <3>3
    <2>6. CASE ~IsPending(t)
      BY <2>1, <2>2, <2>4, <2>6, TimerOfRequest
    <2> QED
      BY <2>5, <2>6
  <1> QED
    BY <1>1, <1>2, <1>3 DEF Settles

\* A task that is done keeps the invariant, with what it does to its request.
LEMMA SettledKeeps ==
    ASSUME RequestInv, TypeInv', tasks # <<>>, tasks' = Tail(tasks), arming = {}, NEW t,
           (t \in Token /\ Settles(t))
               \/ UNCHANGED <<pendingRequests, pendingStates, armed, answers>>,
           UNCHANGED <<requestCounter, arming, nextTimer>>
    PROVE  RequestInv'
  <1> USE DEF RequestInv
  <1>1. EnteredOnce' /\ \A u : Entering(u)' => Entering(u)
    BY Completion DEF TypeInv, TypeOK, QueueInv
  <1>2. /\ armed' \subseteq armed /\ pendingRequests' \subseteq pendingRequests
        /\ \A u \in Token : pendingStates'[u] \subseteq pendingStates[u]
        /\ \A u : IsPending(u)' => IsPending(u)
    BY Settlement DEF IsPending
  <1>3. \A u \in Token :
            \/ answers'[u] = answers[u]
            \/ /\ u = t /\ IsPending(t) /\ ~IsPending(t)' /\ pendingStates'[t] = {}
               /\ \A entry \in armed' : entry.token # t
               /\ \E answer \in AnswerType : answers'[t] = Append(answers[t], answer)
    BY Settlement
  <1>4. NewInv'
    BY <1>1, <1>2, <1>3 DEF NewInv, Unasked
  <1>5. QueueInv' /\ ArmedInv' /\ ArmingInv' /\ PairInv'
    BY <1>1, <1>2 DEF QueueInv, ArmedInv, ArmingInv, PairInv, Given
  <1>6. AnsweredIsForgotten'
    <2> SUFFICES ASSUME NEW u \in Token, answers'[u] # <<>>
                 PROVE  /\ Len(answers'[u]) = 1
                        /\ ~IsPending(u)' /\ pendingStates'[u] = {}
                        /\ ~\E entry \in armed' : entry.token = u
      BY DEF AnsweredIsForgotten
    <2>1. CASE answers'[u] = answers[u]
      BY <1>2, <2>1 DEF AnsweredIsForgotten
    <2>2. CASE answers'[u] # answers[u]
      <3>1. PICK answer \in AnswerType : answers'[u] = Append(answers[u], answer)
        BY <1>3, <2>2
      <3>2. answers[u] = <<>>
        BY <1>3, <2>2 DEF AnsweredIsForgotten
      <3>3. Len(answers'[u]) = 1
        BY <3>1, <3>2
      <3>4. u = t /\ ~IsPending(t)' /\ pendingStates'[t] = {} /\ \A entry \in armed' : entry.token # t
        BY <1>3, <2>2
      <3> QED
        BY <3>3, <3>4
    <2> QED
      BY <2>1, <2>2
  <1> QED
    BY <1>4, <1>5, <1>6

\* A call that submits a task for no new request, or the timer that does.
LEMMA SubmitsKeeps ==
    ASSUME RequestInv, TypeInv', NEW task \in TaskType, task.kind # "getContext",
           tasks' = Append(tasks, task),
           UNCHANGED <<arming, requestCounter, pendingRequests, pendingStates, nextTimer, answers>>,
           \/ UNCHANGED armed
           \/ /\ task.kind = "timeout"
              /\ \E entry \in armed : entry.token = task.token /\ armed' = armed \ {entry}
    PROVE  RequestInv'
  <1> USE DEF RequestInv
  <1>1. /\ EnteredOnce' /\ \A u : Entering(u)' <=> Entering(u)
        /\ \A u : IsTimedOut(u) => IsTimedOut(u)'
        /\ task.kind = "timeout" => IsTimedOut(task.token)'
        /\ tasks # <<>> => Head(tasks') = Head(tasks)
    BY Submission DEF TypeInv, TypeOK, QueueInv
  <1>2. /\ armed' \subseteq armed
        /\ \A entry \in armed : entry \in armed' \/ IsTimedOut(entry.token)'
    BY <1>1
  <1>3. arming # {} => Head(tasks') = Head(tasks)
    BY <1>1 DEF TypeInv
  <1>4. ArmingInv'
    <2>1. ASSUME NEW k \in arming, NEW t, Head(tasks).token = t
          PROVE  [timer |-> k, token |-> t] \in armed' \/ IsTimedOut(t)'
      BY <1>1, <1>2, <2>1 DEF ArmingInv
    <2> QED
      BY <1>3, <2>1 DEF ArmingInv, Given
  <1>5. NewInv' /\ QueueInv' /\ ArmedInv' /\ PairInv' /\ AnsweredIsForgotten'
    BY <1>1, <1>2, <1>3
      DEF NewInv, QueueInv, ArmedInv, PairInv, AnsweredIsForgotten, Unasked, IsPending, Given
  <1> QED
    BY <1>4, <1>5

\* The executor arms the timer of the request that it is about to enter.
LEMMA ArmsKeeps ==
    ASSUME RequestInv, TypeInv', NEW t, Arms(t)
    PROVE  RequestInv'
  <1> USE DEF RequestInv, Arms
  <1>1. Entering(t) /\ Unasked(t) /\ t <= requestCounter
    BY Completion DEF TypeInv, TypeOK, QueueInv, NewInv, Entering
  <1>2. /\ FirstTimer \in Nat /\ nextTimer \in Nat
        /\ \A entry \in armed : entry.timer \in Nat /\ entry.timer # nextTimer
        /\ \A request \in pendingRequests : request.timer # nextTimer /\ request.token # t
    BY <1>1, Fields DEF ArmedInv, PairInv, Given, Unasked, IsPending
  <1>3. \A entry \in armed : ~Entering(entry.token)
    BY DEF ArmedInv
  <1>4. \A k \in Nat : Given(k) \/ k = nextTimer => Given(k)'
    BY <1>2, Fields DEF Given, ArmedInv
  <1>5. ArmedInv'
    BY <1>1, <1>2, <1>3, <1>4, Fields DEF ArmedInv, Entering
  <1>6. ArmingInv'
    BY <1>2, <1>4 DEF ArmingInv
  <1>7. PairInv'
    BY <1>2, <1>4, Fields DEF PairInv
  <1>8. NewInv' /\ QueueInv'
    BY DEF NewInv, QueueInv, Unasked, IsPending, Entering, EnteredOnce
  <1>9. AnsweredIsForgotten'
    BY <1>1 DEF AnsweredIsForgotten, Unasked, IsPending
  <1> QED
    BY <1>5, <1>6, <1>7, <1>8, <1>9

\* The executor enters a request.
LEMMA EntersKeeps ==
    ASSUME RequestInv, TypeInv', NEW t, NEW k, NEW skip, NEW waiting,
           Enters(t, k, skip, waiting)
    PROVE  RequestInv'
  <1> DEFINE new == [token |-> t, timer |-> k, skip |-> skip]
  <1> USE DEF RequestInv
  <1>1. /\ EnteredOnce' /\ \A u : Entering(u)' => Entering(u)
        /\ Entering(t) /\ ~Entering(t)'
    BY Completion DEF TypeInv, TypeOK, QueueInv, Enters
  <1>2. Unasked(t) /\ t \in Token /\ t <= requestCounter /\ t \in Nat /\ requestCounter \in Nat
    BY <1>1, Fields DEF NewInv, QueueInv, Enters
  <1>3. /\ arming = {k} /\ Given(k)
        /\ \A request \in pendingRequests : request.timer # k /\ request.token # t
        /\ \A entry \in armed : entry.timer = k <=> entry.token = t
    BY <1>1, <1>2 DEF ArmingInv, ArmedInv, Enters, Unasked, IsPending
  <1>4. /\ armed' \subseteq armed /\ arming' = {}
        /\ \A entry \in armed' : entry.token = t => waiting # {}
        /\ pendingRequests' \subseteq pendingRequests \cup {new}
        /\ waiting = {} => pendingRequests' = pendingRequests
        /\ \A u \in Token : u # t => pendingStates'[u] = pendingStates[u]
        /\ \A u \in Token : u # t => answers'[u] = answers[u]
        /\ answers'[t] = answers[t] \/ (waiting = {} /\ pendingStates'[t] = {} /\
               answers'[t] = Append(answers[t], [context |-> TRUE, missing |-> {}]))
    BY <1>2, <1>3 DEF Enters, TypeInv, TypeOK
  <1>5. \A u : u # t /\ IsPending(u)' => IsPending(u)
    BY <1>4 DEF IsPending
  <1>6. NewInv'
    <2> SUFFICES ASSUME NEW u \in Token, u > requestCounter \/ Entering(u)'
                 PROVE  Unasked(u)'
      BY DEF NewInv, Enters
    <2>1. u # t /\ Unasked(u)
      BY <1>1, <1>2 DEF NewInv
    <2> QED
      BY <1>4, <1>5, <2>1 DEF Unasked
  <1>7. QueueInv'
    BY <1>1 DEF QueueInv, Enters
  <1>8. ArmedInv'
    <2> SUFFICES ASSUME NEW entry \in armed'
                 PROVE  Given(entry.timer) /\ entry.token <= requestCounter /\ ~Entering(entry.token)'
      BY <1>4 DEF ArmedInv, Enters, Given
    <2>1. Entering(entry.token) => entry.token = t
      BY <1>3, <1>4 DEF ArmedInv
    <2>2. \A u : u = entry.token => ~Entering(u)'
      BY <1>1, <2>1
    <2> QED
      BY <1>4, <2>2 DEF ArmedInv
  <1>9. ArmingInv'
    BY <1>4 DEF ArmingInv
  <1>10. PairInv'
    <2>1. new.timer = k /\ new.token = t
      OBVIOUS
    <2> HIDE DEF new
    <2> QED
      BY <1>3, <1>4, <2>1 DEF PairInv, Given, Enters
  <1>11. AnsweredIsForgotten'
    <2> SUFFICES ASSUME NEW u \in Token, answers'[u] # <<>>
                 PROVE  /\ Len(answers'[u]) = 1
                        /\ ~IsPending(u)' /\ pendingStates'[u] = {}
                        /\ ~\E entry \in armed' : entry.token = u
      BY DEF AnsweredIsForgotten
    <2>1. CASE u # t
      BY <1>4, <1>5, <2>1 DEF AnsweredIsForgotten
    <2>2. CASE u = t
      <3>1. /\ waiting = {} /\ pendingStates'[t] = {}
            /\ answers'[t] = Append(<<>>, [context |-> TRUE, missing |-> {}])
        BY <1>2, <1>4, <2>2 DEF Unasked
      <3>2. ~IsPending(t)'
        BY <1>2, <1>4, <3>1 DEF Unasked, IsPending
      <3> QED
        BY <1>4, <2>2, <3>1, <3>2
    <2> QED
      BY <2>1, <2>2
  <1> QED
    BY <1>6, <1>7, <1>8, <1>9, <1>10, <1>11

LEMMA AsksKeeps ==
    ASSUME RequestInv, TypeInv', NEW skip \in BOOLEAN, Asks(skip)
    PROVE  RequestInv'
  <1> DEFINE t    == requestCounter + 1
             task == [kind |-> "getContext", token |-> t, skip |-> skip]
  <1> USE DEF RequestInv
  <1>1. /\ t \in Token /\ task \in TaskType /\ task.kind = "getContext" /\ task.token = t
        /\ tasks' = Append(tasks, task) /\ requestCounter' = t
        /\ UNCHANGED <<arming, pendingRequests, pendingStates, armed, nextTimer, answers>>
    BY DEF Asks
  <1>2. \A u \in Token : u > t \/ u = t => u > requestCounter
    BY Fields
  <1>3. ~Entering(t)
    BY <1>1, Fields DEF QueueInv
  <1> HIDE DEF task
  <1>4. /\ EnteredOnce' /\ \A u : Entering(u)' <=> Entering(u) \/ u = t
        /\ \A u : IsTimedOut(u) => IsTimedOut(u)'
        /\ tasks # <<>> => Head(tasks') = Head(tasks)
    BY <1>1, <1>3, Submission DEF TypeInv, TypeOK, QueueInv
  <1>5. arming # {} => Head(tasks') = Head(tasks)
    BY <1>4 DEF TypeInv
  <1>6. \A n \in Nat : n <= requestCounter => n <= t /\ n # t
    BY Fields
  <1>7. NewInv'
    BY <1>1, <1>2, <1>4 DEF NewInv, Unasked, IsPending
  <1>8. QueueInv'
    BY <1>1, <1>4, <1>6, Fields DEF QueueInv
  <1>9. ArmedInv'
    BY <1>1, <1>4, <1>5, <1>6, Fields DEF ArmedInv, Given
  <1>10. ArmingInv' /\ PairInv' /\ AnsweredIsForgotten'
    BY <1>1, <1>4, <1>5 DEF ArmingInv, PairInv, AnsweredIsForgotten, IsPending, Given
  <1> QED
    BY <1>7, <1>8, <1>9, <1>10

LEMMA DestroyKeeps ==
    ASSUME RequestInv, TypeInv', Destroy
    PROVE  RequestInv'
  <1>1. /\ tasks' = <<>> /\ arming' = {} /\ pendingRequests' = {}
        /\ \A u \in Token : pendingStates'[u] = {}
        /\ UNCHANGED <<armed, nextTimer, requestCounter, answers>>
    BY DEF Destroy, timer, history
  <1>2. \A u : ~Entering(u)' /\ ~IsPending(u)'
    BY <1>1 DEF Entering, IsPending
  <1> QED
    BY <1>1, <1>2 DEF RequestInv, NewInv, QueueInv, ArmedInv, ArmingInv, PairInv,
      AnsweredIsForgotten, Unasked, EnteredOnce, Given

LEMMA RequestStep == RequestInv /\ [Next]_vars => RequestInv'
  <1> SUFFICES ASSUME RequestInv, [Next]_vars PROVE RequestInv'
    OBVIOUS
  <1>1. TypeInv /\ TypeOK /\ TypeInv'
    BY StepType DEF RequestInv, TypeInv
  <1>2. ASSUME NEW task, Submits(task) PROVE RequestInv'
    BY <1>1, <1>2, SubmitsKeeps DEF Submits
  <1>3. ASSUME NEW t \in Token, Expires(t) PROVE RequestInv'
    <2> DEFINE task == [kind |-> "timeout", token |-> t]
    <2>1. task.kind = "timeout" /\ task.token = t
      OBVIOUS
    <2> HIDE DEF task
    <2> QED
      BY <1>1, <1>3, <2>1, SubmitsKeeps DEF Expires, task
  <1>4. CASE RunSetState \/ RunResponse \/ RunUnavailable \/ RunTimeout
    BY <1>1, <1>4, RunsSettle, SettledKeeps
  <1>5. CASE DropReply \/ RunReport
    BY <1>1, <1>5, IdleRuns, SettledKeeps
  <1>6. CASE UNCHANGED vars \/ \E c \in Capability : Replaces(c)
    <2>1. UNCHANGED <<tasks, arming, requestCounter, pendingRequests, pendingStates, armed,
                      nextTimer, answers>>
      BY <1>6 DEF vars, executor, requests, timer, history, Replaces
    <2> QED
      BY <1>1, <2>1 DEF RequestInv, NewInv, QueueInv, ArmedInv, ArmingInv, PairInv,
        AnsweredIsForgotten, Unasked, EnteredOnce, Given, IsPending, Entering, IsTimedOut
  <1> QED
    BY <1>1, <1>2, <1>3, <1>4, <1>5, <1>6, ArmsKeeps, EntersKeeps, AsksKeeps, DestroyKeeps, Steps

LEMMA RequestInit == Init => RequestInv
  <1> SUFFICES ASSUME Init PROVE RequestInv
    OBVIOUS
  <1>1. TypeInv
    BY InitType DEF TypeInv, Init
  <1>2. /\ tasks = <<>> /\ arming = {} /\ pendingRequests = {} /\ armed = {}
        /\ \A t \in Token : pendingStates[t] = {} /\ answers[t] = <<>>
        /\ nextTimer = FirstTimer /\ FirstTimer \in Nat
    BY ContextAssumption DEF Init
  <1>3. \A t : ~Entering(t)
    BY <1>2 DEF Entering
  <1> QED
    BY <1>1, <1>2, <1>3 DEF RequestInv, NewInv, QueueInv, ArmedInv, ArmingInv, PairInv,
      AnsweredIsForgotten, Unasked, EnteredOnce, IsPending

\* A request is answered at most once, and nothing is left of it then, in whichever
\* order replies, time-outs, changes of the providers and the end come.
THEOREM AnsweredOnceAndForgotten == Spec => []AnsweredIsForgotten
  <1>1. RequestInv => AnsweredIsForgotten
    BY DEF RequestInv
  <1> QED
    BY <1>1, RequestInit, RequestStep, PTL DEF Spec

-----------------------------------------------------------------------------
(***************************************************************************)
(* Time-outs.  What the executor cancels by mistake has the timer token 0: *)
(* the requests with other ones keep theirs.                               *)
(***************************************************************************)
LEMMA SettledTimesOut ==
    ASSUME RequestInv, OnlyTimerZeroIsLost, tasks # <<>>, tasks' = Tail(tasks),
           NEW t,
           (t \in Token /\ Settles(t))
               \/ UNCHANGED <<pendingRequests, pendingStates, armed, answers>>,
           Head(tasks).kind = "timeout" =>
               \A request \in pendingRequests' : request.token # Head(tasks).token
    PROVE  OnlyTimerZeroIsLost'
  <1> USE DEF RequestInv
  <1>1. /\ pendingRequests' \subseteq pendingRequests
        /\ \A entry \in armed : entry \notin armed' =>
               \/ entry.timer = 0
               \/ \E request \in pendingRequests \ pendingRequests' :
                      request.timer = entry.timer
    BY Settlement
  <1>2. \A u : IsTimedOut(u) /\ ~(Head(tasks).kind = "timeout" /\ Head(tasks).token = u)
                  => IsTimedOut(u)'
    BY Completion DEF TypeInv, TypeOK, QueueInv
  <1>3. ASSUME NEW request \in pendingRequests', request.timer # 0,
               [timer |-> request.timer, token |-> request.token] \in armed
        PROVE  [timer |-> request.timer, token |-> request.token] \in armed'
    <2>1. request \in pendingRequests
      BY <1>1
    <2>2. \A other \in pendingRequests \ pendingRequests' : other.timer # request.timer
      BY <2>1 DEF PairInv
    <2> QED
      BY <1>1, <1>3, <2>1, <2>2
  <1>4. ASSUME NEW request \in pendingRequests', NEW u, u = request.token, IsTimedOut(u)
        PROVE  IsTimedOut(u)'
    BY <1>2, <1>4
  <1>5. ASSUME NEW request \in pendingRequests', NEW u, u = request.token, request.timer # 0
        PROVE  [timer |-> request.timer, token |-> u] \in armed \/ IsTimedOut(u)
    BY <1>1, <1>5 DEF OnlyTimerZeroIsLost, CanTimeOut
  <1>6. ASSUME NEW request \in pendingRequests', NEW u, u = request.token, request.timer # 0
        PROVE  [timer |-> request.timer, token |-> u] \in armed' \/ IsTimedOut(u)'
    BY <1>3, <1>4, <1>5, <1>6
  <1> QED
    BY <1>6 DEF OnlyTimerZeroIsLost, CanTimeOut

LEMMA SubmitsTimesOut ==
    ASSUME RequestInv, OnlyTimerZeroIsLost, NEW task \in TaskType, tasks' = Append(tasks, task),
           UNCHANGED pendingRequests,
           \/ UNCHANGED armed
           \/ /\ task.kind = "timeout"
              /\ \E entry \in armed : entry.token = task.token /\ armed' = armed \ {entry}
    PROVE  OnlyTimerZeroIsLost'
  <1>1. /\ \A u : IsTimedOut(u) => IsTimedOut(u)'
        /\ task.kind = "timeout" => IsTimedOut(task.token)'
    BY Submission DEF RequestInv, TypeInv, TypeOK
  <1>2. \A entry \in armed : entry \in armed' \/ (task.kind = "timeout" /\ entry.token = task.token)
    OBVIOUS
  <1>3. ASSUME NEW request \in pendingRequests, NEW u, u = request.token, request.timer # 0
        PROVE  [timer |-> request.timer, token |-> u] \in armed' \/ IsTimedOut(u)'
    <2>1. [timer |-> request.timer, token |-> u] \in armed \/ IsTimedOut(u)
      BY <1>3 DEF OnlyTimerZeroIsLost, CanTimeOut
    <2>2. [timer |-> request.timer, token |-> u].token = u
      OBVIOUS
    <2> QED
      BY <1>1, <1>2, <2>1, <2>2
  <1> QED
    BY <1>3 DEF OnlyTimerZeroIsLost, CanTimeOut

LEMMA EntersTimesOut ==
    ASSUME RequestInv, OnlyTimerZeroIsLost, NEW t, NEW k, NEW skip, NEW waiting,
           Enters(t, k, skip, waiting)
    PROVE  OnlyTimerZeroIsLost'
  <1> DEFINE new == [token |-> t, timer |-> k, skip |-> skip]
  <1>1. \A u : IsTimedOut(u) => IsTimedOut(u)'
    BY Completion DEF RequestInv, TypeInv, TypeOK, QueueInv, Enters
  <1>2. [timer |-> k, token |-> t] \in armed \/ IsTimedOut(t)
    BY DEF RequestInv, ArmingInv, Enters
  <1>3. /\ waiting = {} => pendingRequests' = pendingRequests
                           /\ armed' = {entry \in armed : entry.timer # k}
        /\ waiting # {} => pendingRequests' = pendingRequests \cup {new} /\ armed' = armed
    BY DEF Enters
  <1>4. \A request \in pendingRequests : request.timer # k
    BY DEF RequestInv, ArmingInv, Enters
  <1>5. ASSUME NEW request \in pendingRequests, NEW u, u = request.token, request.timer # 0
        PROVE  [timer |-> request.timer, token |-> u] \in armed' \/ IsTimedOut(u)'
    <2>1. [timer |-> request.timer, token |-> u] \in armed \/ IsTimedOut(u)
      BY <1>5 DEF OnlyTimerZeroIsLost, CanTimeOut
    <2>2. [timer |-> request.timer, token |-> u].timer # k
      BY <1>4
    <2> QED
      BY <1>1, <1>3, <2>1, <2>2
  <1>6. new.timer = k /\ new.token = t
    OBVIOUS
  <1> HIDE DEF new
  <1>7. ASSUME NEW request \in pendingRequests', NEW u, u = request.token, request.timer # 0
        PROVE  [timer |-> request.timer, token |-> u] \in armed' \/ IsTimedOut(u)'
    BY <1>1, <1>2, <1>3, <1>5, <1>6, <1>7
  <1> QED
    BY <1>7 DEF OnlyTimerZeroIsLost, CanTimeOut

LEMMA TimeoutStep ==
    ASSUME RequestInv, OnlyTimerZeroIsLost, [Next]_vars
    PROVE  OnlyTimerZeroIsLost'
  <1>1. TypeInv /\ TypeOK
    BY DEF RequestInv, TypeInv
  <1>2. ASSUME NEW skip \in BOOLEAN, Asks(skip) PROVE OnlyTimerZeroIsLost'
    BY <1>2, SubmitsTimesOut DEF Asks
  <1>3. ASSUME NEW task, Submits(task) PROVE OnlyTimerZeroIsLost'
    BY <1>3, SubmitsTimesOut DEF Submits
  <1>4. ASSUME NEW t \in Token, Expires(t) PROVE OnlyTimerZeroIsLost'
    <2> DEFINE task == [kind |-> "timeout", token |-> t]
    <2>1. task.kind = "timeout" /\ task.token = t
      OBVIOUS
    <2> HIDE DEF task
    <2> QED
      BY <1>4, <2>1, SubmitsTimesOut DEF Expires, task
  <1>5. CASE RunSetState \/ RunResponse \/ RunUnavailable \/ RunTimeout
    <2>1. Fail(Head(tasks).token) =>
              \A request \in pendingRequests' : request.token # Head(tasks).token
      BY DEF Fail, Answer, WithoutRequest
    <2> QED
      BY <1>1, <1>5, <2>1, RunsSettle, SettledTimesOut
  <1>6. CASE DropReply \/ RunReport
    BY <1>1, <1>6, IdleRuns, SettledTimesOut
  <1>7. ASSUME NEW t, Arms(t) PROVE OnlyTimerZeroIsLost'
    BY <1>7 DEF Arms, OnlyTimerZeroIsLost, CanTimeOut, IsTimedOut
  <1>8. CASE Destroy
    BY <1>8 DEF Destroy, OnlyTimerZeroIsLost
  <1>9. CASE UNCHANGED vars \/ \E c \in Capability : Replaces(c)
    <2>1. UNCHANGED <<tasks, pendingRequests, armed>>
      BY <1>9 DEF vars, executor, requests, timer, Replaces
    <2> QED
      BY <2>1 DEF OnlyTimerZeroIsLost, CanTimeOut, IsTimedOut
  <1> QED
    BY <1>1, <1>2, <1>3, <1>4, <1>5, <1>6, <1>7, <1>8, <1>9, EntersTimesOut, Steps

\* A request that waits for replies can time out, whatever the MultiTimer's first token
\* is, unless its own is 0: a task that comes late cancels no other timer.
THEOREM TimeOutIsAhead == Spec => []OnlyTimerZeroIsLost
  <1>1. Init => RequestInv /\ OnlyTimerZeroIsLost
    BY RequestInit DEF Init, OnlyTimerZeroIsLost
  <1>2. RequestInv /\ OnlyTimerZeroIsLost /\ [Next]_vars => RequestInv' /\ OnlyTimerZeroIsLost'
    BY RequestStep, TimeoutStep
  <1> QED
    BY <1>1, <1>2, PTL DEF Spec

\* A MultiTimer that began with another token than 0, as the code's does not, would let
\* every request time out.
COROLLARY NoTimerIsLost ==
    ASSUME FirstTimer # 0
    PROVE  Spec => []PendingWillTimeOut
  <1>1. RequestInv /\ OnlyTimerZeroIsLost => PendingWillTimeOut
    <2> SUFFICES ASSUME RequestInv, OnlyTimerZeroIsLost, NEW request \in pendingRequests
                 PROVE  CanTimeOut(request)
      BY DEF PendingWillTimeOut
    <2>1. request.timer # 0
      BY Fields DEF RequestInv, PairInv, Given
    <2> QED
      BY <2>1 DEF OnlyTimerZeroIsLost
  <1>2. Spec => []RequestInv
    BY RequestInit, RequestStep, PTL DEF Spec
  <1> QED
    BY <1>1, <1>2, TimeOutIsAhead, PTL

-----------------------------------------------------------------------------
(***************************************************************************)
(* What a context holds.  A state that a pending request is owed and does  *)
(* not wait for any longer is one that goes into the context.              *)
(***************************************************************************)
Holds(c, skip) == Reported(info[c], c, skip) /\ info[c].value

\* Its state goes into the context once it has a value.
Retrieved(c, skip) ==
    c \in Legacy \/ (info[c].provider /\ c \in Retrievable /\ (c \in Reportable => ~skip))

LegacyInv == \A c \in Capability : info[c].legacy => c \in Legacy

OwedInv ==
    \A request \in pendingRequests : \A c \in owed[request.token] :
        /\ Retrieved(c, request.skip)
        /\ c \notin pendingStates[request.token] => Holds(c, request.skip)

ContextInv == RequestInv /\ LegacyInv /\ OwedInv /\ ContextHoldsWhatWasAsked

\* The states of these capabilities are up to date, or not owed any longer, and the
\* others are as before.
Refreshes(updated) ==
    /\ LegacyInv'
    /\ \A t \in Token : owed'[t] \subseteq owed[t]
    /\ \A t \in Token : \A d \in owed'[t] : \A skip \in BOOLEAN :
           Retrieved(d, skip) =>
               /\ Retrieved(d, skip)'
               /\ Holds(d, skip) \/ d \in updated => Holds(d, skip)'

\* What an update does to the state of a capability.
LEMMA UpdateRefreshes ==
    ASSUME TypeOK, LegacyInv, NEW task \in TaskType,
           task.kind \in {"setState", "response", "report"},
           info' = Updated(task), owed' \in [Token -> SUBSET Capability],
           IF task.kind # "response" /\ ~task.reply.value THEN Excused(task.capability)
           ELSE UNCHANGED owed
    PROVE  Refreshes({task.capability})
  <1> DEFINE c == task.capability
  <1>1. /\ c \in Capability
        /\ task.kind = "response" => c \notin Legacy
        /\ c \in Legacy => task.reply \in LegacyReply
        /\ task.kind # "response" => task.reply \in LegacyReply
    BY TaskFields, ContextAssumption
  <1>2. info \in [Capability -> StateInfo]
    BY DEF TypeOK
  <1>3. /\ \A d \in Capability : d # c => info'[d] = info[d]
        /\ info'[c].provider = info[c].provider
        /\ c \in Legacy => info'[c].value = task.reply.value /\ info'[c].legacy
        /\ c \notin Legacy => info'[c].value = TRUE /\ info'[c].legacy = FALSE
        /\ info'[c].legacy => c \in Legacy
    BY <1>1, <1>2 DEF Updated, LegacyInfo, NewInfo
  <1>4. /\ \A t \in Token : owed'[t] \subseteq owed[t]
        /\ \A t \in Token : owed[t] \subseteq Capability
        /\ \A t \in Token : c \in owed'[t] => task.kind = "response" \/ task.reply.value
    BY DEF Excused, TypeOK
  <1>5. LegacyInv'
    BY <1>3 DEF LegacyInv
  <1>6. ASSUME NEW t \in Token, NEW d \in owed'[t], NEW skip \in BOOLEAN, Retrieved(d, skip)
        PROVE  Retrieved(d, skip)' /\ (Holds(d, skip) \/ d = c => Holds(d, skip)')
    <2>1. CASE d # c
      BY <1>3, <1>4, <1>6, <2>1 DEF Retrieved, Holds
    <2>2. CASE d = c
      <3>1. info'[c].value
        BY <1>1, <1>3, <1>4, <2>2
      <3>2. Retrieved(d, skip)'
        BY <1>3, <1>6, <2>2 DEF Retrieved
      <3>3. Reported(info'[c], c, skip)
        BY <1>3, <1>6, <2>2, <3>1 DEF Reported, Retrieved
      <3> QED
        BY <2>2, <3>1, <3>2, <3>3 DEF Holds
    <2> QED
      BY <2>1, <2>2
  <1> HIDE DEF c
  <1>7. Refreshes({c})
    BY <1>4, <1>5, <1>6 DEF Refreshes
  <1> QED
    BY <1>7 DEF c

\* A request that is settled with a state that is up to date.
LEMMA RefreshKeeps ==
    ASSUME RequestInv, RequestInv', LegacyInv, OwedInv, ContextHoldsWhatWasAsked,
           NEW updated, Refreshes(updated),
           \/ UNCHANGED <<pendingRequests, pendingStates, answers>>
           \/ \E t \in Token :
                  Fail(t) \/ \E c \in updated : AnswerIfReady(t, pendingStates[t] \ {c}, info')
    PROVE  ContextInv'
  <1> USE DEF RequestInv
  <1>1. TypeOK /\ \A t \in Token : owed'[t] \subseteq owed[t]
    BY DEF TypeInv, Refreshes
  <1>2. ASSUME NEW request \in pendingRequests, NEW d \in owed'[request.token]
        PROVE  /\ Retrieved(d, request.skip)'
               /\ d \notin pendingStates[request.token] \/ d \in updated
                      => Holds(d, request.skip)'
    <2>1. request.token \in Token /\ request.skip \in BOOLEAN
      BY Fields
    <2>2. d \in owed[request.token]
      BY <1>1, <2>1
    <2> QED
      BY <2>1, <2>2 DEF OwedInv, Refreshes
  <1>3. CASE UNCHANGED <<pendingRequests, pendingStates, answers>>
    BY <1>2, <1>3 DEF ContextInv, OwedInv, Refreshes, ContextHoldsWhatWasAsked
  <1>4. ASSUME NEW t \in Token, NEW answer, Answer(t, answer), IsPending(t) => answer.missing = {}
        PROVE  OwedInv' /\ ContextHoldsWhatWasAsked'
    <2>1. /\ pendingRequests' = {request \in pendingRequests : request.token # t}
          /\ \A u \in Token : u # t => pendingStates'[u] = pendingStates[u]
          /\ answers' = IF IsPending(t) THEN [answers EXCEPT ![t] = Append(answers[t], answer)]
                        ELSE answers
      BY <1>1, <1>4 DEF Answer, WithoutRequest, TypeOK
    <2>2. OwedInv'
      BY <1>2, <2>1, Fields DEF OwedInv
    <2>3. ASSUME NEW u \in Token, NEW i \in DOMAIN answers'[u]
          PROVE  answers'[u][i].missing = {}
      <3>1. answers \in [Token -> Seq(AnswerType)]
        BY <1>1 DEF TypeOK
      <3>2. CASE answers'[u] = answers[u]
        BY <3>2 DEF ContextHoldsWhatWasAsked
      <3>3. CASE answers'[u] # answers[u]
        <4>1. IsPending(t) /\ u = t /\ answers'[u] = Append(answers[u], answer)
          BY <2>1, <3>1, <3>3
        <4>2. answers[u] = <<>>
          BY <4>1 DEF AnsweredIsForgotten
        <4> QED
          BY <1>4, <4>1, <4>2
      <3> QED
        BY <3>2, <3>3
    <2> QED
      BY <2>2, <2>3 DEF ContextHoldsWhatWasAsked
  <1>5. ASSUME NEW t \in Token, NEW c \in updated,
               AnswerIfReady(t, pendingStates[t] \ {c}, info')
        PROVE  OwedInv' /\ ContextHoldsWhatWasAsked'
    <2> DEFINE waiting == pendingStates[t] \ {c}
    <2>1. CASE waiting = {}
      <3> DEFINE answer == [context |-> TRUE, missing |-> owed'[t] \ HeldIn(info', Skips(t))]
      <3>1. Answer(t, answer)
        BY <1>5, <2>1 DEF AnswerIfReady, Ready
      <3>2. ASSUME IsPending(t) PROVE owed'[t] \ HeldIn(info', Skips(t)) = {}
        <4>1. PICK request \in pendingRequests : request.token = t
          BY <3>2 DEF IsPending
        <4>2. Skips(t) = request.skip
          BY <4>1, Fields DEF Skips, PairInv
        <4>3. ASSUME NEW d \in owed'[t] PROVE d \in HeldIn(info', request.skip)
          <5>1. Holds(d, request.skip)' /\ d \in Capability
            BY <1>1, <1>2, <2>1, <4>1, <4>3 DEF TypeOK
          <5> QED
            BY <5>1 DEF Holds, HeldIn
        <4> QED
          BY <4>2, <4>3
      <3>3. answer.missing = owed'[t] \ HeldIn(info', Skips(t))
        OBVIOUS
      <3> HIDE DEF answer
      <3> QED
        BY <1>4, <3>1, <3>2, <3>3
    <2>2. CASE waiting # {}
      <3>1. /\ pendingStates' = [pendingStates EXCEPT ![t] = waiting]
            /\ UNCHANGED <<pendingRequests, answers>>
        BY <1>5, <2>2 DEF AnswerIfReady, Ready
      <3>2. \A u \in Token : \A d \in pendingStates[u] : d \in pendingStates'[u] \/ d = c
        BY <1>1, <3>1 DEF TypeOK
      <3> QED
        BY <1>2, <3>1, <3>2, Fields DEF OwedInv, ContextHoldsWhatWasAsked
    <2> QED
      BY <2>1, <2>2
  <1>6. ASSUME NEW t \in Token, Fail(t)
        PROVE  OwedInv' /\ ContextHoldsWhatWasAsked'
    BY <1>4, <1>6 DEF Fail
  <1> QED
    BY <1>3, <1>5, <1>6 DEF ContextInv, Refreshes

\* The executor asks the providers of a request.
LEMMA EntersContext ==
    ASSUME ContextInv, RequestInv', NEW t, NEW k, NEW skip, NEW waiting,
           Enters(t, k, skip, waiting)
    PROVE  ContextInv'
  <1> DEFINE new == [token |-> t, timer |-> k, skip |-> skip]
  <1> USE DEF ContextInv, RequestInv
  <1>1. TypeOK /\ t \in Token /\ skip \in BOOLEAN /\ waiting \subseteq Capability
        /\ UNCHANGED info
    BY DEF TypeInv, Enters
  <1>2. Entering(t) /\ Unasked(t)
    BY <1>1, Completion DEF NewInv, QueueInv, Enters, TypeOK
  <1>3. \A request \in pendingRequests : request.token # t /\ request.token \in Token
    BY <1>2, Fields DEF Unasked, IsPending
  <1>4. /\ pendingRequests' \subseteq pendingRequests \cup {new}
        /\ owed'[t] = waiting /\ pendingStates'[t] = waiting
        /\ \A u \in Token : u # t => owed'[u] = owed[u] /\ pendingStates'[u] = pendingStates[u]
    BY <1>1 DEF Enters, TypeOK
  <1>5. \A c \in waiting : Retrieved(c, skip)
    BY <1>1 DEF Enters, IsAsked, LegacyInv, Retrieved
  <1>6. new.token = t /\ new.skip = skip
    OBVIOUS
  <1> HIDE DEF new
  <1>7. \A c, b : /\ Retrieved(c, b)' <=> Retrieved(c, b)
                  /\ Holds(c, b)' <=> Holds(c, b)
    BY <1>1 DEF Retrieved, Holds
  <1>8. OwedInv'
    <2> SUFFICES ASSUME NEW request \in pendingRequests', NEW c \in owed'[request.token]
                 PROVE  /\ Retrieved(c, request.skip)
                        /\ c \notin pendingStates'[request.token] => Holds(c, request.skip)
      BY <1>7 DEF OwedInv
    <2>1. CASE request \in pendingRequests
      BY <1>3, <1>4, <2>1 DEF OwedInv
    <2>2. CASE request = new
      BY <1>4, <1>5, <1>6, <2>2
    <2> QED
      BY <1>4, <2>1, <2>2
  <1>9. ContextHoldsWhatWasAsked'
    <2> SUFFICES ASSUME NEW u \in Token, NEW i \in DOMAIN answers'[u]
                 PROVE  answers'[u][i].missing = {}
      BY DEF ContextHoldsWhatWasAsked
    <2>1. answers[t] = <<>> /\ answers \in [Token -> Seq(AnswerType)]
      BY <1>1, <1>2 DEF Unasked, TypeOK
    <2>2. \/ answers'[u] = answers[u]
          \/ answers'[u] = Append(<<>>, [context |-> TRUE, missing |-> {}])
      BY <1>1, <2>1 DEF Enters
    <2> QED
      BY <2>2 DEF ContextHoldsWhatWasAsked
  <1>10. LegacyInv'
    BY <1>1 DEF LegacyInv
  <1> QED
    BY <1>8, <1>9, <1>10

\* A step that leaves the requests and what they are owed alone.
LEMMA ContextUnchanged ==
    ASSUME ContextInv, RequestInv', pendingRequests' \subseteq pendingRequests,
           UNCHANGED <<info, owed, answers>>,
           UNCHANGED pendingStates \/ pendingRequests' = {}
    PROVE  ContextInv'
  <1>1. \A c, b : /\ Retrieved(c, b)' <=> Retrieved(c, b)
                  /\ Holds(c, b)' <=> Holds(c, b)
    BY DEF Retrieved, Holds
  <1> QED
    BY <1>1 DEF ContextInv, LegacyInv, OwedInv, ContextHoldsWhatWasAsked

\* The tasks with which a request is answered or a state is reported.
LEMMA RunsContext ==
    ASSUME ContextInv, RequestInv',
           RunSetState \/ RunResponse \/ RunUnavailable \/ RunTimeout \/ RunReport
    PROVE  ContextInv'
  <1> DEFINE task == Head(tasks)
             c    == task.capability
  <1> USE DEF ContextInv
  <1>1. TypeOK /\ LegacyInv
    BY DEF RequestInv, TypeInv
  <1>2. CASE RunSetState
    <2>1. /\ task \in TaskType /\ task.token \in Token /\ task.kind = "setState"
          /\ owed' \in [Token -> SUBSET Capability]
      BY <1>1, <1>2, RunsSettle DEF RunSetState, Runs
    <2>2. Refreshes({c})
      BY <1>1, <1>2, <2>1, UpdateRefreshes DEF RunSetState
    <2>3. Fail(task.token) \/ AnswerIfReady(task.token, pendingStates[task.token] \ {c}, info')
      BY <1>2 DEF RunSetState
    <2> HIDE DEF task
    <2> QED
      BY <2>1, <2>2, <2>3, RefreshKeeps
  <1>3. CASE RunResponse
    <2>1. /\ task \in TaskType /\ task.token \in Token /\ task.kind = "response"
          /\ owed' \in [Token -> SUBSET Capability]
      BY <1>1, <1>3, RunsSettle DEF RunResponse, Runs
    <2>2. Refreshes({c})
      BY <1>1, <1>3, <2>1, UpdateRefreshes DEF RunResponse
    <2>3. AnswerIfReady(task.token, pendingStates[task.token] \ {c}, info')
      BY <1>3 DEF RunResponse
    <2> HIDE DEF task
    <2> QED
      BY <2>1, <2>2, <2>3, RefreshKeeps
  <1>4. CASE RunUnavailable
    <2>1. /\ task \in TaskType /\ task.token \in Token /\ task.kind = "unavailable"
          /\ UNCHANGED <<info, owed>>
      BY <1>1, <1>4, RunsSettle DEF RunUnavailable, Runs
    <2>2. c \in Capability \ Legacy
      BY <2>1, TaskFields
    <2>3. CASE info[c].value /\ AnswerIfReady(task.token, pendingStates[task.token] \ {c}, info)
      <3>1. Refreshes({c})
        BY <1>1, <2>1, <2>2, <2>3 DEF Refreshes, LegacyInv, Retrieved, Holds, Reported
      <3> HIDE DEF task
      <3> QED
        BY <2>1, <2>3, <3>1, RefreshKeeps
    <2>4. CASE Fail(task.token)
      <3>1. Refreshes({})
        BY <1>1, <2>1 DEF Refreshes, LegacyInv, Retrieved, Holds
      <3> HIDE DEF task
      <3> QED
        BY <2>1, <2>4, <3>1, RefreshKeeps
    <2> QED
      BY <1>4, <2>3, <2>4 DEF RunUnavailable
  <1>5. CASE RunTimeout
    <2>1. task.token \in Token /\ Fail(task.token) /\ UNCHANGED <<info, owed>>
      BY <1>1, <1>5, RunsSettle DEF RunTimeout
    <2>2. Refreshes({})
      BY <1>1, <2>1 DEF Refreshes, LegacyInv, Retrieved, Holds
    <2> HIDE DEF task
    <2> QED
      BY <2>1, <2>2, RefreshKeeps
  <1>6. CASE RunReport
    <2>1. /\ task \in TaskType /\ task.kind = "report"
          /\ owed' \in [Token -> SUBSET Capability]
          /\ UNCHANGED <<pendingRequests, pendingStates, answers>>
      BY <1>1, <1>6, IdleRuns DEF RunReport, Runs
    <2>2. Refreshes({c})
      BY <1>1, <1>6, <2>1, UpdateRefreshes DEF RunReport
    <2> HIDE DEF task
    <2> QED
      BY <2>1, <2>2, RefreshKeeps
  <1> QED
    BY <1>2, <1>3, <1>4, <1>5, <1>6

LEMMA ReplacesContext ==
    ASSUME ContextInv, RequestInv', NEW c \in Capability, Replaces(c)
    PROVE  ContextInv'
  <1>1. TypeOK /\ LegacyInv
    BY DEF ContextInv, RequestInv, TypeInv
  <1>2. PICK new \in StateInfo : ~new.legacy /\ info' = [info EXCEPT ![c] = new]
    BY DEF Replaces
  <1>3. /\ \A d \in Capability : d # c => info'[d] = info[d]
        /\ ~info'[c].legacy
        /\ \A t \in Token : owed'[t] = owed[t] \ {c} /\ owed[t] \subseteq Capability
    BY <1>1, <1>2 DEF Replaces, Excused, TypeOK
  <1>4. Refreshes({})
    <2>1. LegacyInv'
      BY <1>1, <1>3 DEF LegacyInv
    <2>2. ASSUME NEW t \in Token, NEW d \in owed'[t], NEW skip \in BOOLEAN
          PROVE  (Retrieved(d, skip)' <=> Retrieved(d, skip)) /\ (Holds(d, skip)' <=> Holds(d, skip))
      BY <1>3 DEF Retrieved, Holds
    <2> QED
      BY <1>3, <2>1, <2>2 DEF Refreshes
  <1> QED
    BY <1>4, RefreshKeeps DEF Replaces, ContextInv

LEMMA ContextStep == ContextInv /\ [Next]_vars => ContextInv'
  <1> SUFFICES ASSUME ContextInv, [Next]_vars PROVE ContextInv'
    OBVIOUS
  <1>1. TypeInv /\ TypeOK /\ RequestInv'
    BY RequestStep DEF ContextInv, RequestInv, TypeInv
  <1>2. ASSUME NEW skip \in BOOLEAN, Asks(skip) PROVE ContextInv'
    BY <1>1, <1>2, ContextUnchanged DEF Asks
  <1>3. ASSUME NEW task, Submits(task) PROVE ContextInv'
    BY <1>1, <1>3, ContextUnchanged DEF Submits
  <1>4. ASSUME NEW t, Expires(t) \/ Arms(t) PROVE ContextInv'
    BY <1>1, <1>4, ContextUnchanged DEF Expires, Arms
  <1>5. CASE DropReply
    BY <1>1, <1>5, ContextUnchanged, IdleRuns DEF DropReply, history
  <1>6. CASE Destroy
    <2>1. /\ pendingRequests' = {} /\ UNCHANGED answers
          /\ \A c \in Capability : ~info'[c].legacy
      BY <1>6 DEF Destroy, history, NewInfo
    <2> QED
      BY <1>1, <2>1 DEF ContextInv, LegacyInv, OwedInv, ContextHoldsWhatWasAsked
  <1>7. CASE UNCHANGED vars
    BY <1>1, <1>7, ContextUnchanged DEF vars, requests, history
  <1> QED
    BY <1>1, <1>2, <1>3, <1>4, <1>5, <1>6, <1>7, EntersContext, RunsContext, ReplacesContext, Steps

\* A context holds the state of every provider that was asked for it, but for those
\* that were replaced since or said that they have none.
THEOREM ContextIsComplete == Spec => []ContextHoldsWhatWasAsked
  <1>1. Init => ContextInv
    <2> SUFFICES ASSUME Init PROVE ContextInv
      OBVIOUS
    <2>1. pendingRequests = {} /\ \A t \in Token : answers[t] = <<>>
      BY DEF Init
    <2>2. \A c \in Capability : ~info[c].legacy
      BY DEF Init, NewInfo
    <2> QED
      BY <2>1, <2>2, RequestInit DEF ContextInv, LegacyInv, OwedInv, ContextHoldsWhatWasAsked
  <1>2. ContextInv => ContextHoldsWhatWasAsked
    BY DEF ContextInv
  <1> QED
    BY <1>1, <1>2, ContextStep, PTL DEF Spec

=============================================================================
