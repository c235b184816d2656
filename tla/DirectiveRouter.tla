---------------------------- MODULE DirectiveRouter ----------------------------
(***************************************************************************)
(* The DirectiveRouter of the ADSL component: it maps routing rules to     *)
(* directive handlers, calls the handler of a directive without holding    *)
(* its mutex, and tells a handler when it is out of use.                   *)
(*                                                                         *)
(* Any thread may add or remove a handler, make a call, or shut the router *)
(* down.  Two mutexes are involved: the router's own m_mutex, and the one  *)
(* of its base class RequiresShutdown, which shutdown() holds until it     *)
(* returns and isShutdown() takes.                                         *)
(***************************************************************************)
EXTENDS RoutingRules, FiniteSets, Sequences, SequencesExt

CONSTANTS
    Handler,   \* the directive handlers
    Thread,    \* the threads that use the router
    None,      \* no handler, or no thread
    RulesOf    \* the rules in a handler's getConfiguration()

ASSUME RouterAssumption ==
    /\ None \notin Handler \cup Thread
    /\ IsFiniteSet(Handler) /\ IsFiniteSet(Thread)
    /\ RulesOf \in [Handler -> SUBSET CapabilityTag]
    /\ \A h \in Handler : IsFiniteSet(RulesOf[h])

VARIABLES
    configuration,   \* m_configuration: the handler of each rule, or None
    referenceCount,  \* m_handlerReferenceCounts, 0 for a handler not listed
    mutex,           \* the thread that holds m_mutex between two steps
    shutdownMutex,   \* the thread that holds RequiresShutdown::m_mutex
    isShutdown,      \* m_isShutdown
    thread,          \* what each thread is doing
    lastWord         \* history: what happened to each handler last

vars == <<configuration, referenceCount, mutex, shutdownMutex, isShutdown, thread, lastWord>>

(***************************************************************************)
(* Stages of a thread:                                                     *)
(*   adding     in addDirectiveHandler(), before isShutdown()              *)
(*   scoped     has counted its call in a HandlerCallScope                 *)
(*   calling    inside the handler's method                                *)
(*   notifying  about to call the handler's onDeregistered()               *)
(*   stopping   in doShutdown(), before it takes m_mutex                   *)
(*   releasing  in doShutdown(), about to notify the released handlers     *)
(***************************************************************************)
Idle == [stage |-> "idle", handler |-> None, released |-> <<>>]

Busy(stage, h) == [stage |-> stage, handler |-> h, released |-> <<>>]

Goes(t, to) == thread' = [thread EXCEPT ![t] = to]

Hears(h, word) == lastWord' = [lastWord EXCEPT ![h] = word]

RulesMappedTo(h) == {rule \in CapabilityTag : configuration[rule] = h}

Configured == {rule \in CapabilityTag : configuration[rule] # None}

Registered == {h \in Handler : RulesMappedTo(h) # {}}

Init ==
    /\ configuration = [rule \in CapabilityTag |-> None]
    /\ referenceCount = [h \in Handler |-> 0]
    /\ mutex = None /\ shutdownMutex = None
    /\ isShutdown = FALSE
    /\ thread = [t \in Thread |-> Idle]
    /\ lastWord = [h \in Handler |-> "nothing"]

-----------------------------------------------------------------------------
(***************************************************************************)
(* addDirectiveHandler()                                                   *)
(***************************************************************************)
StartAdding(t, h) ==
    /\ thread[t] = Idle
    /\ mutex = None
    /\ mutex' = t
    /\ Goes(t, Busy("adding", h))
    /\ UNCHANGED <<configuration, referenceCount, shutdownMutex, isShutdown, lastWord>>

\* Mutant: rules that are in use are not looked for.
AnyValid(h) == \A rule \in RulesOf[h] : IsValidRule(rule)

MayBeAdded(h) ==
    \A rule \in RulesOf[h] : IsValidRule(rule) /\ configuration[rule] = None

\* Mutant: a router that has been shut down is not looked for.
NeverShutdown == FALSE

AddIsLate == isShutdown

MutexReleased == None

FinishAdding(t) ==
    /\ thread[t].stage = "adding"
    /\ shutdownMutex = None
    /\ mutex' = MutexReleased
    /\ Goes(t, Idle)
    /\ UNCHANGED <<shutdownMutex, isShutdown>>

RefuseHandler(t) ==
    /\ FinishAdding(t)
    /\ AddIsLate \/ ~MayBeAdded(thread[t].handler)
    /\ UNCHANGED <<configuration, referenceCount, lastWord>>

AddHandler(t) ==
    LET h == thread[t].handler
    IN  /\ FinishAdding(t)
        /\ ~AddIsLate /\ MayBeAdded(h)
        /\ configuration' = [rule \in CapabilityTag |->
                                 IF rule \in RulesOf[h] THEN h ELSE configuration[rule]]
        /\ referenceCount' = [referenceCount EXCEPT ![h] = @ + Cardinality(RulesOf[h])]
        /\ Hears(h, "added")

-----------------------------------------------------------------------------
(***************************************************************************)
(* removeDirectiveHandler(): refused, without effect, unless all the rules *)
(* of the handler are mapped to it.                                        *)
(***************************************************************************)
MayBeRemoved(h) == \A rule \in RulesOf[h] : configuration[rule] = h

Without(hs) == [rule \in CapabilityTag |->
                    IF \E h \in hs : rule \in RulesOf[h] THEN None ELSE configuration[rule]]

\* Mutant: one reference is given back per handler, not per rule.
CountLessOne(hs) ==
    [h \in Handler |-> referenceCount[h] - (IF h \in hs THEN 1 ELSE 0)]

CountWithout(hs) ==
    [h \in Handler |-> referenceCount[h] - (IF h \in hs THEN Cardinality(RulesOf[h]) ELSE 0)]

RemoveHandler(t, h) ==
    /\ thread[t] = Idle
    /\ mutex = None
    /\ MayBeRemoved(h)
    /\ configuration' = Without({h})
    /\ referenceCount' = CountWithout({h})
    /\ Goes(t, Busy("notifying", h))
    /\ UNCHANGED <<mutex, shutdownMutex, isShutdown, lastWord>>

\* onDeregistered(), called without m_mutex.
NotifyHandler(t) ==
    /\ thread[t].stage = "notifying"
    /\ Hears(thread[t].handler, "deregistered")
    /\ Goes(t, Idle)
    /\ UNCHANGED <<configuration, referenceCount, mutex, shutdownMutex, isShutdown>>

-----------------------------------------------------------------------------
(***************************************************************************)
(* preHandleDirective(), handleDirective(), handleDirectiveImmediately()   *)
(* and cancelDirective(): each looks up the handler and calls its method   *)
(* in a HandlerCallScope.  Without a handler they return false.            *)
(***************************************************************************)
\* incrementHandlerReferenceCountLocked()
Counted(h) == [referenceCount EXCEPT ![h] = @ + 1]

StartCall(t, target) ==
    \E rule \in CapabilityTag :
        LET h == configuration[rule]
        IN  /\ thread[t] = Idle
            /\ mutex = None
            /\ IsFirstMatch(rule, Configured, target)
            /\ referenceCount' = Counted(h)
            /\ Goes(t, Busy("scoped", h))
            /\ UNCHANGED <<configuration, mutex, shutdownMutex, isShutdown, lastWord>>

EnterHandler(t) ==
    /\ thread[t].stage = "scoped"
    /\ Hears(thread[t].handler, "called")
    /\ Goes(t, [thread[t] EXCEPT !.stage = "calling"])
    /\ UNCHANGED <<configuration, referenceCount, mutex, shutdownMutex, isShutdown>>

\* decrementHandlerReferenceCountLocked(): who gives back the last reference
\* notifies the handler.
\* Mutant: nobody does.
AfterCallSilent(h) == Idle

AfterCall(h) == IF referenceCount[h] = 1 THEN Busy("notifying", h) ELSE Idle

EndCall(t) ==
    LET h == thread[t].handler
    IN  /\ thread[t].stage = "calling"
        /\ mutex = None
        /\ referenceCount' = [referenceCount EXCEPT ![h] = @ - 1]
        /\ Goes(t, AfterCall(h))
        /\ UNCHANGED <<configuration, mutex, shutdownMutex, isShutdown, lastWord>>

-----------------------------------------------------------------------------
(***************************************************************************)
(* shutdown()                                                              *)
(***************************************************************************)
BeginShutdown(t) ==
    /\ thread[t] = Idle
    /\ shutdownMutex = None
    /\ ~isShutdown
    /\ shutdownMutex' = t
    /\ Goes(t, Busy("stopping", None))
    /\ UNCHANGED <<configuration, referenceCount, mutex, isShutdown, lastWord>>

\* The first half of doShutdown(): every handler is removed as above, in the
\* order in which m_configuration happens to list them, and then all rules.
ReleaseHandlers(t) ==
    LET hs == {h \in Registered : MayBeRemoved(h)}
    IN  /\ thread[t].stage = "stopping"
        /\ mutex = None
        /\ configuration' = [rule \in CapabilityTag |-> None]
        /\ referenceCount' = CountWithout(hs)
        /\ \E released \in SetToSeqs(hs) :
               Goes(t, [stage |-> "releasing", handler |-> None, released |-> released])
        /\ UNCHANGED <<mutex, shutdownMutex, isShutdown, lastWord>>

NotifyReleased(t) ==
    /\ thread[t].stage = "releasing"
    /\ thread[t].released # <<>>
    /\ Hears(Head(thread[t].released), "deregistered")
    /\ Goes(t, [thread[t] EXCEPT !.released = Tail(@)])
    /\ UNCHANGED <<configuration, referenceCount, mutex, shutdownMutex, isShutdown>>

EndShutdown(t) ==
    /\ thread[t].stage = "releasing"
    /\ thread[t].released = <<>>
    /\ isShutdown' = TRUE
    /\ shutdownMutex' = None
    /\ Goes(t, Idle)
    /\ UNCHANGED <<configuration, referenceCount, mutex, lastWord>>

-----------------------------------------------------------------------------
\* What a thread does once it has begun.
Continue(t) ==
    \/ RefuseHandler(t) \/ AddHandler(t) \/ NotifyHandler(t)
    \/ EnterHandler(t) \/ EndCall(t)
    \/ ReleaseHandlers(t) \/ NotifyReleased(t) \/ EndShutdown(t)

Next ==
    \E t \in Thread :
        \/ \E h \in Handler : StartAdding(t, h) \/ RemoveHandler(t, h)
        \/ \E target \in Target : StartCall(t, target)
        \/ BeginShutdown(t)
        \/ Continue(t)

Spec == Init /\ [][Next]_vars

\* Threads run, the methods of the handlers return ("MUST return quickly",
\* DirectiveHandlerInterface.h), and a mutex that is free again and again is
\* got some day; nothing says that a call is ever made.
Fairness == \A t \in Thread : SF_vars(Continue(t))

FairSpec == Spec /\ Fairness

-----------------------------------------------------------------------------
\* The values that each variable takes.
TypeOK ==
    /\ configuration \in [CapabilityTag -> Handler \cup {None}]
    /\ referenceCount \in [Handler -> Nat]
    /\ mutex \in Thread \cup {None}
    /\ shutdownMutex \in Thread \cup {None}
    /\ isShutdown \in BOOLEAN
    /\ thread \in [Thread -> [stage : {"idle", "adding", "scoped", "calling", "notifying",
                                       "stopping", "releasing"},
                              handler : Handler \cup {None}, released : Seq(Handler)]]
    /\ lastWord \in [Handler -> {"nothing", "added", "called", "deregistered"}]

(***************************************************************************)
(* Safety.                                                                 *)
(***************************************************************************)
Callers(h) == {t \in Thread : thread[t].stage \in {"scoped", "calling"} /\ thread[t].handler = h}

\* The reference count of a handler is the number of its rules and of the calls
\* in progress, as the comment on m_handlerReferenceCounts says: whichever
\* threads add, remove and call it meanwhile.
CountIsUse ==
    \A h \in Handler :
        referenceCount[h] = Cardinality(RulesMappedTo(h)) + Cardinality(Callers(h))

\* A handler is registered with all of its rules or with none: a call of
\* addDirectiveHandler() or removeDirectiveHandler() that is refused has no
\* effect, and two handlers that claim the same rule never share the rest.
AllRulesOrNone ==
    \A h \in Registered : RulesMappedTo(h) = RulesOf[h]

Notifies(t, h) ==
    \/ thread[t].stage = "notifying" /\ thread[t].handler = h
    \/ h \in Range(thread[t].released)

\* A handler that is out of use hears of it after everything else: its last
\* call is onDeregistered(), already made or about to be.
LastWordIsDeregistered ==
    \A h \in Handler :
        referenceCount[h] = 0 =>
            \/ lastWord[h] \in {"nothing", "deregistered"}
            \/ \E t \in Thread : Notifies(t, h)

\* A directive is routed by a most specific one of the rules that apply to it,
\* and finds a handler whenever any rule applies (DirectiveRoutingRule.h).
RoutedByMostSpecific ==
    \A target \in Target :
        /\ \A rule \in CapabilityTag :
               IsFirstMatch(rule, Configured, target) => IsMostSpecific(rule, Configured, target)
        /\ (\E rule \in Configured : Applies(rule, target)) =>
               \E rule \in Configured : IsFirstMatch(rule, Configured, target)

\* Once shutdown() has released the handlers, none is registered again, even by
\* a thread that was inside addDirectiveHandler() at the time.
NothingAddedAfterShutdown ==
    isShutdown \/ (\E t \in Thread : thread[t].stage = "releasing") => Registered = {}

(***************************************************************************)
(* Liveness, under FairSpec.                                               *)
(***************************************************************************)
\* shutdown() returns once it has been called.
ShutdownReturns ==
    \A t \in Thread : thread[t].stage = "stopping" ~> isShutdown

\* After a shutdown every handler that was ever added is told that it is out of
\* use, once the calls in progress have returned.
ShutdownReleasesHandlers ==
    isShutdown ~> \A h \in Handler :
                      referenceCount[h] = 0 /\ lastWord[h] \in {"nothing", "deregistered"}
=============================================================================
