-------------------------- MODULE DirectiveProcessor --------------------------
(***************************************************************************)
(* The DirectiveProcessor of the ADSL component: it pre-handles, queues,   *)
(* handles and cancels the directives of the current dialog.               *)
(*                                                                         *)
(* Four parties run in parallel and share the state under m_mutex:         *)
(*   - the receiving thread, inside onDirective();                         *)
(*   - the processing thread, inside processingLoop();                     *)
(*   - the directive handlers, which report results from any thread;       *)
(*   - the owner, which calls setDialogRequestId(), disable(), enable()    *)
(*     and shutdown().                                                     *)
(* A step is one critical section of m_mutex, one call on the router made  *)
(* between two of them, or one return from such a call.                    *)
(***************************************************************************)
EXTENDS Integers, Sequences, FiniteSets, SequencesExt

CONSTANTS
    Directive,   \* the directives AVS sends, each a distinct message
    DialogId,    \* the non-empty dialogRequestId values
    NoDialog,    \* the empty dialogRequestId
    None,        \* a null shared_ptr<AVSDirective>
    DialogOf,    \* the dialogRequestId of a directive
    PolicyOf     \* the BlockingPolicy a directive's handler is registered with

(***************************************************************************)
(* A BlockingPolicy is the set of mediums used and whether they are kept   *)
(* until completion.  The default-constructed policy, which getPolicy()    *)
(* returns when no handler is registered, is the only invalid one.         *)
(***************************************************************************)
Medium        == {"AUDIO", "VISUAL"}
Policy        == [mediums : SUBSET Medium, isBlocking : BOOLEAN]
DefaultPolicy == [mediums |-> {}, isBlocking |-> TRUE]

ASSUME ProcessorAssumption ==
    /\ None \notin Directive
    /\ NoDialog \notin DialogId
    /\ DialogOf \in [Directive -> DialogId \cup {NoDialog}]
    /\ PolicyOf \in [Directive -> Policy \ {DefaultPolicy}]

VARIABLES
    dialogRequestId,           \* m_dialogRequestId
    isEnabled,                 \* m_isEnabled
    isShuttingDown,            \* m_isShuttingDown
    registered,                \* m_handle is a key of m_handleMap
    joined,                    \* shutdown() has joined the processing thread
    directiveBeingPreHandled,  \* m_directiveBeingPreHandled
    handlingQueue,             \* the items of m_handlingQueue, see Before
    directivesBeingHandled,    \* m_directivesBeingHandled, by medium
    cancelingQueue,            \* m_cancelingQueue
    pc,                        \* where the processing thread is
    progress,                  \* cancelHandled || queuedHandled of this pass
    canceling,                 \* the swapped-out queue being cancelled
    handling,                  \* the item popped by the processing thread
    receiving,                 \* the onDirective() call in progress
    result,                    \* the DirectiveHandlerResult of each directive
    offered,                   \* history: directives passed to onDirective()
    arrived,                   \* history: items in the order they were queued
    trace                      \* history: the calls made on the router

state   == <<dialogRequestId, directiveBeingPreHandled, handlingQueue,
             directivesBeingHandled, cancelingQueue>>
owner   == <<isEnabled, isShuttingDown, registered, joined>>
thread  == <<pc, progress, canceling, handling>>
history == <<offered, arrived, trace>>
vars    == <<state, owner, thread, receiving, result, history>>

Item     == [directive : Directive, policy : Policy]
Idle     == [stage |-> "idle", directive |-> None, policy |-> DefaultPolicy]
NoItem   == [directive |-> None, policy |-> DefaultPolicy]

(***************************************************************************)
(* The processing thread:                                                  *)
(*   wait       runnable, about to evaluate the wake predicate             *)
(*   asleep     blocked in m_wakeProcessingLoop.wait()                     *)
(*   cancel     holds m_mutex, at processCancelingQueueLocked()            *)
(*   canceling  inside the calls to cancelDirective()                      *)
(*   handle     holds m_mutex, at the loop of handleQueuedDirectivesLocked *)
(*   toHandle   has released m_mutex, before router.handleDirective()      *)
(*   handling   inside router.handleDirective()                            *)
(*   exited     has left processingLoop()                                  *)
(***************************************************************************)
MutexFree == pc \notin {"cancel", "handle"}

IsQueued(d) == \E item \in handlingQueue : item.directive = d
DirectivesOf(items) == {item.directive : item \in items}

\* m_handlingQueue only grows at its back and loses items anywhere: it is the
\* set of its items, in the order in which they were pushed.
Before(d, e) ==
    \E i, j \in DOMAIN arrived :
        i < j /\ arrived[i].directive = d /\ arrived[j].directive = e

\* getNextUnblockedDirectiveLocked(): an item may be handled when none of its
\* mediums is held, nor used by an earlier blocking item that is still queued.
\* The loop returns the first such item, in the order of arrival.
\* Mutant: only the mediums that are held count.
UnblockedByHoldersOnly(item) ==
    \A m \in item.policy.mediums : directivesBeingHandled[m] = None

Unblocked(item) ==
    \A m \in item.policy.mediums :
        /\ directivesBeingHandled[m] = None
        /\ \A other \in handlingQueue :
               /\ Before(other.directive, item.directive)
               /\ other.policy.isBlocking
               => m \notin other.policy.mediums

UnblockedItems == {item \in handlingQueue : Unblocked(item)}

IsNextUnblocked(item) ==
    /\ item \in UnblockedItems
    /\ \A other \in UnblockedItems : ~Before(other.directive, item.directive)

\* The predicate of m_wakeProcessingLoop.wait().
\* Mutant: one disjunct forgotten.
WakeUnlessCanceling == UnblockedItems # {} \/ isShuttingDown

Wake == cancelingQueue # <<>> \/ UnblockedItems # {} \/ isShuttingDown

\* m_wakeProcessingLoop.notifyOne(), under a condition: it is lost when the
\* processing thread is not asleep.
\* Mutant: no notification.
NotifyNever(condition) == pc' = IF condition THEN pc ELSE pc

NotifyIf(condition) ==
    pc' = IF condition /\ pc = "asleep" THEN "wait" ELSE pc

(***************************************************************************)
(* Moving directives to m_cancelingQueue.  Each operator takes the queues  *)
(* as its caller has left them, and sets what becomes of them.             *)
(***************************************************************************)
DirectivesOfDialog(id) ==
    IF id = NoDialog THEN {} ELSE {d \in Directive : DialogOf[d] = id}

Holders(held) == {held[m] : m \in Medium} \ {None}

\* Mutant: the audio medium is forgotten.
ReleaseVisual(held, gone) ==
    [held EXCEPT !["VISUAL"] = IF @ \in gone THEN None ELSE @]

Release(held, gone) == [m \in Medium |-> IF held[m] \in gone THEN None ELSE held[m]]

\* The order in which a std::set of pointers lists its members: any.
AnyOrder(S) == SetToSeqs(S)

\* The order in which the deque lists its members: that of arrival.
ArrivalOrder(S) == {s \in SetToSeqs(S) : \A i, j \in DOMAIN s : i < j => ~Before(s[j], s[i])}

\* The doomed directives move to the back of the canceling queue cq: those of
\* `first`, the holders of mediums, the queued ones, and those of `last`.
\* Mutant: the queued ones stay queued as well.
CancelWithoutDequeuing(doomed, cq, first, hq, held, last) ==
    /\ handlingQueue' = hq
    /\ directivesBeingHandled' = Release(held, doomed)
    /\ \E freed \in AnyOrder(Holders(held) \cap doomed),
          queued \in ArrivalOrder(DirectivesOf(hq) \cap doomed) :
          cancelingQueue' = cq \o first \o freed \o queued \o last

QueueForCancellation(doomed, cq, first, hq, held, last) ==
    /\ handlingQueue' = {item \in hq : item.directive \notin doomed}
    /\ directivesBeingHandled' = Release(held, doomed)
    /\ \E freed \in AnyOrder(Holders(held) \cap doomed),
          queued \in ArrivalOrder(DirectivesOf(hq) \cap doomed) :
          cancelingQueue' = cq \o first \o freed \o queued \o last

OneIf(d, condition) == IF condition THEN <<d>> ELSE <<>>

\* scrubDialogRequestIdLocked(), but for m_dialogRequestId and the wake-up.
ScrubQueues(id, cq, pre, hq, held) ==
    LET doomed == DirectivesOfDialog(id)
    IN  /\ QueueForCancellation(doomed, cq, OneIf(pre, pre \in doomed), hq, held, <<>>)
        /\ directiveBeingPreHandled' = IF pre \in doomed THEN None ELSE pre

\* The current id after scrubDialogRequestIdLocked(id).
\* Mutant: it is cleared whichever dialog failed.
ScrubbedAlways(id) == IF id = NoDialog THEN dialogRequestId ELSE NoDialog

ScrubbedId(id) == IF id = dialogRequestId THEN NoDialog ELSE dialogRequestId

\* queueAllDirectivesForCancellationLocked(); its callers notify in any case.
QueueAllForCancellation ==
    /\ dialogRequestId' = NoDialog
    /\ QueueForCancellation(Directive, cancelingQueue, <<>>, handlingQueue,
           directivesBeingHandled,
           OneIf(directiveBeingPreHandled, directiveBeingPreHandled # None))
    /\ directiveBeingPreHandled' = None

(***************************************************************************)
(* removeDirectiveLocked(), as the queues it leaves behind.  A directive   *)
(* is in the canceling queue at most once.                                 *)
(***************************************************************************)
Erase(q, d) ==
    IF \E i \in DOMAIN q : q[i] = d
    THEN LET i == CHOOSE i \in DOMAIN q : q[i] = d
         IN  SubSeq(q, 1, i - 1) \o SubSeq(q, i + 1, Len(q))
    ELSE q

CancelingQueueWithout(d) == Erase(cancelingQueue, d)
PreHandledWithout(d)     == IF directiveBeingPreHandled = d THEN None
                            ELSE directiveBeingPreHandled
HandlingQueueWithout(d)  == {item \in handlingQueue : item.directive # d}
BeingHandledWithout(d)   == Release(directivesBeingHandled, {d})
\* Mutant: the handling queue is forgotten.
CancelsLeftWithout(d)    == CancelingQueueWithout(d) # <<>>

WorkLeftWithout(d)       == \/ CancelingQueueWithout(d) # <<>>
                            \/ HandlingQueueWithout(d) # {}

-----------------------------------------------------------------------------
Init ==
    /\ dialogRequestId = NoDialog
    /\ isEnabled = TRUE
    /\ isShuttingDown = FALSE
    /\ registered = TRUE
    /\ joined = FALSE
    /\ directiveBeingPreHandled = None
    /\ handlingQueue = {}
    /\ directivesBeingHandled = [m \in Medium |-> None]
    /\ cancelingQueue = <<>>
    /\ pc = "wait"
    /\ progress = FALSE
    /\ canceling = <<>>
    /\ handling = NoItem
    /\ receiving = Idle
    /\ result = [d \in Directive |-> "none"]
    /\ offered = {}
    /\ arrived = <<>>
    /\ trace = [d \in Directive |-> <<>>]

Called(d, call) == trace' = [trace EXCEPT ![d] = Append(@, call)]

-----------------------------------------------------------------------------
(***************************************************************************)
(* onDirective().  m_onDirectiveMutex makes its calls strictly successive. *)
(***************************************************************************)
Offer(d) ==
    /\ MutexFree
    /\ receiving = Idle
    /\ d \notin offered
    /\ offered' = offered \cup {d}

IsAccepting == ~isShuttingDown /\ isEnabled

IsOfCurrentDialog(d) == DialogOf[d] \in {NoDialog, dialogRequestId}

\* Shutting down or disabled: returns false.
RefuseDirective(d) ==
    /\ Offer(d)
    /\ ~IsAccepting
    /\ UNCHANGED <<state, owner, thread, receiving, result, arrived, trace>>

\* Not of the current dialog: dropped, and reported as consumed.
DropDirective(d) ==
    /\ Offer(d)
    /\ IsAccepting
    /\ ~IsOfCurrentDialog(d)
    /\ UNCHANGED <<state, owner, thread, receiving, result, arrived, trace>>

\* Ends the first critical section.  The policy read here is the default one
\* if no handler is registered at this moment.
AcceptDirective(d) ==
    /\ Offer(d)
    /\ IsAccepting
    /\ IsOfCurrentDialog(d)
    /\ directiveBeingPreHandled' = d
    /\ \E policy \in {PolicyOf[d], DefaultPolicy} :
           receiving' = [stage |-> "toPreHandle", directive |-> d, policy |-> policy]
    /\ UNCHANGED <<dialogRequestId, handlingQueue, directivesBeingHandled,
                   cancelingQueue, owner, thread, result, arrived, trace>>

\* router.preHandleDirective() finds a handler, and hands it the result object,
\* or it finds none.
PreHandleDirective ==
    /\ receiving.stage = "toPreHandle"
    /\ receiving' = [receiving EXCEPT !.stage = "preHandling"]
    /\ \E handlerFound \in BOOLEAN :
           result' = IF handlerFound THEN [result EXCEPT ![receiving.directive] = "open"]
                     ELSE result
    /\ Called(receiving.directive, "preHandle")
    /\ UNCHANGED <<state, owner, thread, offered, arrived>>

PreHandled == result[receiving.directive] # "none"
\* Mutant: onDirective() does not look whether the directive was removed.
NeverRemoved == FALSE

WasRemoved == directiveBeingPreHandled = None

\* The second critical section: the directive was completed, failed or
\* cancelled in the meantime, or there is no handler (and onDirective()
\* returns false) ...
AbandonDirective ==
    /\ MutexFree
    /\ receiving.stage = "preHandling"
    /\ WasRemoved \/ ~PreHandled
    /\ directiveBeingPreHandled' = None
    /\ receiving' = Idle
    /\ UNCHANGED <<dialogRequestId, handlingQueue, directivesBeingHandled,
                   cancelingQueue, owner, thread, result, history>>

\* ... or it joins the handling queue.
EnqueueDirective ==
    LET item == [directive |-> receiving.directive, policy |-> receiving.policy]
    IN  /\ MutexFree
        /\ receiving.stage = "preHandling"
        /\ ~WasRemoved /\ PreHandled
        /\ directiveBeingPreHandled' = None
        /\ handlingQueue' = handlingQueue \cup {item}
        /\ arrived' = Append(arrived, item)
        /\ NotifyIf(TRUE)
        /\ receiving' = Idle
        /\ UNCHANGED <<dialogRequestId, directivesBeingHandled, cancelingQueue,
                       owner, progress, canceling, handling, result, offered, trace>>

-----------------------------------------------------------------------------
(***************************************************************************)
(* The owner's calls.                                                      *)
(***************************************************************************)
SetDialogRequestId(id) ==
    /\ MutexFree
    /\ id # dialogRequestId
    /\ ScrubQueues(dialogRequestId, cancelingQueue, directiveBeingPreHandled,
                   handlingQueue, directivesBeingHandled)
    /\ dialogRequestId' = id
    /\ NotifyIf(cancelingQueue' # cancelingQueue)
    /\ UNCHANGED <<owner, progress, canceling, handling, receiving, result, history>>

Disable ==
    /\ MutexFree
    /\ QueueAllForCancellation
    /\ isEnabled' = FALSE
    /\ NotifyIf(TRUE)
    /\ UNCHANGED <<isShuttingDown, registered, joined, progress, canceling,
                   handling, receiving, result, history>>

Enable ==
    /\ MutexFree
    /\ isEnabled' = TRUE
    /\ UNCHANGED <<isShuttingDown, registered, joined, state, thread, receiving,
                   result, history>>

\* shutdown() withdraws the handle first, under m_handleMapMutex, ...
Unregister ==
    /\ registered
    /\ registered' = FALSE
    /\ UNCHANGED <<isEnabled, isShuttingDown, joined, state, thread, receiving,
                   result, history>>

\* ... then cancels everything, under m_mutex, ...
BeginShutdown ==
    /\ MutexFree
    /\ ~registered /\ ~isShuttingDown
    /\ QueueAllForCancellation
    /\ isShuttingDown' = TRUE
    /\ NotifyIf(TRUE)
    /\ UNCHANGED <<isEnabled, registered, joined, progress, canceling, handling,
                   receiving, result, history>>

\* ... and waits for the processing thread.
Join ==
    /\ isShuttingDown /\ ~joined
    /\ pc = "exited"
    /\ joined' = TRUE
    /\ UNCHANGED <<isEnabled, isShuttingDown, registered, state, thread, receiving,
                   result, history>>

-----------------------------------------------------------------------------
(***************************************************************************)
(* The handlers report, once per result object and from any thread.        *)
(* A report that finds the handle withdrawn is ignored.                    *)
(***************************************************************************)
Report(d, outcome) ==
    /\ result[d] = "open"
    /\ result' = [result EXCEPT ![d] = outcome]

SetCompleted(d) ==
    /\ Report(d, "completed")
    /\ registered
    /\ MutexFree
    /\ cancelingQueue' = CancelingQueueWithout(d)
    /\ directiveBeingPreHandled' = PreHandledWithout(d)
    /\ handlingQueue' = HandlingQueueWithout(d)
    /\ directivesBeingHandled' = BeingHandledWithout(d)
    /\ NotifyIf(WorkLeftWithout(d))
    /\ UNCHANGED <<dialogRequestId, owner, progress, canceling, handling,
                   receiving, history>>

SetFailed(d) ==
    /\ Report(d, "failed")
    /\ registered
    /\ MutexFree
    /\ ScrubQueues(DialogOf[d], CancelingQueueWithout(d), PreHandledWithout(d),
                   HandlingQueueWithout(d), BeingHandledWithout(d))
    /\ dialogRequestId' = ScrubbedId(DialogOf[d])
    /\ NotifyIf(WorkLeftWithout(d) \/ cancelingQueue' # CancelingQueueWithout(d))
    /\ UNCHANGED <<owner, progress, canceling, handling, receiving, history>>

IgnoreReport(d) ==
    /\ \E outcome \in {"completed", "failed"} : Report(d, outcome)
    /\ ~registered
    /\ UNCHANGED <<state, owner, thread, receiving, history>>

-----------------------------------------------------------------------------
(***************************************************************************)
(* processingLoop().                                                       *)
(***************************************************************************)
\* wait(lock, wake): the thread goes on when the predicate holds, and sleeps
\* until it is notified, or wakes up on its own, otherwise.
WaitForWork == pc' = IF Wake THEN "cancel" ELSE "asleep"

EvaluateWake ==
    /\ pc = "wait"
    /\ WaitForWork
    /\ UNCHANGED <<state, owner, progress, canceling, handling, receiving, result, history>>

SpuriousWakeup ==
    /\ pc = "asleep"
    /\ pc' = "wait"
    /\ UNCHANGED <<state, owner, progress, canceling, handling, receiving, result, history>>

\* processCancelingQueueLocked()
TakeCancelingQueue ==
    /\ pc = "cancel"
    /\ IF cancelingQueue = <<>>
       THEN /\ progress' = FALSE
            /\ pc' = "handle"
            /\ UNCHANGED <<cancelingQueue, canceling>>
       ELSE /\ progress' = TRUE
            /\ pc' = "canceling"
            /\ canceling' = cancelingQueue
            /\ cancelingQueue' = <<>>
    /\ UNCHANGED <<dialogRequestId, directiveBeingPreHandled, handlingQueue,
                   directivesBeingHandled, owner, handling, receiving, result, history>>

CancelDirective ==
    /\ pc = "canceling" /\ canceling # <<>>
    /\ Called(Head(canceling), "cancel")
    /\ canceling' = Tail(canceling)
    /\ UNCHANGED <<state, owner, pc, progress, handling, receiving, result, offered, arrived>>

AllCancelled ==
    /\ pc = "canceling" /\ canceling = <<>>
    /\ pc' = "handle"
    /\ UNCHANGED <<state, owner, progress, canceling, handling, receiving, result, history>>

\* handleQueuedDirectivesLocked(): setDirectiveBeingHandledLocked() and erase.
TakeDirective ==
    /\ pc = "handle"
    /\ \E item \in handlingQueue :
           /\ IsNextUnblocked(item)
           /\ directivesBeingHandled' =
                  [m \in Medium |-> IF m \in item.policy.mediums THEN item.directive
                                    ELSE directivesBeingHandled[m]]
           /\ handlingQueue' = handlingQueue \ {item}
           /\ handling' = item
    /\ progress' = TRUE
    /\ pc' = "toHandle"
    /\ UNCHANGED <<dialogRequestId, directiveBeingPreHandled, cancelingQueue,
                   owner, canceling, receiving, result, history>>

HandleDirective ==
    /\ pc = "toHandle"
    /\ pc' = "handling"
    /\ Called(handling.directive, "handle")
    /\ UNCHANGED <<state, owner, progress, canceling, handling, receiving, result,
                   offered, arrived>>

\* clearDirectiveBeingHandledLocked(policy) frees the mediums of the policy,
\* whoever holds them.
\* Mutant: all mediums are freed.
ClearAllMediums(policy) == [m \in Medium |-> None]

ClearBeingHandled(policy) ==
    [m \in Medium |-> IF m \in policy.mediums THEN None ELSE directivesBeingHandled[m]]

\* handleDirective() returned true: a non-blocking directive frees its mediums.
HandleSucceeded ==
    /\ pc = "handling"
    /\ directivesBeingHandled' = IF handling.policy.isBlocking THEN directivesBeingHandled
                                 ELSE ClearBeingHandled(handling.policy)
    /\ handling' = NoItem
    /\ pc' = "handle"
    /\ UNCHANGED <<dialogRequestId, directiveBeingPreHandled, handlingQueue,
                   cancelingQueue, owner, progress, canceling, receiving, result, history>>

\* It returned false, by the handler's answer or for want of a handler: the
\* dialog of the directive is scrubbed too.
HandleRejected ==
    LET d == handling.directive
    IN  /\ pc = "handling"
        /\ ScrubQueues(DialogOf[d], cancelingQueue, directiveBeingPreHandled, handlingQueue,
                       ClearBeingHandled(handling.policy))
        /\ dialogRequestId' = ScrubbedId(DialogOf[d])
        /\ Called(d, "rejected")
        /\ handling' = NoItem
        /\ pc' = "handle"
        /\ UNCHANGED <<owner, progress, canceling, receiving, result, offered, arrived>>

\* Nothing unblocked is left: another pass if this one did something, else the
\* thread exits or waits again.
EndPass ==
    /\ pc = "handle"
    /\ UnblockedItems = {}
    /\ IF progress THEN pc' = "cancel"
       ELSE IF isShuttingDown THEN pc' = "exited"
       ELSE WaitForWork
    /\ UNCHANGED <<state, owner, progress, canceling, handling, receiving, result, history>>

-----------------------------------------------------------------------------
ProcessingThread ==
    \/ EvaluateWake \/ TakeCancelingQueue \/ CancelDirective \/ AllCancelled
    \/ TakeDirective \/ HandleDirective \/ HandleSucceeded \/ HandleRejected
    \/ EndPass

ReceivingThread ==
    \/ \E d \in Directive : RefuseDirective(d) \/ DropDirective(d) \/ AcceptDirective(d)
    \/ PreHandleDirective \/ AbandonDirective \/ EnqueueDirective

Handler(d) == SetCompleted(d) \/ SetFailed(d) \/ IgnoreReport(d)

Owner ==
    \/ \E id \in DialogId \cup {NoDialog} : SetDialogRequestId(id)
    \/ Disable \/ Enable
    \/ Unregister \/ BeginShutdown \/ Join

Next ==
    \/ ProcessingThread \/ SpuriousWakeup
    \/ ReceivingThread
    \/ \E d \in Directive : Handler(d)
    \/ Owner

Spec == Init /\ [][Next]_vars

\* A handler reports the result of a directive whose handleDirective() it has
\* received: what liveness asks of it, and nothing else does.
HandlerFinishes(d) ==
    /\ "handle" \in Range(trace[d])
    /\ Handler(d)

-----------------------------------------------------------------------------
\* The values that each variable takes.
TypeOK ==
    /\ dialogRequestId \in DialogId \cup {NoDialog}
    /\ isEnabled \in BOOLEAN /\ isShuttingDown \in BOOLEAN
    /\ registered \in BOOLEAN /\ joined \in BOOLEAN /\ progress \in BOOLEAN
    /\ directiveBeingPreHandled \in Directive \cup {None}
    /\ handlingQueue \subseteq Item /\ IsFiniteSet(handlingQueue)
    /\ directivesBeingHandled \in [Medium -> Directive \cup {None}]
    /\ cancelingQueue \in Seq(Directive)
    /\ pc \in {"wait", "asleep", "cancel", "canceling", "handle", "toHandle",
              "handling", "exited"}
    /\ canceling \in Seq(Directive)
    /\ handling \in Item \cup {NoItem}
    /\ receiving \in [stage : {"toPreHandle", "preHandling"}, directive : Directive,
                     policy : Policy] \cup {Idle}
    /\ result \in [Directive -> {"none", "open", "completed", "failed"}]
    /\ offered \subseteq Directive
    /\ arrived \in Seq(Item)
    /\ trace \in [Directive -> Seq({"preHandle", "handle", "rejected", "cancel"})]

-----------------------------------------------------------------------------
(***************************************************************************)
(* Safety.                                                                 *)
(***************************************************************************)
InCancellation(d) == d \in Range(cancelingQueue) \cup Range(canceling)

HasBeen(d, call) == call \in Range(trace[d])

\* Only directives of the current dialog, or of none, are pre-handled, queued
\* or hold a medium: those of an older dialog have all gone to cancellation,
\* whichever thread held them when the dialog changed (setDialogRequestId()).
CurrentDialogOnly ==
    \A d \in Directive :
        \/ d = directiveBeingPreHandled
        \/ IsQueued(d)
        \/ d \in Holders(directivesBeingHandled)
        => IsOfCurrentDialog(d)

\* The processing thread never sleeps while it has work: every critical section
\* that makes the wake predicate true also notifies (m_wakeProcessingLoop).
NoLostWakeup == pc = "asleep" => ~Wake

\* While the processor is disabled or shutting down nothing is pre-handled,
\* queued or holding a medium, and nothing gets there: a preHandleDirective()
\* call that began before cannot queue its directive when it returns.  When the
\* processing thread has exited, nothing is left to cancel either.
StoppedIsQuiet ==
    /\ ~IsAccepting => /\ directiveBeingPreHandled = None
                       /\ handlingQueue = {}
                       /\ Holders(directivesBeingHandled) = {}
    /\ pc = "exited" => isShuttingDown /\ cancelingQueue = <<>>

\* A directive is done with its mediums when its result is known, when it was
\* rejected, or when it has been given up for cancellation.
IsSettled(d) ==
    \/ result[d] \in {"completed", "failed"}
    \/ InCancellation(d)
    \/ HasBeen(d, "rejected") \/ HasBeen(d, "cancel")

Conflict(first, second) ==
    first.policy.isBlocking /\ first.policy.mediums \cap second.policy.mediums # {}

\* Handling of a directive is held up until every blocking directive that
\* arrived before it and uses one of its mediums is settled.
HandledInOrder ==
    \A i, j \in DOMAIN arrived :
        /\ i < j
        /\ Conflict(arrived[i], arrived[j])
        /\ HasBeen(arrived[j].directive, "handle")
        => IsSettled(arrived[i].directive)

\* A directive that was queued and whose handler has not reported is still
\* somewhere: queued, about to be handled, handled or settled; and as long as a
\* blocking directive is not settled it holds each of its mediums.
NoDirectiveForgotten ==
    \A i \in DOMAIN arrived :
        LET d == arrived[i].directive
            policy == arrived[i].policy
        IN  ~IsSettled(d) =>
                \/ arrived[i] \in handlingQueue
                \/ /\ HasBeen(d, "handle") \/ handling = arrived[i]
                   /\ policy.isBlocking =>
                          \A m \in policy.mediums : directivesBeingHandled[m] = d

\* The processor makes no call twice for a directive, calls handleDirective()
\* only after preHandleDirective(), and not once it has called cancelDirective()
\* (the contract of DirectiveHandlerInterface.h; it may call preHandleDirective()
\* after cancelDirective()).
CallsWellFormed ==
    \A d \in Directive :
        /\ IsInjective(trace[d])
        /\ \A i \in DOMAIN trace[d] :
               trace[d][i] = "handle" => i = 2 /\ trace[d][1] = "preHandle"

(***************************************************************************)
(* Liveness, under the fairness of the composition in DirectiveSequencer.  *)
(***************************************************************************)
\* Every directive that was queued is handled, cancelled or settled otherwise.
ArrivalsAreServed ==
    \A d \in Directive :
        d \in DirectivesOf(Range(arrived)) ~> HasBeen(d, "handle") \/ IsSettled(d)

\* A directive given up for cancellation gets its cancelDirective() call unless
\* its handler reports first.
CancellationsAreDelivered ==
    \A d \in Directive :
        InCancellation(d) ~> HasBeen(d, "cancel") \/ result[d] \in {"completed", "failed"}

(***************************************************************************)
(* The processor implements the life cycle of DirectiveLifecycle: whatever *)
(* the threads do, each directive goes through its stages in order, a      *)
(* dialog is given up as a whole, in one step, and the directives that     *)
(* hold mediums hold disjoint ones.                                        *)
(***************************************************************************)
StageOf(d) ==
    CASE d \notin offered                       -> "new"
      [] d = directiveBeingPreHandled           -> "preHandling"
      [] IsQueued(d)                            -> "queued"
      [] d \in Holders(directivesBeingHandled)  -> "handling"
      [] InCancellation(d)                      -> "canceling"
      [] OTHER                                  -> "gone"

QueuedPolicy(d) ==
    IF \E i \in DOMAIN arrived : arrived[i].directive = d
    THEN (CHOOSE item \in Range(arrived) : item.directive = d).policy
    ELSE DefaultPolicy

Lifecycle == INSTANCE DirectiveLifecycle WITH
    NoPolicy <- DefaultPolicy,
    dialog   <- dialogRequestId,
    stage    <- [d \in Directive |-> StageOf(d)],
    policy   <- [d \in Directive |-> QueuedPolicy(d)]

ImplementsLifecycle == Lifecycle!Spec
=============================================================================
