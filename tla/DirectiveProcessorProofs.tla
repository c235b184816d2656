----------------------- MODULE DirectiveProcessorProofs -----------------------
(***************************************************************************)
(* The DirectiveProcessor at work, for any set of directives and of        *)
(* dialogs and any assignment of dialogs and policies.  It keeps nothing   *)
(* of an old dialog; its thread misses no work, and leaves none behind     *)
(* when it exits; it forgets no directive, hands over those that share a   *)
(* medium in their order, makes well-formed calls for each of them, and    *)
(* implements the life cycle of DirectiveLifecycle.                        *)
(***************************************************************************)
EXTENDS DirectiveProcessor, SequenceTheorems, FiniteSetTheorems, FunctionTheorems, TLAPS

-----------------------------------------------------------------------------
(***************************************************************************)
(* The operators that move directives between the queues.                  *)
(***************************************************************************)
\* A listing of a finite set is a sequence over it.
LEMMA ListingIsSequence ==
    ASSUME NEW S, IsFiniteSet(S), NEW s \in SetToSeqs(S)
    PROVE  s \in Seq(S)
  <1>1. Cardinality(S) \in Nat
    BY FS_CardinalityType
  <1>2. s \in [1..Cardinality(S) -> S]
    BY DEF SetToSeqs
  <1> QED
    BY <1>1, <1>2, SeqDef

\* At most two directives hold mediums.
LEMMA HoldersAreDirectives ==
    ASSUME NEW held \in [Medium -> Directive \cup {None}]
    PROVE  Holders(held) \subseteq Directive /\ IsFiniteSet(Holders(held))
  <1>1. Holders(held) \subseteq {held["AUDIO"], held["VISUAL"]}
    BY DEF Holders, Medium
  <1>2. IsFiniteSet({held["AUDIO"]} \cup {held["VISUAL"]})
    BY FS_Singleton, FS_Union
  <1>3. {held["AUDIO"], held["VISUAL"]} = {held["AUDIO"]} \cup {held["VISUAL"]}
    OBVIOUS
  <1>4. IsFiniteSet(Holders(held))
    BY <1>1, <1>2, <1>3, FS_Subset
  <1> QED
    BY <1>4 DEF Holders

LEMMA ReleaseType ==
    ASSUME NEW held \in [Medium -> Directive \cup {None}], NEW gone
    PROVE  Release(held, gone) \in [Medium -> Directive \cup {None}]
  BY DEF Release

LEMMA EraseType ==
    ASSUME NEW q \in Seq(Directive), NEW d
    PROVE  Erase(q, d) \in Seq(Directive)
  <1>1. CASE \E i \in DOMAIN q : q[i] = d
    <2> DEFINE i == CHOOSE i \in DOMAIN q : q[i] = d
    <2>1. i \in 1..Len(q)
      BY <1>1, LenProperties
    <2>2. SubSeq(q, 1, i - 1) \in Seq(Directive) /\ SubSeq(q, i + 1, Len(q)) \in Seq(Directive)
      <3>1. Len(q) \in Nat /\ \A k \in 1..Len(q) : q[k] \in Directive
        BY LenProperties, ElementOfSeq
      <3>2. \A k \in 1..(i - 1) : q[k] \in Directive
        BY <2>1, <3>1
      <3>3. \A k \in (i + 1)..Len(q) : q[k] \in Directive
        BY <2>1, <3>1
      <3>4. i - 1 \in Int /\ i + 1 \in Int /\ Len(q) \in Int /\ 1 \in Int
        BY <2>1, <3>1
      <3> HIDE DEF i
      <3> QED
        BY <3>2, <3>3, <3>4, SubSeqProperties
    <2>3. Erase(q, d) = SubSeq(q, 1, i - 1) \o SubSeq(q, i + 1, Len(q))
      BY <1>1 DEF Erase
    <2> HIDE DEF i
    <2> QED
      BY <2>2, <2>3, ConcatProperties
  <1>2. CASE ~ \E i \in DOMAIN q : q[i] = d
    BY <1>2 DEF Erase
  <1> QED
    BY <1>1, <1>2

\* Directives moved to cancellation leave the queues well-typed.
LEMMA CancellationType ==
    ASSUME NEW doomed, NEW cq \in Seq(Directive), NEW first \in Seq(Directive),
           NEW hq \in SUBSET Item, IsFiniteSet(hq),
           NEW held \in [Medium -> Directive \cup {None}], NEW last \in Seq(Directive),
           QueueForCancellation(doomed, cq, first, hq, held, last)
    PROVE  /\ handlingQueue' \subseteq Item /\ IsFiniteSet(handlingQueue')
           /\ directivesBeingHandled' \in [Medium -> Directive \cup {None}]
           /\ cancelingQueue' \in Seq(Directive)
  <1>1. handlingQueue' \subseteq hq
    BY DEF QueueForCancellation
  <1>2. directivesBeingHandled' \in [Medium -> Directive \cup {None}]
    BY ReleaseType DEF QueueForCancellation
  <1>3. IsFiniteSet(Holders(held) \cap doomed) /\ Holders(held) \cap doomed \subseteq Directive
    BY HoldersAreDirectives, FS_Intersection
  <1>4. IsFiniteSet(DirectivesOf(hq) \cap doomed) /\ DirectivesOf(hq) \cap doomed \subseteq Directive
    <2> DEFINE directive == [item \in hq |-> item.directive]
    <2>1. directive \in Surjection(hq, DirectivesOf(hq))
      BY Fun_IsSurj DEF DirectivesOf
    <2>2. IsFiniteSet(DirectivesOf(hq))
      BY <2>1, FS_Surjection
    <2> QED
      BY <2>2, FS_Intersection DEF DirectivesOf, Item
  <1>5. PICK freed \in SetToSeqs(Holders(held) \cap doomed),
             queued \in SetToSeqs(DirectivesOf(hq) \cap doomed) :
             cancelingQueue' = cq \o first \o freed \o queued \o last
    BY DEF QueueForCancellation, AnyOrder, ArrivalOrder
  <1>6. freed \in Seq(Directive) /\ queued \in Seq(Directive)
    BY <1>3, <1>4, ListingIsSequence, SeqMonotonic
  <1>7. cancelingQueue' \in Seq(Directive)
    BY <1>5, <1>6, ConcatProperties
  <1> QED
    BY <1>1, <1>2, <1>7, FS_Subset

-----------------------------------------------------------------------------
(***************************************************************************)
(* Type correctness.  TypeOK is inductive: every critical section maps     *)
(* well-typed queues to well-typed queues.                                 *)
(***************************************************************************)
LEMMA ItemFields ==
    \A item \in Item : /\ item.directive \in Directive
                       /\ item.policy \in Policy
                       /\ item.policy.mediums \subseteq Medium
                       /\ item.policy.isBlocking \in BOOLEAN
  BY DEF Item, Policy

LEMMA ScrubType ==
    ASSUME NEW id, NEW cq \in Seq(Directive), NEW pre \in Directive \cup {None},
           NEW hq \in SUBSET Item, IsFiniteSet(hq),
           NEW held \in [Medium -> Directive \cup {None}],
           ScrubQueues(id, cq, pre, hq, held)
    PROVE  /\ handlingQueue' \subseteq Item /\ IsFiniteSet(handlingQueue')
           /\ directivesBeingHandled' \in [Medium -> Directive \cup {None}]
           /\ cancelingQueue' \in Seq(Directive)
           /\ directiveBeingPreHandled' \in Directive \cup {None}
  <1> DEFINE doomed == DirectivesOfDialog(id)
             first == OneIf(pre, pre \in doomed)
  <1>1. first \in Seq(Directive)
    BY DEF OneIf, DirectivesOfDialog
  <1>2. QueueForCancellation(doomed, cq, first, hq, held, <<>>)
    BY DEF ScrubQueues
  <1>3. <<>> \in Seq(Directive)
    BY EmptySeq
  <1>4. directiveBeingPreHandled' \in Directive \cup {None}
    BY DEF ScrubQueues
  <1> HIDE DEF doomed, first
  <1> QED
    BY <1>1, <1>2, <1>3, <1>4, CancellationType

LEMMA CancelAllType ==
    ASSUME TypeOK, QueueAllForCancellation
    PROVE  /\ handlingQueue' \subseteq Item /\ IsFiniteSet(handlingQueue')
           /\ directivesBeingHandled' \in [Medium -> Directive \cup {None}]
           /\ cancelingQueue' \in Seq(Directive)
           /\ directiveBeingPreHandled' = None /\ dialogRequestId' = NoDialog
  <1> DEFINE last == OneIf(directiveBeingPreHandled, directiveBeingPreHandled # None)
  <1>1. last \in Seq(Directive) /\ <<>> \in Seq(Directive)
    BY DEF OneIf, TypeOK
  <1>2. QueueForCancellation(Directive, cancelingQueue, <<>>, handlingQueue,
                             directivesBeingHandled, last)
    BY DEF QueueAllForCancellation
  <1>3. /\ cancelingQueue \in Seq(Directive)
        /\ handlingQueue \in SUBSET Item /\ IsFiniteSet(handlingQueue)
        /\ directivesBeingHandled \in [Medium -> Directive \cup {None}]
    BY DEF TypeOK
  <1> HIDE DEF last
  <1> QED
    BY <1>1, <1>2, <1>3, CancellationType DEF QueueAllForCancellation

\* What removeDirectiveLocked() leaves.
LEMMA WithoutType ==
    ASSUME TypeOK, NEW d \in Directive
    PROVE  /\ CancelingQueueWithout(d) \in Seq(Directive)
           /\ PreHandledWithout(d) \in Directive \cup {None}
           /\ HandlingQueueWithout(d) \in SUBSET Item
           /\ IsFiniteSet(HandlingQueueWithout(d))
           /\ BeingHandledWithout(d) \in [Medium -> Directive \cup {None}]
  <1>1. HandlingQueueWithout(d) \subseteq handlingQueue
    BY DEF HandlingQueueWithout
  <1> QED
    BY <1>1, EraseType, ReleaseType, FS_Subset
    DEF TypeOK, CancelingQueueWithout, PreHandledWithout, BeingHandledWithout

LEMMA NotifyType ==
    ASSUME TypeOK, NEW condition, NotifyIf(condition)
    PROVE  pc' \in {"wait", "asleep", "cancel", "canceling", "handle", "toHandle",
                    "handling", "exited"}
  BY DEF TypeOK, NotifyIf

LEMMA CallType ==
    ASSUME TypeOK, NEW d, NEW call \in {"preHandle", "handle", "rejected", "cancel"},
           Called(d, call)
    PROVE  trace' \in [Directive -> Seq({"preHandle", "handle", "rejected", "cancel"})]
  BY AppendProperties DEF TypeOK, Called

LEMMA TypeStep == TypeOK /\ [Next]_vars => TypeOK'
  <1> SUFFICES ASSUME TypeOK, [Next]_vars
               PROVE  TypeOK'
    OBVIOUS
  <1> USE DEF state, owner, thread, history
  <1>1. ASSUME NEW d \in Directive, RefuseDirective(d) PROVE TypeOK'
    BY <1>1 DEF RefuseDirective, Offer, TypeOK
  <1>2. ASSUME NEW d \in Directive, DropDirective(d) PROVE TypeOK'
    BY <1>2 DEF DropDirective, Offer, TypeOK
  <1>3. ASSUME NEW d \in Directive, AcceptDirective(d) PROVE TypeOK'
    <2>1. PolicyOf[d] \in Policy /\ DefaultPolicy \in Policy
      BY ProcessorAssumption DEF Policy, DefaultPolicy
    <2>2. receiving' \in [stage : {"toPreHandle", "preHandling"}, directive : Directive,
                          policy : Policy]
      BY <1>3, <2>1 DEF AcceptDirective
    <2> QED
      BY <1>3, <2>2 DEF AcceptDirective, Offer, TypeOK
  <1>4. ASSUME PreHandleDirective PROVE TypeOK'
    <2>1. trace' \in [Directive -> Seq({"preHandle", "handle", "rejected", "cancel"})]
      BY <1>4, CallType DEF PreHandleDirective
    <2>2. receiving' \in [stage : {"toPreHandle", "preHandling"}, directive : Directive,
                          policy : Policy]
      <3>1. receiving \in [stage : {"toPreHandle", "preHandling"}, directive : Directive,
                           policy : Policy]
        BY <1>4 DEF PreHandleDirective, TypeOK, Idle
      <3> QED
        BY <1>4, <3>1 DEF PreHandleDirective
    <2>3. result' \in [Directive -> {"none", "open", "completed", "failed"}]
      BY <1>4 DEF PreHandleDirective, TypeOK
    <2> QED
      BY <1>4, <2>1, <2>2, <2>3 DEF PreHandleDirective, TypeOK
  <1>5. ASSUME AbandonDirective PROVE TypeOK'
    BY <1>5 DEF AbandonDirective, TypeOK
  <1>6. ASSUME EnqueueDirective PROVE TypeOK'
    <2> DEFINE item == [directive |-> receiving.directive, policy |-> receiving.policy]
    <2>1. item \in Item
      BY <1>6 DEF EnqueueDirective, TypeOK, Idle, Item
    <2>2. handlingQueue' \subseteq Item /\ IsFiniteSet(handlingQueue')
      BY <1>6, <2>1, FS_AddElement DEF EnqueueDirective, TypeOK
    <2>3. arrived' \in Seq(Item)
      BY <1>6, <2>1, AppendProperties DEF EnqueueDirective, TypeOK
    <2>4. pc' \in {"wait", "asleep", "cancel", "canceling", "handle", "toHandle",
                   "handling", "exited"}
      BY <1>6, NotifyType DEF EnqueueDirective
    <2> HIDE DEF item
    <2> QED
      BY <1>6, <2>2, <2>3, <2>4 DEF EnqueueDirective, TypeOK
  <1>7. ASSUME NEW id \in DialogId \cup {NoDialog}, SetDialogRequestId(id) PROVE TypeOK'
    <2>1. pc' \in {"wait", "asleep", "cancel", "canceling", "handle", "toHandle",
                   "handling", "exited"}
      BY <1>7, NotifyType DEF SetDialogRequestId
    <2> QED
      BY <1>7, <2>1, ScrubType DEF SetDialogRequestId, TypeOK
  <1>8. ASSUME Disable PROVE TypeOK'
    BY <1>8, CancelAllType, NotifyType DEF Disable, TypeOK
  <1>9. ASSUME Enable PROVE TypeOK'
    BY <1>9 DEF Enable, TypeOK
  <1>10. ASSUME Unregister PROVE TypeOK'
    <2>1. /\ UNCHANGED <<isEnabled, isShuttingDown, joined, state, thread, receiving,
                         result, history>>
          /\ registered' \in BOOLEAN
      BY <1>10 DEF Unregister
    <2> QED
      BY <2>1 DEF TypeOK
  <1>11. ASSUME BeginShutdown PROVE TypeOK'
    BY <1>11, CancelAllType, NotifyType DEF BeginShutdown, TypeOK
  <1>12. ASSUME Join PROVE TypeOK'
    BY <1>12 DEF Join, TypeOK
  <1>13. ASSUME NEW d \in Directive, SetCompleted(d) PROVE TypeOK'
    BY <1>13, WithoutType, NotifyType DEF SetCompleted, Report, TypeOK
  <1>14. ASSUME NEW d \in Directive, SetFailed(d) PROVE TypeOK'
    <2>1. pc' \in {"wait", "asleep", "cancel", "canceling", "handle", "toHandle",
                   "handling", "exited"}
      BY <1>14, NotifyType DEF SetFailed
    <2>2. dialogRequestId' \in DialogId \cup {NoDialog}
      BY <1>14 DEF SetFailed, ScrubbedId, TypeOK
    <2> QED
      BY <1>14, <2>1, <2>2, WithoutType, ScrubType DEF SetFailed, Report, TypeOK
  <1>15. ASSUME NEW d \in Directive, IgnoreReport(d) PROVE TypeOK'
    BY <1>15 DEF IgnoreReport, Report, TypeOK
  <1>16. ASSUME EvaluateWake PROVE TypeOK'
    BY <1>16 DEF EvaluateWake, WaitForWork, TypeOK
  <1>17. ASSUME SpuriousWakeup PROVE TypeOK'
    BY <1>17 DEF SpuriousWakeup, TypeOK
  <1>18. ASSUME TakeCancelingQueue PROVE TypeOK'
    BY <1>18, EmptySeq DEF TakeCancelingQueue, TypeOK
  <1>19. ASSUME CancelDirective PROVE TypeOK'
    <2>1. canceling' \in Seq(Directive)
      BY <1>19, HeadTailProperties DEF CancelDirective, TypeOK
    <2> QED
      BY <1>19, <2>1, CallType DEF CancelDirective, TypeOK
  <1>20. ASSUME AllCancelled PROVE TypeOK'
    BY <1>20 DEF AllCancelled, TypeOK
  <1>21. ASSUME TakeDirective PROVE TypeOK'
    <2>1. PICK item \in handlingQueue :
              /\ directivesBeingHandled' =
                     [m \in Medium |-> IF m \in item.policy.mediums THEN item.directive
                                       ELSE directivesBeingHandled[m]]
              /\ handlingQueue' = handlingQueue \ {item}
              /\ handling' = item
      BY <1>21 DEF TakeDirective
    <2>2. item \in Item /\ item.directive \in Directive
      BY ItemFields DEF TypeOK
    <2>3. directivesBeingHandled' \in [Medium -> Directive \cup {None}]
      BY <2>1, <2>2 DEF TypeOK
    <2>4. handlingQueue' \subseteq Item /\ IsFiniteSet(handlingQueue')
      BY <2>1, FS_Subset DEF TypeOK
    <2> QED
      BY <1>21, <2>1, <2>2, <2>3, <2>4 DEF TakeDirective, TypeOK
  <1>22. ASSUME HandleDirective PROVE TypeOK'
    BY <1>22, CallType DEF HandleDirective, TypeOK
  <1>23. ASSUME HandleSucceeded PROVE TypeOK'
    BY <1>23 DEF HandleSucceeded, ClearBeingHandled, TypeOK
  <1>24. ASSUME HandleRejected PROVE TypeOK'
    <2>1. ClearBeingHandled(handling.policy) \in [Medium -> Directive \cup {None}]
      BY DEF ClearBeingHandled, TypeOK
    <2>2. dialogRequestId' \in DialogId \cup {NoDialog}
      BY <1>24 DEF HandleRejected, ScrubbedId, TypeOK
    <2> QED
      BY <1>24, <2>1, <2>2, ScrubType, CallType DEF HandleRejected, TypeOK
  <1>25. ASSUME EndPass PROVE TypeOK'
    BY <1>25 DEF EndPass, WaitForWork, TypeOK
  <1>26. CASE UNCHANGED vars
    BY <1>26 DEF vars, TypeOK
  <1> QED
    BY <1>1, <1>2, <1>3, <1>4, <1>5, <1>6, <1>7, <1>8, <1>9, <1>10, <1>11, <1>12, <1>13,
       <1>14, <1>15, <1>16, <1>17, <1>18, <1>19, <1>20, <1>21, <1>22, <1>23, <1>24, <1>25,
       <1>26
    DEF Next, ProcessingThread, ReceivingThread, Handler, Owner

LEMMA TypeInit == Init => TypeOK
  <1> SUFFICES ASSUME Init PROVE TypeOK
    OBVIOUS
  <1>1. /\ cancelingQueue \in Seq(Directive) /\ canceling \in Seq(Directive)
        /\ arrived \in Seq(Item)
    BY EmptySeq DEF Init
  <1>2. trace \in [Directive -> Seq({"preHandle", "handle", "rejected", "cancel"})]
    BY EmptySeq DEF Init
  <1>3. handlingQueue \subseteq Item /\ IsFiniteSet(handlingQueue)
    BY FS_EmptySet DEF Init
  <1> QED
    BY <1>1, <1>2, <1>3 DEF Init, TypeOK

\* Every variable keeps its type.
THEOREM TypeCorrect == Spec => []TypeOK
  BY TypeInit, TypeStep, PTL DEF Spec

-----------------------------------------------------------------------------
(***************************************************************************)
(* Live directives: those that are pre-handled, queued or holding a        *)
(* medium.  The argument for CurrentDialogOnly and StoppedIsQuiet is that  *)
(* a directive becomes live in AcceptDirective only, and that every step   *)
(* that changes the dialog or stops the processor leaves only directives   *)
(* live that the change permits.                                           *)
(***************************************************************************)
LiveIn(d, pre, hq, held) ==
    \/ d = pre
    \/ \E item \in hq : item.directive = d
    \/ d \in Holders(held)

Live(d) == LiveIn(d, directiveBeingPreHandled, handlingQueue, directivesBeingHandled)

\* The directive being pre-handled is the one of the onDirective() call in
\* progress: it is this one that EnqueueDirective queues.
PreHandledIsReceived == directiveBeingPreHandled \in {None, receiving.directive}

LEMMA HoldersOfRelease ==
    ASSUME NEW held \in [Medium -> Directive \cup {None}], NEW gone,
           NEW d \in Holders(Release(held, gone))
    PROVE  d \in Holders(held) /\ d \notin gone
  BY DEF Holders, Release

\* What scrubbing a dialog leaves live.
LEMMA ScrubLeaves ==
    ASSUME NEW id, NEW cq, NEW pre, NEW hq, NEW held \in [Medium -> Directive \cup {None}],
           ScrubQueues(id, cq, pre, hq, held), NEW d \in Directive, Live(d)'
    PROVE  LiveIn(d, pre, hq, held) /\ d \notin DirectivesOfDialog(id)
  <1> DEFINE doomed == DirectivesOfDialog(id)
  <1>1. /\ handlingQueue' = {item \in hq : item.directive \notin doomed}
        /\ directivesBeingHandled' = Release(held, doomed)
        /\ directiveBeingPreHandled' = IF pre \in doomed THEN None ELSE pre
    BY DEF ScrubQueues, QueueForCancellation
  <1>2. CASE d = directiveBeingPreHandled'
    <2>1. d # None
      BY ProcessorAssumption
    <2> QED
      BY <1>1, <1>2, <2>1 DEF LiveIn
  <1>3. CASE \E item \in handlingQueue' : item.directive = d
    BY <1>1, <1>3 DEF LiveIn
  <1>4. CASE d \in Holders(directivesBeingHandled')
    <2>1. d \in Holders(Release(held, doomed))
      BY <1>1, <1>4
    <2> QED
      BY <2>1, HoldersOfRelease DEF LiveIn
  <1> QED
    BY <1>2, <1>3, <1>4 DEF Live, LiveIn, Holders

\* Giving up all directives leaves none live.
LEMMA CancelAllLeavesNone ==
    ASSUME TypeOK, QueueAllForCancellation, NEW d \in Directive
    PROVE  ~Live(d)'
  <1>1. directiveBeingPreHandled' = None /\ d # None
    BY ProcessorAssumption DEF QueueAllForCancellation
  <1>2. handlingQueue' = {item \in handlingQueue : item.directive \notin Directive}
    BY DEF QueueAllForCancellation, QueueForCancellation
  <1>3. directivesBeingHandled' = Release(directivesBeingHandled, Directive)
    BY DEF QueueAllForCancellation, QueueForCancellation
  <1>4. d \notin Holders(directivesBeingHandled')
    BY <1>3, HoldersOfRelease DEF TypeOK
  <1> QED
    BY <1>1, <1>2, <1>4 DEF Live, LiveIn, Holders

\* A removed directive is live no more, and no other becomes so.
LEMMA WithoutLeaves ==
    ASSUME TypeOK, NEW gone \in Directive, NEW d \in Directive,
           LiveIn(d, PreHandledWithout(gone), HandlingQueueWithout(gone),
                  BeingHandledWithout(gone))
    PROVE  Live(d)
  <1>1. d # None
    BY ProcessorAssumption
  <1>2. d \in Holders(BeingHandledWithout(gone)) => d \in Holders(directivesBeingHandled)
    BY HoldersOfRelease DEF BeingHandledWithout, TypeOK
  <1> QED
    BY <1>1, <1>2 DEF Live, LiveIn, PreHandledWithout, HandlingQueueWithout

LEMMA ClearLeaves ==
    ASSUME TypeOK, NEW policy, NEW d \in Directive,
           d \in Holders(ClearBeingHandled(policy))
    PROVE  d \in Holders(directivesBeingHandled)
  BY DEF Holders, ClearBeingHandled, TypeOK

\* The id that is current after a failure still admits the surviving directives.
LEMMA ScrubbedIdAdmits ==
    ASSUME NEW id, NEW d \in Directive, d \notin DirectivesOfDialog(id),
           IsOfCurrentDialog(d), dialogRequestId' = ScrubbedId(id)
    PROVE  IsOfCurrentDialog(d)'
  BY DEF IsOfCurrentDialog, ScrubbedId, DirectivesOfDialog

LEMMA PreHandledStep ==
    TypeOK /\ PreHandledIsReceived /\ [Next]_vars => PreHandledIsReceived'
  <1> SUFFICES ASSUME TypeOK, PreHandledIsReceived, [Next]_vars
               PROVE  PreHandledIsReceived'
    OBVIOUS
  <1> USE DEF state, owner, thread, history, PreHandledIsReceived
  <1>1. ASSUME NEW id, NEW cq, NEW hq, NEW held, NEW pre \in {None, receiving.directive},
               ScrubQueues(id, cq, pre, hq, held)
        PROVE  directiveBeingPreHandled' \in {None, receiving.directive}
    BY <1>1 DEF ScrubQueues
  <1>2. CASE ReceivingThread
    <2>1. ASSUME NEW d \in Directive, RefuseDirective(d) \/ DropDirective(d)
          PROVE  PreHandledIsReceived'
      BY <2>1 DEF RefuseDirective, DropDirective
    <2>2. ASSUME NEW d \in Directive, AcceptDirective(d) PROVE PreHandledIsReceived'
      BY <2>2 DEF AcceptDirective
    <2>3. ASSUME PreHandleDirective PROVE PreHandledIsReceived'
      <3>1. receiving \in [stage : {"toPreHandle", "preHandling"}, directive : Directive,
                           policy : Policy]
        BY <2>3 DEF PreHandleDirective, TypeOK, Idle
      <3>2. receiving'.directive = receiving.directive
        BY <2>3, <3>1 DEF PreHandleDirective
      <3> QED
        BY <2>3, <3>2 DEF PreHandleDirective
    <2>4. ASSUME AbandonDirective \/ EnqueueDirective PROVE PreHandledIsReceived'
      BY <2>4 DEF AbandonDirective, EnqueueDirective, WasRemoved
    <2> QED
      BY <1>2, <2>1, <2>2, <2>3, <2>4 DEF ReceivingThread
  <1>3. CASE ProcessingThread \/ SpuriousWakeup
    BY <1>1, <1>3 DEF ProcessingThread, EvaluateWake, TakeCancelingQueue, CancelDirective,
                      AllCancelled, TakeDirective, HandleDirective, HandleSucceeded,
                      HandleRejected, EndPass, SpuriousWakeup
  <1>4. ASSUME NEW d \in Directive, Handler(d) PROVE PreHandledIsReceived'
    BY <1>1, <1>4 DEF Handler, SetCompleted, SetFailed, IgnoreReport, PreHandledWithout
  <1>5. CASE Owner
    BY <1>1, <1>5 DEF Owner, SetDialogRequestId, Disable, Enable, Unregister, BeginShutdown,
                      Join, QueueAllForCancellation
  <1>6. CASE UNCHANGED vars
    BY <1>6 DEF vars
  <1> QED
    BY <1>2, <1>3, <1>4, <1>5, <1>6 DEF Next

\* A step keeps a directive live: it finds it so, and leaves it of the current
\* dialog, and the processor accepting, if they were so before.
StaysLive(d) == /\ Live(d)
                /\ IsOfCurrentDialog(d) => IsOfCurrentDialog(d)'
                /\ IsAccepting => IsAccepting'

\* A directive that is live after a step was accepted in it, or stays live.
LEMMA LiveStep ==
    ASSUME TypeOK, PreHandledIsReceived, [Next]_vars, NEW d \in Directive, Live(d)'
    PROVE  AcceptDirective(d) \/ StaysLive(d)
  <1> USE DEF state, owner, thread, history
  <1>1. d # None
    BY ProcessorAssumption
  <1>2. ASSUME UNCHANGED <<directiveBeingPreHandled, handlingQueue, directivesBeingHandled,
                           dialogRequestId, isEnabled, isShuttingDown>>
        PROVE  StaysLive(d)
    BY <1>2 DEF Live, LiveIn, Holders, IsOfCurrentDialog, IsAccepting, StaysLive
  <1>3. ASSUME NEW e \in Directive, AcceptDirective(e), e # d PROVE StaysLive(d)
    BY <1>3 DEF AcceptDirective, Live, LiveIn, Holders, IsOfCurrentDialog, IsAccepting, StaysLive
  <1>4. ASSUME AbandonDirective PROVE StaysLive(d)
    BY <1>1, <1>4 DEF AbandonDirective, Live, LiveIn, Holders, IsOfCurrentDialog, IsAccepting, StaysLive
  <1>5. ASSUME EnqueueDirective PROVE StaysLive(d)
    <2>1. receiving.directive = directiveBeingPreHandled
      BY <1>5 DEF EnqueueDirective, WasRemoved, PreHandledIsReceived
    <2> QED
      BY <1>1, <1>5, <2>1
      DEF EnqueueDirective, Live, LiveIn, Holders, IsOfCurrentDialog, IsAccepting, StaysLive
  <1>6. ASSUME NEW id \in DialogId \cup {NoDialog}, SetDialogRequestId(id) PROVE StaysLive(d)
    <2>1. Live(d) /\ d \notin DirectivesOfDialog(dialogRequestId)
      BY <1>6, ScrubLeaves DEF SetDialogRequestId, Live, TypeOK
    <2>2. IsOfCurrentDialog(d) => DialogOf[d] = NoDialog
      BY <2>1 DEF IsOfCurrentDialog, DirectivesOfDialog
    <2> QED
      BY <1>6, <2>1, <2>2 DEF SetDialogRequestId, IsOfCurrentDialog, IsAccepting, StaysLive
  <1>7. ASSUME Disable \/ BeginShutdown PROVE FALSE
    BY <1>7, CancelAllLeavesNone DEF Disable, BeginShutdown
  <1>8. ASSUME Enable PROVE StaysLive(d)
    BY <1>8 DEF Enable, Live, LiveIn, Holders, IsOfCurrentDialog, IsAccepting, StaysLive
  <1>9. ASSUME NEW e \in Directive, SetCompleted(e) PROVE StaysLive(d)
    <2>1. LiveIn(d, PreHandledWithout(e), HandlingQueueWithout(e), BeingHandledWithout(e))
      BY <1>9 DEF SetCompleted, Live, LiveIn, Holders
    <2> QED
      BY <1>9, <2>1, WithoutLeaves DEF SetCompleted, IsOfCurrentDialog, IsAccepting, StaysLive
  <1>10. ASSUME NEW e \in Directive, SetFailed(e) PROVE StaysLive(d)
    <2>1. /\ LiveIn(d, PreHandledWithout(e), HandlingQueueWithout(e), BeingHandledWithout(e))
          /\ d \notin DirectivesOfDialog(DialogOf[e])
      BY <1>10, WithoutType, ScrubLeaves DEF SetFailed
    <2>2. IsOfCurrentDialog(d) => IsOfCurrentDialog(d)'
      BY <1>10, <2>1, ScrubbedIdAdmits DEF SetFailed
    <2> QED
      BY <1>10, <2>1, <2>2, WithoutLeaves DEF SetFailed, IsAccepting, StaysLive
  <1>11. ASSUME TakeDirective PROVE StaysLive(d)
    <2>1. PICK item \in handlingQueue :
              /\ directivesBeingHandled' =
                     [m \in Medium |-> IF m \in item.policy.mediums THEN item.directive
                                       ELSE directivesBeingHandled[m]]
              /\ handlingQueue' = handlingQueue \ {item}
      BY <1>11 DEF TakeDirective
    <2>2. d \in Holders(directivesBeingHandled') =>
              d = item.directive \/ d \in Holders(directivesBeingHandled)
      BY <2>1 DEF Holders
    <2> QED
      BY <1>11, <2>1, <2>2
      DEF TakeDirective, Live, LiveIn, Holders, IsOfCurrentDialog, IsAccepting, StaysLive
  <1>12. ASSUME HandleSucceeded PROVE StaysLive(d)
    <2>1. d \in Holders(directivesBeingHandled') => d \in Holders(directivesBeingHandled)
      BY <1>12, ClearLeaves DEF HandleSucceeded
    <2> QED
      BY <1>12, <2>1
      DEF HandleSucceeded, Live, LiveIn, Holders, IsOfCurrentDialog, IsAccepting, StaysLive
  <1>13. ASSUME HandleRejected PROVE StaysLive(d)
    <2> DEFINE held == ClearBeingHandled(handling.policy)
    <2>1. held \in [Medium -> Directive \cup {None}]
      BY DEF ClearBeingHandled, TypeOK
    <2>2. /\ LiveIn(d, directiveBeingPreHandled, handlingQueue, held)
          /\ d \notin DirectivesOfDialog(DialogOf[handling.directive])
      BY <1>13, <2>1, ScrubLeaves DEF HandleRejected
    <2>3. IsOfCurrentDialog(d) => IsOfCurrentDialog(d)'
      BY <1>13, <2>2, ScrubbedIdAdmits DEF HandleRejected
    <2>4. Live(d)
      BY <2>2, ClearLeaves DEF Live, LiveIn
    <2> QED
      BY <1>13, <2>3, <2>4 DEF HandleRejected, IsAccepting, StaysLive
  <1>14. CASE ReceivingThread
    <2>1. ASSUME NEW e \in Directive, RefuseDirective(e) \/ DropDirective(e)
          PROVE  StaysLive(d)
      BY <1>2, <2>1 DEF RefuseDirective, DropDirective
    <2>2. ASSUME PreHandleDirective PROVE StaysLive(d)
      BY <1>2, <2>2 DEF PreHandleDirective
    <2> QED
      BY <1>3, <1>4, <1>5, <1>14, <2>1, <2>2 DEF ReceivingThread
  <1>15. CASE ProcessingThread \/ SpuriousWakeup
    <2>1. ASSUME EvaluateWake \/ SpuriousWakeup \/ CancelDirective \/ AllCancelled
                 \/ HandleDirective \/ EndPass
          PROVE  StaysLive(d)
      BY <1>2, <2>1 DEF EvaluateWake, SpuriousWakeup, CancelDirective, AllCancelled,
                        HandleDirective, EndPass
    <2>2. ASSUME TakeCancelingQueue PROVE StaysLive(d)
      BY <1>2, <2>2 DEF TakeCancelingQueue
    <2> QED
      BY <1>11, <1>12, <1>13, <1>15, <2>1, <2>2 DEF ProcessingThread
  <1>16. ASSUME NEW e \in Directive, Handler(e) PROVE StaysLive(d)
    <2>1. ASSUME IgnoreReport(e) PROVE StaysLive(d)
      BY <1>2, <2>1 DEF IgnoreReport
    <2> QED
      BY <1>9, <1>10, <1>16, <2>1 DEF Handler
  <1>17. CASE Owner
    <2>1. ASSUME Unregister \/ Join PROVE StaysLive(d)
      BY <1>2, <2>1 DEF Unregister, Join
    <2> QED
      BY <1>6, <1>7, <1>8, <1>17, <2>1 DEF Owner
  <1>18. ASSUME UNCHANGED vars PROVE StaysLive(d)
    BY <1>2, <1>18 DEF vars
  <1> QED
    BY <1>14, <1>15, <1>16, <1>17, <1>18 DEF Next

-----------------------------------------------------------------------------
(***************************************************************************)
(* Only directives of the current dialog are live.                         *)
(***************************************************************************)
LEMMA LiveIsLive == CurrentDialogOnly <=> \A d \in Directive : Live(d) => IsOfCurrentDialog(d)
  BY DEF CurrentDialogOnly, Live, LiveIn, IsQueued

DialogInv == TypeOK /\ PreHandledIsReceived /\ CurrentDialogOnly

LEMMA DialogInit == Init => DialogInv
  <1> SUFFICES ASSUME Init PROVE DialogInv
    OBVIOUS
  <1>1. TypeOK
    BY TypeInit
  <1>2. CurrentDialogOnly
    BY ProcessorAssumption DEF Init, CurrentDialogOnly, IsQueued, Holders
  <1> QED
    BY <1>1, <1>2 DEF DialogInv, Init, PreHandledIsReceived

LEMMA DialogStep == DialogInv /\ [Next]_vars => DialogInv'
  <1> SUFFICES ASSUME DialogInv, [Next]_vars PROVE DialogInv'
    OBVIOUS
  <1>1. TypeOK' /\ PreHandledIsReceived'
    BY TypeStep, PreHandledStep DEF DialogInv
  <1>2. ASSUME NEW d \in Directive, Live(d)' PROVE IsOfCurrentDialog(d)'
    <2>1. CASE AcceptDirective(d)
      BY <2>1 DEF AcceptDirective, IsOfCurrentDialog
    <2>2. CASE StaysLive(d)
      BY <2>2, LiveIsLive DEF DialogInv, StaysLive
    <2> QED
      BY <1>2, <2>1, <2>2, LiveStep DEF DialogInv
  <1>3. CurrentDialogOnly'
    BY <1>2 DEF CurrentDialogOnly, Live, LiveIn, IsQueued
  <1> QED
    BY <1>1, <1>3 DEF DialogInv

\* No directive of an old dialog is pre-handled, queued or holding a medium.
THEOREM DialogSafety == Spec => []CurrentDialogOnly
  <1>1. DialogInv => CurrentDialogOnly
    BY DEF DialogInv
  <1> QED
    BY <1>1, DialogInit, DialogStep, PTL DEF Spec

-----------------------------------------------------------------------------
(***************************************************************************)
(* How many directives a cancellation moves.                               *)
(***************************************************************************)
LEMMA ListingLength ==
    ASSUME NEW S, IsFiniteSet(S), NEW s \in SetToSeqs(S)
    PROVE  s \in Seq(S) /\ Len(s) = Cardinality(S)
  <1>1. Cardinality(S) \in Nat /\ s \in [1..Cardinality(S) -> S]
    BY FS_CardinalityType DEF SetToSeqs
  <1>2. s \in Seq(S)
    BY ListingIsSequence
  <1> QED
    BY <1>1, <1>2, LenProperties

LEMMA DirectivesOfQueue ==
    ASSUME NEW hq \in SUBSET Item, IsFiniteSet(hq)
    PROVE  DirectivesOf(hq) \subseteq Directive /\ IsFiniteSet(DirectivesOf(hq))
  <1> DEFINE directive == [item \in hq |-> item.directive]
  <1>1. directive \in Surjection(hq, DirectivesOf(hq))
    BY Fun_IsSurj DEF DirectivesOf
  <1>2. IsFiniteSet(DirectivesOf(hq))
    BY <1>1, FS_Surjection
  <1> QED
    BY <1>2 DEF DirectivesOf, Item

LEMMA CancellationLength ==
    ASSUME NEW doomed, NEW cq \in Seq(Directive), NEW first \in Seq(Directive),
           NEW hq \in SUBSET Item, IsFiniteSet(hq),
           NEW held \in [Medium -> Directive \cup {None}], NEW last \in Seq(Directive),
           QueueForCancellation(doomed, cq, first, hq, held, last)
    PROVE  /\ IsFiniteSet(Holders(held) \cap doomed)
           /\ IsFiniteSet(DirectivesOf(hq) \cap doomed)
           /\ Len(cancelingQueue') =
                  Len(cq) + Len(first) + Cardinality(Holders(held) \cap doomed)
                      + Cardinality(DirectivesOf(hq) \cap doomed) + Len(last)
  <1> DEFINE F == Holders(held) \cap doomed
             Q == DirectivesOf(hq) \cap doomed
  <1>1. IsFiniteSet(F) /\ F \subseteq Directive
    BY HoldersAreDirectives, FS_Intersection
  <1>2. IsFiniteSet(Q) /\ Q \subseteq Directive
    BY DirectivesOfQueue, FS_Intersection
  <1>3. PICK freed \in SetToSeqs(F), queued \in SetToSeqs(Q) :
             cancelingQueue' = cq \o first \o freed \o queued \o last
    BY DEF QueueForCancellation, AnyOrder, ArrivalOrder
  <1> HIDE DEF F, Q
  <1>4. freed \in Seq(Directive) /\ Len(freed) = Cardinality(F)
    BY <1>1, ListingLength, SeqMonotonic
  <1>5. queued \in Seq(Directive) /\ Len(queued) = Cardinality(Q)
    BY <1>2, ListingLength, SeqMonotonic
  <1>6. cq \o first \in Seq(Directive) /\ Len(cq \o first) = Len(cq) + Len(first)
    BY ConcatProperties
  <1>7. /\ cq \o first \o freed \in Seq(Directive)
        /\ Len(cq \o first \o freed) = Len(cq \o first) + Len(freed)
    BY <1>4, <1>6, ConcatProperties
  <1>8. /\ cq \o first \o freed \o queued \in Seq(Directive)
        /\ Len(cq \o first \o freed \o queued) = Len(cq \o first \o freed) + Len(queued)
    BY <1>5, <1>7, ConcatProperties
  <1>9. Len(cancelingQueue') = Len(cq) + Len(first) + Len(freed) + Len(queued) + Len(last)
    BY <1>3, <1>6, <1>7, <1>8, ConcatProperties
  <1> QED
    BY <1>1, <1>2, <1>4, <1>5, <1>9 DEF F, Q

\* A cancellation that leaves the canceling queue as it was moves nothing.
LEMMA NothingMoved ==
    ASSUME NEW doomed, NEW cq \in Seq(Directive), NEW first \in Seq(Directive),
           NEW hq \in SUBSET Item, IsFiniteSet(hq),
           NEW held \in [Medium -> Directive \cup {None}], NEW last \in Seq(Directive),
           QueueForCancellation(doomed, cq, first, hq, held, last),
           cancelingQueue' = cq
    PROVE  handlingQueue' = hq /\ directivesBeingHandled' = held
  <1> DEFINE F == Holders(held) \cap doomed
             Q == DirectivesOf(hq) \cap doomed
  <1>1. /\ IsFiniteSet(F) /\ IsFiniteSet(Q)
        /\ Len(cancelingQueue') =
               Len(cq) + Len(first) + Cardinality(F) + Cardinality(Q) + Len(last)
    BY ONLY CancellationLength, cq \in Seq(Directive), first \in Seq(Directive),
            hq \in SUBSET Item, IsFiniteSet(hq), last \in Seq(Directive),
            held \in [Medium -> Directive \cup {None}],
            QueueForCancellation(doomed, cq, first, hq, held, last), SMTT(30)
  <1> HIDE DEF F, Q
  <1>2. /\ Cardinality(F) \in Nat /\ Cardinality(Q) \in Nat
        /\ Len(cq) \in Nat /\ Len(first) \in Nat /\ Len(last) \in Nat
    BY <1>1, FS_CardinalityType, LenProperties
  <1>3. F = {} /\ Q = {}
    <2>1. Len(cancelingQueue') = Len(cq)
      OBVIOUS
    <2>2. Cardinality(F) = 0 /\ Cardinality(Q) = 0
      BY ONLY <1>1, <1>2, <2>1
    <2> QED
      BY ONLY <1>1, <2>2, FS_EmptySet, Zenon
  <1>4. handlingQueue' = hq
    BY <1>3 DEF Q, DirectivesOf, QueueForCancellation
  <1>5. \A m \in Medium : held[m] \in doomed => held[m] = None
    BY <1>3 DEF F, Holders
  <1>6. directivesBeingHandled' = held
    BY <1>5 DEF QueueForCancellation, Release
  <1> QED
    BY <1>4, <1>6

\* A cancellation that finds nothing adds nothing.
LEMMA NothingToMove ==
    ASSUME NEW doomed, NEW cq \in Seq(Directive), NEW first \in Seq(Directive),
           NEW hq \in SUBSET Item, hq = {},
           NEW held \in [Medium -> Directive \cup {None}], Holders(held) = {},
           NEW last \in Seq(Directive), cq = <<>>, first = <<>>, last = <<>>,
           QueueForCancellation(doomed, cq, first, hq, held, last),
           cancelingQueue' \in Seq(Directive)
    PROVE  cancelingQueue' = <<>>
  <1> DEFINE F == Holders(held) \cap doomed
             Q == DirectivesOf(hq) \cap doomed
  <1>1. IsFiniteSet(hq)
    BY FS_EmptySet
  <1>2. Len(cancelingQueue') =
            Len(cq) + Len(first) + Cardinality(F) + Cardinality(Q) + Len(last)
    BY ONLY CancellationLength, <1>1, cq \in Seq(Directive), first \in Seq(Directive),
            hq \in SUBSET Item, last \in Seq(Directive),
            held \in [Medium -> Directive \cup {None}],
            QueueForCancellation(doomed, cq, first, hq, held, last), SMTT(30)
  <1>3. F = {} /\ Q = {}
    BY DEF DirectivesOf
  <1> HIDE DEF F, Q
  <1>4. Cardinality(F) = 0 /\ Cardinality(Q) = 0
    BY <1>3, FS_EmptySet, Zenon
  <1>5. Len(cq) = 0 /\ Len(first) = 0 /\ Len(last) = 0
    BY EmptySeq
  <1>6. Len(cancelingQueue') = 0
    BY ONLY <1>2, <1>4, <1>5
  <1> QED
    BY <1>6, EmptySeq

-----------------------------------------------------------------------------
(***************************************************************************)
(* No wake-up is lost.  NoLostWakeup is inductive with TypeOK: a critical  *)
(* section that leaves the thread asleep without a notification has        *)
(* neither filled a queue nor freed a medium that a queued item waits for. *)
(***************************************************************************)
LEMMA WakeIsNotWoken ==
    ASSUME pc = "asleep" => ~Wake, pc' = pc,
           UNCHANGED <<cancelingQueue, handlingQueue, directivesBeingHandled, arrived,
                       isShuttingDown>>
    PROVE  NoLostWakeup'
  BY DEF NoLostWakeup, Wake, UnblockedItems, Unblocked, Before

\* A removal that leaves both queues empty leaves nothing to do.
LEMMA EmptyIsAsleep ==
    ASSUME ~isShuttingDown', cancelingQueue' = <<>>, handlingQueue' = {}
    PROVE  ~Wake'
  BY DEF Wake, UnblockedItems

LEMMA WakeStep ==
    TypeOK /\ NoLostWakeup /\ [Next]_vars => NoLostWakeup'
  <1> SUFFICES ASSUME TypeOK, NoLostWakeup, [Next]_vars PROVE NoLostWakeup'
    OBVIOUS
  <1> USE DEF state, owner, thread, history
  <1>1. pc = "asleep" => ~Wake
    BY DEF NoLostWakeup
  <1>2. ASSUME NEW d \in Directive, RefuseDirective(d) \/ DropDirective(d) \/ AcceptDirective(d)
        PROVE  NoLostWakeup'
    BY <1>1, <1>2, WakeIsNotWoken DEF RefuseDirective, DropDirective, AcceptDirective
  <1>3. ASSUME PreHandleDirective \/ AbandonDirective PROVE NoLostWakeup'
    BY <1>1, <1>3, WakeIsNotWoken DEF PreHandleDirective, AbandonDirective
  <1>4. ASSUME EnqueueDirective \/ Disable \/ BeginShutdown PROVE NoLostWakeup'
    <2>1. NotifyIf(TRUE)
      BY <1>4 DEF EnqueueDirective, Disable, BeginShutdown
    <2> QED
      BY <2>1 DEF NotifyIf, NoLostWakeup
  <1>5. ASSUME NEW id \in DialogId \cup {NoDialog}, SetDialogRequestId(id) PROVE NoLostWakeup'
    <2>1. CASE cancelingQueue' # cancelingQueue
      BY <1>5, <2>1 DEF SetDialogRequestId, NotifyIf, NoLostWakeup
    <2>2. CASE cancelingQueue' = cancelingQueue
      <3> DEFINE doomed == DirectivesOfDialog(dialogRequestId)
                 first == OneIf(directiveBeingPreHandled, directiveBeingPreHandled \in doomed)
      <3>1. QueueForCancellation(doomed, cancelingQueue, first, handlingQueue,
                                 directivesBeingHandled, <<>>)
        BY <1>5 DEF SetDialogRequestId, ScrubQueues
      <3>2. first \in Seq(Directive) /\ <<>> \in Seq(Directive)
        BY DEF OneIf, DirectivesOfDialog
      <3> HIDE DEF doomed, first
      <3>3. UNCHANGED <<handlingQueue, directivesBeingHandled>>
        BY <2>2, <3>1, <3>2, NothingMoved DEF TypeOK
      <3>4. pc' = pc /\ UNCHANGED <<arrived, isShuttingDown>>
        BY <1>5, <2>2 DEF SetDialogRequestId, NotifyIf
      <3> QED
        BY <1>1, <2>2, <3>3, <3>4, WakeIsNotWoken
    <2> QED
      BY <2>1, <2>2
  <1>6. ASSUME NEW d \in Directive, SetCompleted(d) PROVE NoLostWakeup'
    <2>1. CASE WorkLeftWithout(d)
      BY <1>6, <2>1 DEF SetCompleted, NotifyIf, NoLostWakeup
    <2>2. CASE ~WorkLeftWithout(d)
      <3>1. cancelingQueue' = <<>> /\ handlingQueue' = {} /\ pc' = pc
        BY <1>6, <2>2 DEF SetCompleted, NotifyIf, WorkLeftWithout
      <3>2. pc = "asleep" => ~isShuttingDown'
        BY <1>1, <1>6 DEF SetCompleted, Wake
      <3> QED
        BY <3>1, <3>2, EmptyIsAsleep DEF NoLostWakeup
    <2> QED
      BY <2>1, <2>2
  <1>7. ASSUME NEW d \in Directive, SetFailed(d) PROVE NoLostWakeup'
    <2>1. CASE WorkLeftWithout(d) \/ cancelingQueue' # CancelingQueueWithout(d)
      BY <1>7, <2>1 DEF SetFailed, NotifyIf, NoLostWakeup
    <2>2. CASE ~(WorkLeftWithout(d) \/ cancelingQueue' # CancelingQueueWithout(d))
      <3>1. cancelingQueue' = <<>> /\ HandlingQueueWithout(d) = {} /\ pc' = pc
        BY <1>7, <2>2 DEF SetFailed, NotifyIf, WorkLeftWithout
      <3>2. handlingQueue' = {}
        BY <1>7, <3>1 DEF SetFailed, ScrubQueues, QueueForCancellation
      <3>3. pc = "asleep" => ~isShuttingDown'
        BY <1>1, <1>7 DEF SetFailed, Wake
      <3> QED
        BY <3>1, <3>2, <3>3, EmptyIsAsleep DEF NoLostWakeup
    <2> QED
      BY <2>1, <2>2
  <1>8. ASSUME NEW d \in Directive, IgnoreReport(d) PROVE NoLostWakeup'
    BY <1>1, <1>8, WakeIsNotWoken DEF IgnoreReport
  <1>9. ASSUME Enable \/ Unregister \/ Join PROVE NoLostWakeup'
    BY <1>1, <1>9, WakeIsNotWoken DEF Enable, Unregister, Join
  <1>10. ASSUME EvaluateWake \/ EndPass PROVE NoLostWakeup'
    <2>1. UNCHANGED <<cancelingQueue, handlingQueue, directivesBeingHandled, arrived,
                      isShuttingDown>>
      BY <1>10 DEF EvaluateWake, EndPass
    <2>2. pc' = "asleep" => ~Wake
      BY <1>10 DEF EvaluateWake, EndPass, WaitForWork
    <2> QED
      BY <2>1, <2>2 DEF NoLostWakeup, Wake, UnblockedItems, Unblocked, Before
  <1>11. ASSUME SpuriousWakeup \/ TakeCancelingQueue \/ CancelDirective \/ AllCancelled
                \/ TakeDirective \/ HandleDirective \/ HandleSucceeded \/ HandleRejected
         PROVE  NoLostWakeup'
    BY <1>11 DEF SpuriousWakeup, TakeCancelingQueue, CancelDirective, AllCancelled,
                 TakeDirective, HandleDirective, HandleSucceeded, HandleRejected, NoLostWakeup
  <1>12. ASSUME UNCHANGED vars PROVE NoLostWakeup'
    BY <1>1, <1>12, WakeIsNotWoken DEF vars
  <1> QED
    BY <1>2, <1>3, <1>4, <1>5, <1>6, <1>7, <1>8, <1>9, <1>10, <1>11, <1>12
    DEF Next, ProcessingThread, ReceivingThread, Handler, Owner

\* The processing thread never sleeps while it has work to do.
THEOREM NoWakeupIsLost == Spec => []NoLostWakeup
  <1>1. Init => TypeOK /\ NoLostWakeup
    BY TypeInit DEF Init, NoLostWakeup
  <1> QED
    BY <1>1, TypeStep, WakeStep, PTL DEF Spec

-----------------------------------------------------------------------------
(***************************************************************************)
(* A stopped processor is quiet.  Nothing is live unless directives are    *)
(* accepted, by LiveStep.  That nothing is left to cancel when the thread  *)
(* exits needs two facts about a pass: it is marked as having made         *)
(* progress whenever m_mutex was released in it, and a pass without        *)
(* progress found, and left, the canceling queue empty.                    *)
(***************************************************************************)
PassInv ==
    /\ pc \in {"canceling", "toHandle", "handling"} => progress
    /\ pc = "handle" /\ ~progress => cancelingQueue = <<>>

StopInv == TypeOK /\ PreHandledIsReceived /\ StoppedIsQuiet /\ PassInv

LEMMA QuietIsNotLive ==
    ASSUME TypeOK
    PROVE  (/\ directiveBeingPreHandled = None
            /\ handlingQueue = {}
            /\ Holders(directivesBeingHandled) = {}) <=> \A d \in Directive : ~Live(d)
  <1>1. ASSUME \A d \in Directive : ~Live(d)
        PROVE  /\ directiveBeingPreHandled = None
               /\ handlingQueue = {}
               /\ Holders(directivesBeingHandled) = {}
    <2>1. directiveBeingPreHandled = None
      BY <1>1 DEF TypeOK, Live, LiveIn
    <2>2. \A item \in handlingQueue : item.directive \in Directive
      BY ItemFields DEF TypeOK
    <2>3. handlingQueue = {}
      BY <1>1, <2>2 DEF Live, LiveIn
    <2>4. Holders(directivesBeingHandled) = {}
      BY <1>1, HoldersAreDirectives DEF TypeOK, Live, LiveIn
    <2> QED
      BY <2>1, <2>3, <2>4
  <1> QED
    BY <1>1, ProcessorAssumption DEF Live, LiveIn

\* A processor that does not accept directives has none live after a step either.
LEMMA QuietStep ==
    ASSUME TypeOK, PreHandledIsReceived, StoppedIsQuiet, [Next]_vars, ~IsAccepting'
    PROVE  /\ directiveBeingPreHandled' = None
           /\ handlingQueue' = {}
           /\ Holders(directivesBeingHandled') = {}
  <1>1. ASSUME NEW d \in Directive, Live(d)' PROVE FALSE
    <2>1. CASE AcceptDirective(d)
      BY <2>1 DEF AcceptDirective, IsAccepting, owner
    <2>2. CASE StaysLive(d)
      <3>1. Live(d) /\ ~IsAccepting
        BY <2>2 DEF StaysLive
      <3> QED
        BY <3>1, QuietIsNotLive DEF StoppedIsQuiet
    <2> QED
      BY <1>1, <2>1, <2>2, LiveStep
  <1>2. TypeOK'
    BY TypeStep
  <1>3. \A d \in Directive : ~Live(d)'
    BY <1>1
  <1>4. directiveBeingPreHandled' = None
    BY <1>2, <1>3 DEF TypeOK, Live, LiveIn
  <1>5. \A item \in handlingQueue' : item.directive \in Directive
    BY <1>2, ItemFields DEF TypeOK
  <1>6. handlingQueue' = {}
    BY <1>3, <1>5 DEF Live, LiveIn
  <1>7. Holders(directivesBeingHandled') \subseteq Directive
    BY <1>2, HoldersAreDirectives DEF TypeOK
  <1>8. Holders(directivesBeingHandled') = {}
    BY <1>3, <1>7 DEF Live, LiveIn, Holders
  <1> QED
    BY <1>4, <1>6, <1>8

LEMMA EraseNothing == \A d : Erase(<<>>, d) = <<>>
  BY DEF Erase

\* With nothing live, scrubbing adds nothing to an empty canceling queue.
LEMMA ScrubNothing ==
    ASSUME NEW id, NEW cq \in Seq(Directive), cq = <<>>, NEW pre, pre = None,
           NEW hq \in SUBSET Item, hq = {},
           NEW held \in [Medium -> Directive \cup {None}], Holders(held) = {},
           ScrubQueues(id, cq, pre, hq, held), cancelingQueue' \in Seq(Directive)
    PROVE  cancelingQueue' = <<>>
  <1> DEFINE doomed == DirectivesOfDialog(id)
             first == OneIf(pre, pre \in doomed)
             last == <<>>
  <1>1. first = <<>> /\ last = <<>>
    BY ProcessorAssumption DEF OneIf, DirectivesOfDialog
  <1>2. first \in Seq(Directive) /\ last \in Seq(Directive)
    BY <1>1, EmptySeq
  <1>3. QueueForCancellation(doomed, cq, first, hq, held, last)
    BY DEF ScrubQueues
  <1> HIDE DEF doomed, first, last
  <1> QED
    BY <1>1, <1>2, <1>3, NothingToMove

\* Once the thread has exited, the canceling queue stays empty.
LEMMA ExitStep ==
    ASSUME StopInv, [Next]_vars, pc' = "exited"
    PROVE  isShuttingDown' /\ cancelingQueue' = <<>>
  <1> USE DEF state, owner, thread, history, StopInv
  <1>1. TypeOK'
    BY TypeStep
  <1>2. cancelingQueue' \in Seq(Directive) /\ cancelingQueue \in Seq(Directive)
    BY <1>1 DEF TypeOK
  <1>3. CASE pc = "exited"
    <2>1. isShuttingDown /\ cancelingQueue = <<>>
      BY <1>3 DEF StoppedIsQuiet
    <2>2. /\ directiveBeingPreHandled = None /\ handlingQueue = {}
          /\ Holders(directivesBeingHandled) = {}
      BY <2>1 DEF StoppedIsQuiet, IsAccepting
    <2>3. ASSUME UNCHANGED <<isShuttingDown, cancelingQueue>>
          PROVE  isShuttingDown' /\ cancelingQueue' = <<>>
      BY <2>1, <2>3
    <2>4. ASSUME NEW id \in DialogId \cup {NoDialog}, SetDialogRequestId(id)
          PROVE  isShuttingDown' /\ cancelingQueue' = <<>>
      <3>1. isShuttingDown' /\ ScrubQueues(dialogRequestId, cancelingQueue,
                directiveBeingPreHandled, handlingQueue, directivesBeingHandled)
        BY <2>1, <2>4 DEF SetDialogRequestId
      <3> QED
        BY <1>2, <2>1, <2>2, <3>1, ScrubNothing DEF TypeOK
    <2>5. ASSUME Disable PROVE isShuttingDown' /\ cancelingQueue' = <<>>
      <3> DEFINE last == OneIf(directiveBeingPreHandled, directiveBeingPreHandled # None)
                 first == <<>>
      <3>1. last = <<>> /\ first = <<>>
        BY <2>2 DEF OneIf
      <3>2. last \in Seq(Directive) /\ first \in Seq(Directive)
        BY <3>1, EmptySeq
      <3>3. isShuttingDown' /\ QueueForCancellation(Directive, cancelingQueue, first,
                handlingQueue, directivesBeingHandled, last)
        BY <2>1, <2>5 DEF Disable, QueueAllForCancellation
      <3> HIDE DEF last, first
      <3> QED
        BY <1>2, <2>1, <2>2, <3>1, <3>2, <3>3, NothingToMove DEF TypeOK
    <2>6. ASSUME NEW d \in Directive, SetCompleted(d)
          PROVE  isShuttingDown' /\ cancelingQueue' = <<>>
      BY <2>1, <2>6, EraseNothing DEF SetCompleted, CancelingQueueWithout
    <2>7. ASSUME NEW d \in Directive, SetFailed(d)
          PROVE  isShuttingDown' /\ cancelingQueue' = <<>>
      <3>1. isShuttingDown' /\ ScrubQueues(DialogOf[d], CancelingQueueWithout(d),
                PreHandledWithout(d), HandlingQueueWithout(d), BeingHandledWithout(d))
        BY <2>1, <2>7 DEF SetFailed
      <3>2. CancelingQueueWithout(d) = <<>> /\ PreHandledWithout(d) = None
        BY <2>1, <2>2, EraseNothing DEF CancelingQueueWithout, PreHandledWithout
      <3>3. HandlingQueueWithout(d) = {} /\ HandlingQueueWithout(d) \in SUBSET Item
        BY <2>2 DEF HandlingQueueWithout
      <3>4. BeingHandledWithout(d) \in [Medium -> Directive \cup {None}]
        BY WithoutType
      <3>5. Holders(BeingHandledWithout(d)) = {}
        BY <2>2, HoldersOfRelease DEF BeingHandledWithout, TypeOK
      <3>6. CancelingQueueWithout(d) \in Seq(Directive)
        BY <3>2, EmptySeq
      <3> QED
        BY <1>2, <3>1, <3>2, <3>3, <3>4, <3>5, <3>6, ScrubNothing
    <2>8. ASSUME ReceivingThread PROVE isShuttingDown' /\ cancelingQueue' = <<>>
      BY <2>3, <2>8 DEF ReceivingThread, RefuseDirective, DropDirective, AcceptDirective,
                        PreHandleDirective, AbandonDirective, EnqueueDirective
    <2>9. ASSUME Enable \/ Unregister \/ Join PROVE isShuttingDown' /\ cancelingQueue' = <<>>
      BY <2>3, <2>9 DEF Enable, Unregister, Join
    <2>10. ASSUME NEW d \in Directive, IgnoreReport(d)
           PROVE  isShuttingDown' /\ cancelingQueue' = <<>>
      BY <2>3, <2>10 DEF IgnoreReport
    <2>11. ASSUME BeginShutdown PROVE FALSE
      BY <2>1, <2>11 DEF BeginShutdown
    <2>12. ASSUME ProcessingThread \/ SpuriousWakeup PROVE FALSE
      BY <1>3, <2>12 DEF ProcessingThread, EvaluateWake, TakeCancelingQueue, CancelDirective,
                         AllCancelled, TakeDirective, HandleDirective, HandleSucceeded,
                         HandleRejected, EndPass, SpuriousWakeup
    <2>13. ASSUME UNCHANGED vars PROVE isShuttingDown' /\ cancelingQueue' = <<>>
      BY <2>3, <2>13 DEF vars
    <2> QED
      BY <2>4, <2>5, <2>6, <2>7, <2>8, <2>9, <2>10, <2>11, <2>12, <2>13
      DEF Next, Handler, Owner
  <1>4. CASE pc # "exited"
    <2>1. ASSUME EndPass PROVE isShuttingDown' /\ cancelingQueue' = <<>>
      BY <1>4, <2>1 DEF EndPass, WaitForWork, PassInv
    <2>2. ASSUME ~EndPass PROVE FALSE
      <3>1. CASE ProcessingThread \/ SpuriousWakeup
        BY <2>2, <3>1 DEF ProcessingThread, EvaluateWake, WaitForWork, TakeCancelingQueue,
                          CancelDirective, AllCancelled, TakeDirective, HandleDirective,
                          HandleSucceeded, HandleRejected, SpuriousWakeup
      <3>2. CASE ReceivingThread
        BY <1>4, <3>2 DEF ReceivingThread, RefuseDirective, DropDirective, AcceptDirective,
                          PreHandleDirective, AbandonDirective, EnqueueDirective, NotifyIf
      <3>3. ASSUME NEW d \in Directive, Handler(d) PROVE FALSE
        BY <1>4, <3>3 DEF Handler, SetCompleted, SetFailed, IgnoreReport, NotifyIf
      <3>4. CASE Owner
        BY <1>4, <3>4 DEF Owner, SetDialogRequestId, Disable, Enable, Unregister,
                          BeginShutdown, Join, NotifyIf
      <3>5. CASE UNCHANGED vars
        BY <1>4, <3>5 DEF vars
      <3> QED
        BY <3>1, <3>2, <3>3, <3>4, <3>5 DEF Next
    <2> QED
      BY <2>1, <2>2
  <1> QED
    BY <1>3, <1>4

\* Every pass of the processing thread accounts for what it leaves behind.
LEMMA PassStep == StopInv /\ [Next]_vars => PassInv'
  <1> SUFFICES ASSUME StopInv, [Next]_vars PROVE PassInv'
    OBVIOUS
  <1> USE DEF state, owner, thread, history, StopInv
  <1>1. ASSUME UNCHANGED <<pc, progress, cancelingQueue>> PROVE PassInv'
    BY <1>1 DEF PassInv
  <1>2. CASE ProcessingThread \/ SpuriousWakeup
    BY <1>2 DEF ProcessingThread, EvaluateWake, WaitForWork, TakeCancelingQueue,
                CancelDirective, AllCancelled, TakeDirective, HandleDirective,
                HandleSucceeded, HandleRejected, EndPass, SpuriousWakeup, PassInv
  <1>3. CASE ReceivingThread
    BY <1>3 DEF ReceivingThread, RefuseDirective, DropDirective, AcceptDirective,
                PreHandleDirective, AbandonDirective, EnqueueDirective, NotifyIf,
                MutexFree, PassInv
  <1>4. ASSUME NEW d \in Directive, Handler(d) PROVE PassInv'
    BY <1>4 DEF Handler, SetCompleted, SetFailed, IgnoreReport, NotifyIf, MutexFree, PassInv
  <1>5. CASE Owner
    <2>1. ASSUME Enable \/ Unregister \/ Join PROVE PassInv'
      BY <1>1, <2>1 DEF Enable, Unregister, Join
    <2>2. ASSUME Disable \/ BeginShutdown PROVE PassInv'
      BY <2>2 DEF Disable, BeginShutdown, NotifyIf, MutexFree, PassInv
    <2>3. ASSUME NEW id \in DialogId \cup {NoDialog}, SetDialogRequestId(id) PROVE PassInv'
      BY <2>3 DEF SetDialogRequestId, NotifyIf, MutexFree, PassInv
    <2> QED
      BY <1>5, <2>1, <2>2, <2>3 DEF Owner
  <1>6. CASE UNCHANGED vars
    BY <1>1, <1>6 DEF vars
  <1> QED
    BY <1>2, <1>3, <1>4, <1>5, <1>6 DEF Next

LEMMA StopStep == StopInv /\ [Next]_vars => StopInv'
  <1> SUFFICES ASSUME StopInv, [Next]_vars PROVE StopInv'
    OBVIOUS
  <1>1. TypeOK' /\ PreHandledIsReceived'
    BY TypeStep, PreHandledStep DEF StopInv
  <1>2. PassInv'
    BY PassStep
  <1>3. pc' = "exited" => isShuttingDown' /\ cancelingQueue' = <<>>
    BY ExitStep
  <1>4. ~IsAccepting' => /\ directiveBeingPreHandled' = None
                         /\ handlingQueue' = {}
                         /\ Holders(directivesBeingHandled') = {}
    BY QuietStep DEF StopInv
  <1>5. StoppedIsQuiet'
    BY <1>3, <1>4 DEF StoppedIsQuiet, Holders
  <1> QED
    BY <1>1, <1>2, <1>5 DEF StopInv

LEMMA StopInit == Init => StopInv
  <1> SUFFICES ASSUME Init PROVE StopInv
    OBVIOUS
  <1>1. TypeOK
    BY TypeInit
  <1>2. StoppedIsQuiet /\ PreHandledIsReceived /\ PassInv
    BY DEF Init, StoppedIsQuiet, IsAccepting, PreHandledIsReceived, PassInv
  <1> QED
    BY <1>1, <1>2 DEF StopInv

\* A disabled or stopping processor holds nothing, and gets hold of nothing.
THEOREM StopIsQuiet == Spec => []StoppedIsQuiet
  <1>1. StopInv => StoppedIsQuiet
    BY DEF StopInv
  <1> QED
    BY <1>1, StopInit, StopStep, PTL DEF Spec

-----------------------------------------------------------------------------
(***************************************************************************)
(* What the canceling queue contains after a cancellation or a removal.    *)
(***************************************************************************)
\* A listing of a finite set lists each of its members once.
LEMMA ListingIsComplete ==
    ASSUME NEW S, IsFiniteSet(S), NEW s \in SetToSeqs(S)
    PROVE  Range(s) = S /\ IsInjective(s)
  <1> DEFINE D == 1..Cardinality(S)
  <1>1. Cardinality(S) \in Nat
    BY FS_CardinalityType
  <1>2. s \in [D -> S] /\ \A i, j \in D : i # j => s[i] # s[j]
    BY DEF SetToSeqs
  <1>3. s \in Injection(D, S) /\ IsInjective(s)
    BY <1>2 DEF Injection, IsInjective
  <1>4. IsFiniteSet(D) /\ Cardinality(D) = Cardinality(S)
    BY <1>1, FS_Interval
  <1>5. s \in Surjection(D, S)
    BY <1>3, <1>4, FS_Injection
  <1> QED
    BY <1>3, <1>5 DEF Surjection, Range

LEMMA JoinOfSequences ==
    \A s, t \in Seq(Directive) : /\ s \o t \in Seq(Directive)
                                 /\ Range(s \o t) = Range(s) \cup Range(t)
  <1>1. ASSUME NEW s \in Seq(Directive), NEW t \in Seq(Directive)
        PROVE  s \o t \in Seq(Directive) /\ Range(s \o t) = Range(s) \cup Range(t)
    <2>1. s \o t \in Seq(Directive)
      BY ConcatProperties
    <2>2. Range(s \o t) = Range(s) \cup Range(t)
      BY RangeConcatenation
    <2> QED
      BY <2>1, <2>2
  <1> QED
    BY <1>1

\* What a cancellation moves: `first` and `last`, and of the doomed directives
\* those that hold a medium and those that are queued.
LEMMA CancellationMoves ==
    ASSUME NEW doomed, NEW cq \in Seq(Directive), NEW first \in Seq(Directive),
           NEW hq \in SUBSET Item, IsFiniteSet(hq),
           NEW held \in [Medium -> Directive \cup {None}], NEW last \in Seq(Directive),
           QueueForCancellation(doomed, cq, first, hq, held, last)
    PROVE  Range(cancelingQueue') =
               Range(cq) \cup Range(first) \cup (Holders(held) \cap doomed)
                   \cup (DirectivesOf(hq) \cap doomed) \cup Range(last)
  <1> DEFINE F == Holders(held) \cap doomed
             Q == DirectivesOf(hq) \cap doomed
  <1>1. IsFiniteSet(F) /\ F \subseteq Directive
    BY HoldersAreDirectives, FS_Intersection
  <1>2. IsFiniteSet(Q) /\ Q \subseteq Directive
    BY DirectivesOfQueue, FS_Intersection
  <1>3. PICK freed \in SetToSeqs(F), queued \in SetToSeqs(Q) :
             cancelingQueue' = cq \o first \o freed \o queued \o last
    BY DEF QueueForCancellation, AnyOrder, ArrivalOrder
  <1> HIDE DEF F, Q
  <1>4. freed \in Seq(Directive) /\ Range(freed) = F
    BY <1>1, ListingIsSequence, ListingIsComplete, SeqMonotonic
  <1>5. queued \in Seq(Directive) /\ Range(queued) = Q
    BY <1>2, ListingIsSequence, ListingIsComplete, SeqMonotonic
  <1>6. /\ cq \o first \in Seq(Directive)
        /\ Range(cq \o first) = Range(cq) \cup Range(first)
    BY JoinOfSequences
  <1>7. /\ cq \o first \o freed \in Seq(Directive)
        /\ Range(cq \o first \o freed) = Range(cq \o first) \cup F
    BY <1>4, <1>6, JoinOfSequences
  <1>8. /\ cq \o first \o freed \o queued \in Seq(Directive)
        /\ Range(cq \o first \o freed \o queued) = Range(cq \o first \o freed) \cup Q
    BY <1>5, <1>7, JoinOfSequences
  <1>9. Range(cancelingQueue') = Range(cq \o first \o freed \o queued) \cup Range(last)
    BY <1>3, <1>8, JoinOfSequences
  <1>10. Range(cancelingQueue') = Range(cq) \cup Range(first) \cup F \cup Q \cup Range(last)
    BY ONLY <1>6, <1>7, <1>8, <1>9
  <1> QED
    BY <1>10 DEF F, Q

\* Cutting one place out of a sequence leaves every other one.
LEMMA CutLeavesOthers ==
    ASSUME NEW q \in Seq(Directive), NEW i \in 1..Len(q)
    PROVE  LET left  == SubSeq(q, 1, i - 1)
               right == SubSeq(q, i + 1, Len(q))
           IN  /\ left \in Seq(Directive) /\ Len(left) = i - 1
               /\ \A k \in 1..(i - 1) : left[k] = q[k]
               /\ right \in Seq(Directive) /\ Len(right) = Len(q) - i
               /\ \A k \in 1..(Len(q) - i) : right[k] = q[i + k]
  <1> DEFINE left  == SubSeq(q, 1, i - 1)
             right == SubSeq(q, i + 1, Len(q))
  <1>1. Len(q) \in Nat /\ \A k \in 1..Len(q) : q[k] \in Directive
    BY LenProperties, ElementOfSeq
  <1>2. /\ left \in Seq(Directive)
        /\ Len(left) = IF 1 <= i - 1 THEN (i - 1) - 1 + 1 ELSE 0
        /\ \A k \in 1..((i - 1) - 1 + 1) : left[k] = q[1 + k - 1]
    <2>1. i - 1 \in Int /\ 1 \in Int /\ \A k \in 1..(i - 1) : q[k] \in Directive
      BY <1>1
    <2> QED
      BY <2>1, SubSeqProperties
  <1>3. /\ right \in Seq(Directive)
        /\ Len(right) = IF i + 1 <= Len(q) THEN Len(q) - (i + 1) + 1 ELSE 0
        /\ \A k \in 1..(Len(q) - (i + 1) + 1) : right[k] = q[(i + 1) + k - 1]
    <2>1. i + 1 \in Int /\ Len(q) \in Int /\ \A k \in (i + 1)..Len(q) : q[k] \in Directive
      BY <1>1
    <2> QED
      BY <2>1, SubSeqProperties
  <1> HIDE DEF left, right
  <1>4. Len(left) = i - 1 /\ \A k \in 1..(i - 1) : left[k] = q[k]
    BY <1>1, <1>2
  <1>5. Len(right) = Len(q) - i
    BY <1>1, <1>3
  <1>6. \A k \in 1..(Len(q) - i) : right[k] = q[i + k]
    BY <1>1, <1>3
  <1> QED
    BY <1>2, <1>3, <1>4, <1>5, <1>6 DEF left, right

\* Erasing a directive leaves every other one.
LEMMA EraseLeavesOthers ==
    ASSUME NEW q \in Seq(Directive), NEW d
    PROVE  /\ Range(Erase(q, d)) \subseteq Range(q)
           /\ Range(q) \ {d} \subseteq Range(Erase(q, d))
  <1>1. CASE \E i \in DOMAIN q : q[i] = d
    <2>1. PICK i \in 1..Len(q) : /\ q[i] = d
                                 /\ Erase(q, d) = SubSeq(q, 1, i - 1) \o SubSeq(q, i + 1, Len(q))
      BY <1>1, LenProperties DEF Erase
    <2> DEFINE left  == SubSeq(q, 1, i - 1)
               right == SubSeq(q, i + 1, Len(q))
    <2>2. /\ left \in Seq(Directive) /\ Len(left) = i - 1
          /\ \A k \in 1..(i - 1) : left[k] = q[k]
          /\ right \in Seq(Directive) /\ Len(right) = Len(q) - i
          /\ \A k \in 1..(Len(q) - i) : right[k] = q[i + k]
          /\ Len(q) \in Nat
      BY CutLeavesOthers, LenProperties
    <2>3. Erase(q, d) = left \o right
      BY <2>1
    <2> HIDE DEF left, right
    <2>4. /\ Range(left) = {left[k] : k \in 1..(i - 1)}
          /\ Range(right) = {right[k] : k \in 1..(Len(q) - i)}
          /\ Range(q) = {q[k] : k \in 1..Len(q)}
      BY <2>2, RangeEquality
    <2>5. Range(Erase(q, d)) = Range(left) \cup Range(right)
      BY <2>2, <2>3, JoinOfSequences
    <2>6. ASSUME NEW e \in Range(left) \cup Range(right) PROVE e \in Range(q)
      <3>1. CASE e \in Range(left)
        BY <2>2, <2>4, <3>1
      <3>2. CASE e \in Range(right)
        <4>1. PICK k \in 1..(Len(q) - i) : e = right[k]
          BY <2>4, <3>2
        <4>2. i + k \in 1..Len(q) /\ e = q[i + k]
          BY <2>2, <4>1
        <4> QED
          BY <2>4, <4>2
      <3> QED
        BY <2>6, <3>1, <3>2
    <2>7. ASSUME NEW e \in Range(q) \ {d} PROVE e \in Range(left) \cup Range(right)
      <3>1. PICK k \in 1..Len(q) : e = q[k]
        BY <2>4, <2>7
      <3>2. k # i
        BY <2>1, <2>7, <3>1
      <3>3. CASE k < i
        <4>1. k \in 1..(i - 1) /\ left[k] = q[k]
          BY <2>2, <3>1, <3>3
        <4> QED
          BY <2>4, <3>1, <4>1
      <3>4. CASE k > i
        <4>1. k - i \in 1..(Len(q) - i) /\ right[k - i] = q[k]
          BY <2>2, <3>1, <3>4
        <4> QED
          BY <2>4, <3>1, <4>1
      <3> QED
        BY <2>2, <3>1, <3>2, <3>3, <3>4
    <2> QED
      BY <2>5, <2>6, <2>7
  <1>2. CASE ~ \E i \in DOMAIN q : q[i] = d
    BY <1>2 DEF Erase
  <1> QED
    BY <1>1, <1>2

-----------------------------------------------------------------------------
(***************************************************************************)
(* What a step leaves of a directive.  One that is not settled stays where *)
(* it is, but for the steps that take it from the handling queue and that  *)
(* free its mediums.                                                       *)
(***************************************************************************)
\* Of the queues cq, hq and held, everything remains that is not cancelled.
Keeps(cq, hq, held) ==
    /\ Range(cq) \subseteq Range(cancelingQueue')
    /\ handlingQueue' \subseteq hq
    /\ \A item \in hq : item \in handlingQueue' \/ item.directive \in Range(cancelingQueue')
    /\ \A m \in Medium :
           \/ directivesBeingHandled'[m] = held[m]
           \/ directivesBeingHandled'[m] = None /\ held[m] \in Range(cancelingQueue')

LEMMA CancellationKeeps ==
    ASSUME NEW doomed, NEW cq \in Seq(Directive), NEW first \in Seq(Directive),
           NEW hq \in SUBSET Item, IsFiniteSet(hq),
           NEW held \in [Medium -> Directive \cup {None}], NEW last \in Seq(Directive),
           QueueForCancellation(doomed, cq, first, hq, held, last), None \notin doomed
    PROVE  Keeps(cq, hq, held)
  <1>1. Range(cancelingQueue') =
            Range(cq) \cup Range(first) \cup (Holders(held) \cap doomed)
                \cup (DirectivesOf(hq) \cap doomed) \cup Range(last)
    BY CancellationMoves
  <1>2. /\ handlingQueue' = {item \in hq : item.directive \notin doomed}
        /\ directivesBeingHandled' = Release(held, doomed)
    BY DEF QueueForCancellation
  <1>3. ASSUME NEW item \in hq, item \notin handlingQueue'
        PROVE  item.directive \in DirectivesOf(hq) \cap doomed
    BY <1>2, <1>3 DEF DirectivesOf
  <1>4. ASSUME NEW m \in Medium, directivesBeingHandled'[m] # held[m]
        PROVE  directivesBeingHandled'[m] = None /\ held[m] \in Holders(held) \cap doomed
    BY <1>2, <1>4 DEF Release, Holders
  <1> QED
    BY <1>1, <1>2, <1>3, <1>4 DEF Keeps

LEMMA ScrubKeeps ==
    ASSUME NEW id, NEW cq \in Seq(Directive), NEW pre \in Directive \cup {None},
           NEW hq \in SUBSET Item, IsFiniteSet(hq),
           NEW held \in [Medium -> Directive \cup {None}],
           ScrubQueues(id, cq, pre, hq, held)
    PROVE  Keeps(cq, hq, held)
  <1> DEFINE doomed == DirectivesOfDialog(id)
             first == OneIf(pre, pre \in doomed)
  <1>1. first \in Seq(Directive) /\ <<>> \in Seq(Directive) /\ None \notin doomed
    BY ProcessorAssumption, EmptySeq DEF OneIf, DirectivesOfDialog
  <1>2. QueueForCancellation(doomed, cq, first, hq, held, <<>>)
    BY DEF ScrubQueues
  <1> HIDE DEF doomed, first
  <1> QED
    BY <1>1, <1>2, CancellationKeeps

LEMMA CancelAllKeeps ==
    ASSUME TypeOK, QueueAllForCancellation
    PROVE  Keeps(cancelingQueue, handlingQueue, directivesBeingHandled)
  <1> DEFINE last == OneIf(directiveBeingPreHandled, directiveBeingPreHandled # None)
  <1>1. last \in Seq(Directive) /\ <<>> \in Seq(Directive) /\ None \notin Directive
    BY ProcessorAssumption DEF OneIf, TypeOK
  <1>2. QueueForCancellation(Directive, cancelingQueue, <<>>, handlingQueue,
                             directivesBeingHandled, last)
    BY DEF QueueAllForCancellation
  <1>3. /\ cancelingQueue \in Seq(Directive)
        /\ handlingQueue \in SUBSET Item /\ IsFiniteSet(handlingQueue)
        /\ directivesBeingHandled \in [Medium -> Directive \cup {None}]
    BY DEF TypeOK
  <1> HIDE DEF last
  <1> QED
    BY <1>1, <1>2, <1>3, CancellationKeeps

\* A step keeps a directive: as long as it is not settled, it stays in the
\* queue and keeps the mediums that it has.
QueueKept(d) == \A item \in handlingQueue : item.directive = d => item \in handlingQueue'
MediumsKept(d) ==
    \A m \in Medium : directivesBeingHandled[m] = d => directivesBeingHandled'[m] = d

\* The history of a directive only grows, and once settled it stays so.
LEMMA HistoryGrows ==
    ASSUME TypeOK, [Next]_vars, NEW d \in Directive
    PROVE  Range(trace[d]) \subseteq Range(trace'[d])
  <1>1. ASSUME NEW e, NEW call \in {"preHandle", "handle", "rejected", "cancel"},
               Called(e, call)
        PROVE  Range(trace[d]) \subseteq Range(trace'[d])
    <2>1. trace[d] \in Seq({"preHandle", "handle", "rejected", "cancel"})
      BY DEF TypeOK
    <2>2. trace'[d] = trace[d] \/ trace'[d] = Append(trace[d], call)
      BY <1>1 DEF Called, TypeOK
    <2>3. Range(trace[d]) \subseteq Range(Append(trace[d], call))
      BY <2>1, AppendProperties, LenProperties DEF Range
    <2> QED
      BY <2>2, <2>3
  <1>2. ASSUME UNCHANGED trace PROVE Range(trace[d]) \subseteq Range(trace'[d])
    BY <1>2
  <1>3. CASE PreHandleDirective
    BY <1>1, <1>3 DEF PreHandleDirective
  <1>4. CASE HandleDirective
    BY <1>1, <1>4 DEF HandleDirective
  <1>5. CASE HandleRejected
    BY <1>1, <1>5 DEF HandleRejected
  <1>6. CASE CancelDirective
    BY <1>1, <1>6 DEF CancelDirective
  <1>7. CASE ReceivingThread /\ ~PreHandleDirective
    BY <1>2, <1>7 DEF ReceivingThread, RefuseDirective, DropDirective, AcceptDirective,
                      AbandonDirective, EnqueueDirective, history
  <1>8. CASE SpuriousWakeup \/ (ProcessingThread /\ ~HandleDirective /\ ~HandleRejected
                                    /\ ~CancelDirective)
    BY <1>2, <1>8 DEF SpuriousWakeup, ProcessingThread, EvaluateWake, TakeCancelingQueue,
                      AllCancelled, TakeDirective, HandleSucceeded, EndPass, history
  <1>9. ASSUME NEW e \in Directive, Handler(e)
        PROVE  Range(trace[d]) \subseteq Range(trace'[d])
    BY <1>2, <1>9 DEF Handler, SetCompleted, SetFailed, IgnoreReport, history
  <1>10. CASE Owner
    BY <1>2, <1>10 DEF Owner, SetDialogRequestId, Disable, Enable, Unregister, BeginShutdown,
                       Join, history
  <1>11. CASE UNCHANGED vars
    BY <1>2, <1>11 DEF vars, history
  <1> QED
    BY <1>3, <1>4, <1>5, <1>6, <1>7, <1>8, <1>9, <1>10, <1>11 DEF Next

Final == {"completed", "failed"}

LEMMA FinalStays ==
    ASSUME TypeOK, [Next]_vars, NEW d \in Directive, PreHandleDirective => d # receiving.directive,
           result[d] \in Final
    PROVE  result'[d] \in Final
  <1> USE DEF Final
  <1>1. CASE UNCHANGED result
    BY <1>1
  <1>2. CASE PreHandleDirective
    BY <1>2 DEF PreHandleDirective, TypeOK
  <1>3. ASSUME NEW e \in Directive, Handler(e) PROVE result'[d] \in Final
    <2>1. result[e] = "open" /\ \E outcome \in Final : result' = [result EXCEPT ![e] = outcome]
      BY <1>3 DEF Handler, SetCompleted, SetFailed, IgnoreReport, Report
    <2> QED
      BY <2>1 DEF TypeOK
  <1>4. CASE ReceivingThread /\ ~PreHandleDirective
    BY <1>1, <1>4 DEF ReceivingThread, RefuseDirective, DropDirective, AcceptDirective,
                      AbandonDirective, EnqueueDirective
  <1>5. CASE SpuriousWakeup \/ ProcessingThread
    BY <1>1, <1>5 DEF SpuriousWakeup, ProcessingThread, EvaluateWake, TakeCancelingQueue,
                      CancelDirective, AllCancelled, TakeDirective, HandleDirective,
                      HandleSucceeded, HandleRejected, EndPass
  <1>6. CASE Owner
    BY <1>1, <1>6 DEF Owner, SetDialogRequestId, Disable, Enable, Unregister, BeginShutdown, Join
  <1>7. CASE UNCHANGED vars
    BY <1>1, <1>7 DEF vars
  <1> QED
    BY <1>2, <1>3, <1>4, <1>5, <1>6, <1>7 DEF Next

\* What removeDirectiveLocked() leaves of another directive.
LEMMA WithoutKeeps ==
    ASSUME TypeOK, NEW e \in Directive, NEW d \in Directive, d # e
    PROVE  /\ d \in Range(cancelingQueue) => d \in Range(CancelingQueueWithout(e))
           /\ \A item \in handlingQueue :
                  item.directive = d => item \in HandlingQueueWithout(e)
           /\ \A m \in Medium :
                  directivesBeingHandled[m] = d => BeingHandledWithout(e)[m] = d
  <1>1. d \in Range(cancelingQueue) => d \in Range(CancelingQueueWithout(e))
    BY EraseLeavesOthers DEF CancelingQueueWithout, TypeOK
  <1>2. \A item \in handlingQueue : item.directive = d => item \in HandlingQueueWithout(e)
    BY DEF HandlingQueueWithout
  <1>3. \A m \in Medium : directivesBeingHandled[m] = d => BeingHandledWithout(e)[m] = d
    BY DEF BeingHandledWithout, Release
  <1> QED
    BY <1>1, <1>2, <1>3

\* The mediums that a step may take from a directive, and the item that it may take.
MayFree == TakeDirective \/ HandleSucceeded

\* One lemma about all steps: a directive that is not settled afterwards was not
\* so before, and is where it was.
StaysPut(d) ==
    /\ ~InCancellation(d)
    /\ ~TakeDirective => QueueKept(d)
    /\ ~MayFree => MediumsKept(d)

\* While its handleDirective() call lasts, a directive is the only one that may
\* hold its mediums.
MediumsOfHandled ==
    \A m \in handling.policy.mediums :
        directivesBeingHandled[m] \in {handling.directive, None}

\* The swapped-out queue is empty but while it is worked through.
SwappedOut == pc # "canceling" => canceling = <<>>

LEMMA UnsettledStaysPut ==
    ASSUME TypeOK, SwappedOut, MediumsOfHandled, [Next]_vars, NEW d \in Directive, ~IsSettled(d)'
    PROVE  StaysPut(d)
  <1> USE DEF state, owner, thread, history
  <1>1. /\ d \notin Range(cancelingQueue') /\ d \notin Range(canceling')
        /\ result'[d] \notin Final
        /\ "rejected" \notin Range(trace'[d]) /\ "cancel" \notin Range(trace'[d])
    BY DEF IsSettled, InCancellation, HasBeen, Final
  <1>2. d # None
    BY ProcessorAssumption
  <1>3. ASSUME UNCHANGED <<handlingQueue, directivesBeingHandled, cancelingQueue, canceling>>
        PROVE  StaysPut(d)
    BY <1>1, <1>3 DEF StaysPut, InCancellation, QueueKept, MediumsKept
  <1>4. ASSUME Keeps(cancelingQueue, handlingQueue, directivesBeingHandled), UNCHANGED canceling
        PROVE  StaysPut(d)
    <2>1. /\ d \notin Range(cancelingQueue)
          /\ \A item \in handlingQueue : item.directive = d => item \in handlingQueue'
          /\ \A m \in Medium : directivesBeingHandled[m] = d => directivesBeingHandled'[m] = d
      BY <1>1, <1>4 DEF Keeps
    <2> QED
      BY <1>1, <1>4, <2>1 DEF StaysPut, InCancellation, QueueKept, MediumsKept
  <1>5. ASSUME NEW id, SetDialogRequestId(id) PROVE StaysPut(d)
    <2>1. Keeps(cancelingQueue, handlingQueue, directivesBeingHandled)
      BY <1>5, ScrubKeeps DEF SetDialogRequestId, TypeOK
    <2> QED
      BY <1>4, <1>5, <2>1 DEF SetDialogRequestId
  <1>6. CASE Disable \/ BeginShutdown
    BY <1>4, <1>6, CancelAllKeeps DEF Disable, BeginShutdown
  <1>7. ASSUME NEW e \in Directive, SetCompleted(e) \/ SetFailed(e) PROVE StaysPut(d)
    <2>1. d # e /\ UNCHANGED canceling
      BY <1>1, <1>7 DEF SetCompleted, SetFailed, Report, Final, TypeOK
    <2>2. /\ d \notin Range(CancelingQueueWithout(e))
          /\ \A item \in HandlingQueueWithout(e) : item.directive = d => item \in handlingQueue'
          /\ \A m \in Medium : BeingHandledWithout(e)[m] = d => directivesBeingHandled'[m] = d
      <3>1. CASE SetCompleted(e)
        BY <1>1, <3>1 DEF SetCompleted
      <3>2. CASE SetFailed(e)
        <4>1. Keeps(CancelingQueueWithout(e), HandlingQueueWithout(e), BeingHandledWithout(e))
          BY <3>2, WithoutType, ScrubKeeps DEF SetFailed
        <4> QED
          BY <1>1, <4>1 DEF Keeps
      <3> QED
        BY <1>7, <3>1, <3>2
    <2> QED
      BY <1>1, <2>1, <2>2, WithoutKeeps DEF StaysPut, InCancellation, QueueKept, MediumsKept
  <1>8. CASE EnqueueDirective
    BY <1>1, <1>8 DEF EnqueueDirective, StaysPut, InCancellation, QueueKept, MediumsKept
  <1>9. CASE TakeCancelingQueue
    <2>1. canceling = <<>> /\ d \notin Range(canceling)
      BY <1>9, EmptySeq DEF TakeCancelingQueue, SwappedOut, Range
    <2>2. d \notin Range(cancelingQueue)
      BY <1>1, <1>9 DEF TakeCancelingQueue
    <2> QED
      BY <1>9, <2>1, <2>2
      DEF TakeCancelingQueue, StaysPut, InCancellation, QueueKept, MediumsKept
  <1>10. CASE CancelDirective
    <2>1. /\ canceling \in Seq(Directive) /\ canceling # <<>>
          /\ canceling' = Tail(canceling)
          /\ Called(Head(canceling), "cancel")
      BY <1>10 DEF CancelDirective, TypeOK
    <2>2. d # Head(canceling)
      <3>1. SUFFICES ASSUME d = Head(canceling) PROVE FALSE
        OBVIOUS
      <3>2. trace'[d] = Append(trace[d], "cancel")
        BY <2>1, <3>1 DEF Called, TypeOK
      <3>3. trace[d] \in Seq({"preHandle", "handle", "rejected", "cancel"})
        BY DEF TypeOK
      <3>4. "cancel" \in Range(trace'[d])
        BY <3>2, <3>3, AppendProperties, LenProperties DEF Range
      <3> QED
        BY <1>1, <3>4
    <2>3. Range(canceling) \subseteq {Head(canceling)} \cup Range(Tail(canceling))
      <3> SUFFICES ASSUME NEW i \in 1..Len(canceling), canceling[i] # Head(canceling)
                   PROVE  canceling[i] \in Range(Tail(canceling))
        BY <2>1, RangeEquality
      <3>1. /\ Tail(canceling) \in Seq(Directive) /\ Len(Tail(canceling)) = Len(canceling) - 1
            /\ \A k \in 1..Len(Tail(canceling)) : Tail(canceling)[k] = canceling[k + 1]
            /\ Len(canceling) \in Nat
        BY <2>1, HeadTailProperties, LenProperties
      <3>2. i # 1
        BY <2>1
      <3>3. i - 1 \in 1..Len(Tail(canceling)) /\ Tail(canceling)[i - 1] = canceling[i]
        BY <3>1, <3>2
      <3> QED
        BY <3>1, <3>3, RangeEquality
    <2> QED
      BY <1>1, <1>10, <2>1, <2>2, <2>3
      DEF CancelDirective, StaysPut, InCancellation, QueueKept, MediumsKept
  <1>11. CASE TakeDirective
    BY <1>1, <1>11 DEF TakeDirective, StaysPut, MayFree, InCancellation
  <1>12. CASE HandleSucceeded
    BY <1>1, <1>12 DEF HandleSucceeded, StaysPut, MayFree, InCancellation, QueueKept
  <1>13. CASE HandleRejected
    <2> DEFINE held == ClearBeingHandled(handling.policy)
    <2>1. held \in [Medium -> Directive \cup {None}]
      BY DEF ClearBeingHandled, TypeOK
    <2>2. Keeps(cancelingQueue, handlingQueue, held) /\ UNCHANGED canceling
      BY <1>13, <2>1, ScrubKeeps DEF HandleRejected, TypeOK
    <2>3. d # handling.directive
      <3>1. SUFFICES ASSUME d = handling.directive PROVE FALSE
        OBVIOUS
      <3>2. trace'[d] = Append(trace[d], "rejected")
        BY <1>13, <3>1 DEF HandleRejected, Called, TypeOK
      <3>3. trace[d] \in Seq({"preHandle", "handle", "rejected", "cancel"})
        BY DEF TypeOK
      <3>4. "rejected" \in Range(trace'[d])
        BY <3>2, <3>3, AppendProperties, LenProperties DEF Range
      <3> QED
        BY <1>1, <3>4
    <2>4. \A m \in Medium : directivesBeingHandled[m] = d => held[m] = d
      BY <1>2, <2>3 DEF ClearBeingHandled, MediumsOfHandled
    <2> HIDE DEF held
    <2>5. /\ d \notin Range(cancelingQueue)
          /\ \A item \in handlingQueue : item.directive = d => item \in handlingQueue'
          /\ \A m \in Medium : held[m] = d => directivesBeingHandled'[m] = d
      BY <1>1, <2>2 DEF Keeps
    <2> QED
      BY <1>1, <2>2, <2>4, <2>5 DEF StaysPut, InCancellation, QueueKept, MediumsKept
  <1>14. CASE ReceivingThread
    BY <1>3, <1>8, <1>14 DEF ReceivingThread, RefuseDirective, DropDirective, AcceptDirective,
                             PreHandleDirective, AbandonDirective
  <1>15. CASE SpuriousWakeup \/ ProcessingThread
    BY <1>3, <1>9, <1>10, <1>11, <1>12, <1>13, <1>15
    DEF SpuriousWakeup, ProcessingThread, EvaluateWake, AllCancelled, HandleDirective, EndPass
  <1>16. ASSUME NEW e \in Directive, Handler(e) PROVE StaysPut(d)
    BY <1>3, <1>7, <1>16 DEF Handler, IgnoreReport
  <1>17. CASE Owner
    BY <1>3, <1>5, <1>6, <1>17 DEF Owner, Enable, Unregister, Join
  <1>18. CASE UNCHANGED vars
    BY <1>3, <1>18 DEF vars
  <1> QED
    BY <1>14, <1>15, <1>16, <1>17, <1>18 DEF Next

\* A directive that is settled stays so.
LEMMA SettledStays ==
    ASSUME TypeOK, SwappedOut, MediumsOfHandled, [Next]_vars, NEW d \in Directive,
           PreHandleDirective => d # receiving.directive, IsSettled(d)
    PROVE  IsSettled(d)'
  <1> SUFFICES ASSUME ~IsSettled(d)' PROVE FALSE
    OBVIOUS
  <1>1. ~InCancellation(d)
    BY UnsettledStaysPut DEF StaysPut
  <1>2. \A call : HasBeen(d, call) => HasBeen(d, call)'
    BY HistoryGrows DEF HasBeen
  <1>3. result[d] \notin Final
    BY FinalStays DEF IsSettled, Final
  <1> QED
    BY <1>1, <1>2, <1>3 DEF IsSettled, Final

-----------------------------------------------------------------------------
(***************************************************************************)
(* The items and the processing thread.  Five actions queue, take, handle  *)
(* and finish an item; every other one is ordinary: it can only take items *)
(* out of the queue and mediums from their holders.                        *)
(***************************************************************************)
Ordinary ==
    /\ UNCHANGED <<arrived, handling>>
    /\ handlingQueue' \subseteq handlingQueue
    /\ \A m \in Medium : directivesBeingHandled'[m] \in {directivesBeingHandled[m], None}
    /\ pc' = pc \/ {pc, pc'} \cap {"toHandle", "handling"} = {}
    /\ pc' # "canceling" => canceling' = <<>> \/ (pc # "canceling" /\ canceling' = canceling)
    /\ \A d \in Directive : "handle" \in Range(trace'[d]) => HasBeen(d, "handle")
    /\ offered \subseteq offered'
    /\ receiving'.directive \in {receiving.directive, None} \cup (offered' \ offered)

\* Only HandleDirective adds a "handle" to a history.
LEMMA OtherCalls ==
    ASSUME TypeOK, NEW e, NEW call \in {"preHandle", "rejected", "cancel"}, Called(e, call),
           NEW d \in Directive, "handle" \in Range(trace'[d])
    PROVE  HasBeen(d, "handle")
  <1>1. trace[d] \in Seq({"preHandle", "handle", "rejected", "cancel"})
    BY DEF TypeOK
  <1>2. trace'[d] = trace[d] \/ trace'[d] = Append(trace[d], call)
    BY DEF Called, TypeOK
  <1>3. Range(Append(trace[d], call)) \subseteq Range(trace[d]) \cup {call}
    BY <1>1, AppendProperties, LenProperties DEF Range
  <1>4. "handle" # call
    OBVIOUS
  <1>5. CASE trace'[d] = trace[d]
    BY <1>5 DEF HasBeen
  <1>6. CASE trace'[d] = Append(trace[d], call)
    <2>1. "handle" \in Range(trace[d]) \cup {call}
      BY <1>3, <1>6
    <2> QED
      BY <1>4, <2>1 DEF HasBeen
  <1> QED
    BY <1>2, <1>5, <1>6

LEMMA NotifyIsOrdinary ==
    ASSUME NEW condition, NotifyIf(condition)
    PROVE  /\ pc' = pc \/ {pc, pc'} \cap {"toHandle", "handling"} = {}
           /\ pc' = "canceling" <=> pc = "canceling"
  BY DEF NotifyIf

LEMMA KeepsIsOrdinary ==
    ASSUME TypeOK, NEW cq, NEW hq, NEW held, Keeps(cq, hq, held), hq \subseteq handlingQueue,
           \A m \in Medium : held[m] \in {directivesBeingHandled[m], None}
    PROVE  /\ handlingQueue' \subseteq handlingQueue
           /\ \A m \in Medium : directivesBeingHandled'[m] \in {directivesBeingHandled[m], None}
  BY DEF Keeps

LEMMA OrdinaryStep ==
    ASSUME TypeOK, [Next]_vars
    PROVE  \/ Ordinary \/ EnqueueDirective
           \/ TakeDirective \/ HandleDirective \/ HandleSucceeded \/ HandleRejected
  <1> USE DEF state, owner, thread, history
  <1>1. \A d \in Directive : UNCHANGED trace /\ "handle" \in Range(trace'[d]) => HasBeen(d, "handle")
    BY DEF HasBeen
  <1>2. ASSUME NEW d \in Directive, RefuseDirective(d) \/ DropDirective(d) \/ AcceptDirective(d)
        PROVE  Ordinary
    BY <1>1, <1>2 DEF RefuseDirective, DropDirective, AcceptDirective, Offer, Ordinary
  <1>3. CASE PreHandleDirective
    <2>1. receiving'.directive = receiving.directive
      BY <1>3 DEF PreHandleDirective, TypeOK, Idle
    <2>2. \A d \in Directive : "handle" \in Range(trace'[d]) => HasBeen(d, "handle")
      BY <1>3, OtherCalls DEF PreHandleDirective
    <2> QED
      BY <1>3, <2>1, <2>2 DEF PreHandleDirective, Ordinary
  <1>4. CASE AbandonDirective
    BY <1>1, <1>4 DEF AbandonDirective, Ordinary, Idle
  <1>5. ASSUME NEW id, SetDialogRequestId(id) PROVE Ordinary
    <2>1. Keeps(cancelingQueue, handlingQueue, directivesBeingHandled)
      BY <1>5, ScrubKeeps DEF SetDialogRequestId, TypeOK
    <2> QED
      BY <1>1, <1>5, <2>1, KeepsIsOrdinary, NotifyIsOrdinary DEF SetDialogRequestId, Ordinary
  <1>6. CASE Disable \/ BeginShutdown
    <2>1. Keeps(cancelingQueue, handlingQueue, directivesBeingHandled)
      BY <1>6, CancelAllKeeps DEF Disable, BeginShutdown
    <2> QED
      BY <1>1, <1>6, <2>1, KeepsIsOrdinary, NotifyIsOrdinary DEF Disable, BeginShutdown, Ordinary
  <1>7. CASE Enable \/ Unregister \/ Join
    BY <1>1, <1>7 DEF Enable, Unregister, Join, Ordinary
  <1>8. ASSUME NEW e \in Directive, SetCompleted(e) \/ SetFailed(e) PROVE Ordinary
    <2>1. /\ HandlingQueueWithout(e) \subseteq handlingQueue
          /\ \A m \in Medium : BeingHandledWithout(e)[m] \in {directivesBeingHandled[m], None}
      BY DEF HandlingQueueWithout, BeingHandledWithout, Release
    <2>2. /\ handlingQueue' \subseteq handlingQueue
          /\ \A m \in Medium : directivesBeingHandled'[m] \in {directivesBeingHandled[m], None}
      <3>1. CASE SetCompleted(e)
        BY <2>1, <3>1 DEF SetCompleted
      <3>2. CASE SetFailed(e)
        <4>1. Keeps(CancelingQueueWithout(e), HandlingQueueWithout(e), BeingHandledWithout(e))
          BY <3>2, WithoutType, ScrubKeeps DEF SetFailed
        <4> QED
          BY <2>1, <4>1, KeepsIsOrdinary
      <3> QED
        BY <1>8, <3>1, <3>2
    <2> QED
      BY <1>1, <1>8, <2>2, NotifyIsOrdinary DEF SetCompleted, SetFailed, Ordinary
  <1>9. ASSUME NEW e \in Directive, IgnoreReport(e) PROVE Ordinary
    BY <1>1, <1>9 DEF IgnoreReport, Ordinary
  <1>10. CASE EvaluateWake \/ SpuriousWakeup \/ AllCancelled \/ EndPass
    BY <1>1, <1>10 DEF EvaluateWake, SpuriousWakeup, AllCancelled, EndPass, WaitForWork, Ordinary
  <1>11. CASE TakeCancelingQueue
    BY <1>1, <1>11 DEF TakeCancelingQueue, Ordinary
  <1>12. CASE CancelDirective
    <2>1. \A d \in Directive : "handle" \in Range(trace'[d]) => HasBeen(d, "handle")
      BY <1>12, OtherCalls DEF CancelDirective
    <2> QED
      BY <1>12, <2>1 DEF CancelDirective, Ordinary
  <1>13. CASE UNCHANGED vars
    BY <1>1, <1>13 DEF vars, Ordinary
  <1> QED
    BY <1>2, <1>3, <1>4, <1>5, <1>6, <1>7, <1>8, <1>9, <1>10, <1>11, <1>12, <1>13
    DEF Next, ProcessingThread, ReceivingThread, Handler, Owner

\* Each directive is queued once, after it was offered and its onDirective() call
\* is over; what is queued or handled is one of the queued items.
ItemInv ==
    /\ \A i, j \in DOMAIN arrived : arrived[i].directive = arrived[j].directive => i = j
    /\ handlingQueue \subseteq Range(arrived)
    /\ handling \in Range(arrived) \cup {NoItem}
    /\ \A i \in DOMAIN arrived : /\ arrived[i].directive \in offered
                                 /\ arrived[i].directive # receiving.directive
    /\ receiving.directive \in offered \cup {None}

\* The processing thread has an item in hand while it handles it, and only then;
\* no other directive holds one of its mediums.
ThreadInv ==
    /\ SwappedOut
    /\ handling # NoItem <=> pc \in {"toHandle", "handling"}
    /\ pc = "handling" => HasBeen(handling.directive, "handle")
    /\ MediumsOfHandled
    /\ \A d \in Directive :
           HasBeen(d, "handle") => \E i \in DOMAIN arrived : arrived[i].directive = d

LEMMA ItemsAreItems ==
    ASSUME TypeOK
    PROVE  /\ \A i \in DOMAIN arrived : arrived[i] \in Item /\ arrived[i].directive \in Directive
           /\ Range(arrived) \subseteq Item
           /\ NoItem \notin Item
           /\ DOMAIN arrived = 1..Len(arrived) /\ Len(arrived) \in Nat
  <1>1. \A i \in DOMAIN arrived : arrived[i] \in Item
    BY LenProperties DEF TypeOK
  <1>2. NoItem \notin Item
    BY ProcessorAssumption DEF NoItem, Item
  <1>3. DOMAIN arrived = 1..Len(arrived) /\ Len(arrived) \in Nat
    BY LenProperties DEF TypeOK
  <1> QED
    BY <1>1, <1>2, <1>3, ItemFields DEF Range

\* What EnqueueDirective adds.
LEMMA NewItem ==
    ASSUME TypeOK, ItemInv, EnqueueDirective
    PROVE  LET item == [directive |-> receiving.directive, policy |-> receiving.policy]
               last == Len(arrived) + 1
           IN  /\ item \in Item /\ handlingQueue' = handlingQueue \cup {item}
               /\ arrived' = Append(arrived, item)
               /\ DOMAIN arrived' = DOMAIN arrived \cup {last} /\ last \notin DOMAIN arrived
               /\ \A i \in DOMAIN arrived : arrived'[i] = arrived[i] /\ i < last
               /\ arrived'[last] = item
               /\ \A i \in DOMAIN arrived : arrived[i].directive # item.directive
               /\ Range(arrived') = Range(arrived) \cup {item}
  <1> DEFINE item == [directive |-> receiving.directive, policy |-> receiving.policy]
             last == Len(arrived) + 1
  <1>1. item \in Item
    BY DEF EnqueueDirective, TypeOK, Idle, Item
  <1>2. handlingQueue' = handlingQueue \cup {item} /\ arrived' = Append(arrived, item)
    BY DEF EnqueueDirective
  <1>3. \A i \in DOMAIN arrived : arrived[i].directive # item.directive
    BY DEF ItemInv
  <1> HIDE DEF item
  <1>4. /\ Append(arrived, item) \in Seq(Item) /\ Len(Append(arrived, item)) = Len(arrived) + 1
        /\ \A i \in 1..Len(arrived) : Append(arrived, item)[i] = arrived[i]
        /\ Append(arrived, item)[Len(arrived) + 1] = item
        /\ arrived \in Seq(Item)
    BY <1>1, AppendProperties DEF TypeOK
  <1>5. /\ DOMAIN arrived' = DOMAIN arrived \cup {last} /\ last \notin DOMAIN arrived
        /\ \A i \in DOMAIN arrived : arrived'[i] = arrived[i] /\ i < last
        /\ arrived'[last] = item
    BY <1>2, <1>4, LenProperties
  <1> HIDE DEF last
  <1>6. Range(arrived') = Range(arrived) \cup {item}
    BY <1>5 DEF Range
  <1> QED
    BY <1>1, <1>2, <1>3, <1>5, <1>6 DEF item, last

\* What TakeDirective does with the item it takes.
LEMMA TakenItem ==
    ASSUME TypeOK, TakeDirective
    PROVE  \E item \in handlingQueue :
               /\ IsNextUnblocked(item) /\ item \in Item
               /\ directivesBeingHandled' =
                      [m \in Medium |-> IF m \in item.policy.mediums THEN item.directive
                                        ELSE directivesBeingHandled[m]]
               /\ handlingQueue' = handlingQueue \ {item}
               /\ handling' = item
               /\ \A m \in item.policy.mediums : directivesBeingHandled[m] = None
  <1>1. PICK item \in handlingQueue :
            /\ IsNextUnblocked(item)
            /\ directivesBeingHandled' =
                   [m \in Medium |-> IF m \in item.policy.mediums THEN item.directive
                                     ELSE directivesBeingHandled[m]]
            /\ handlingQueue' = handlingQueue \ {item}
            /\ handling' = item
    BY DEF TakeDirective
  <1>2. \A m \in item.policy.mediums : directivesBeingHandled[m] = None
    BY <1>1 DEF IsNextUnblocked, UnblockedItems, Unblocked
  <1> QED
    BY <1>1, <1>2 DEF TypeOK

LEMMA RejectionIsOrdinary ==
    ASSUME TypeOK, HandleRejected
    PROVE  /\ handlingQueue' \subseteq handlingQueue
           /\ \A m \in Medium : directivesBeingHandled'[m] \in {directivesBeingHandled[m], None}
           /\ \A d \in Directive : "handle" \in Range(trace'[d]) => HasBeen(d, "handle")
  <1> DEFINE held == ClearBeingHandled(handling.policy)
  <1>1. /\ held \in [Medium -> Directive \cup {None}]
        /\ \A m \in Medium : held[m] \in {directivesBeingHandled[m], None}
    BY DEF ClearBeingHandled, TypeOK
  <1>2. ScrubQueues(DialogOf[handling.directive], cancelingQueue, directiveBeingPreHandled,
                    handlingQueue, held)
    BY DEF HandleRejected
  <1> HIDE DEF held
  <1>3. Keeps(cancelingQueue, handlingQueue, held)
    BY <1>1, <1>2, ScrubKeeps DEF TypeOK
  <1>4. \A d \in Directive : "handle" \in Range(trace'[d]) => HasBeen(d, "handle")
    BY OtherCalls DEF HandleRejected
  <1> QED
    BY <1>1, <1>3, <1>4, KeepsIsOrdinary

LEMMA ItemStep ==
    ASSUME TypeOK, ItemInv, [Next]_vars
    PROVE  ItemInv'
  <1>1. ASSUME UNCHANGED arrived, handlingQueue' \subseteq handlingQueue,
               handling' \in {handling, NoItem} \cup handlingQueue, offered \subseteq offered',
               receiving'.directive \in {receiving.directive, None} \cup (offered' \ offered)
        PROVE  ItemInv'
    <2>1. \A i \in DOMAIN arrived : arrived[i].directive # None
      BY ItemsAreItems, ProcessorAssumption
    <2> QED
      BY <1>1, <2>1 DEF ItemInv
  <1>2. CASE Ordinary
    BY <1>1, <1>2 DEF Ordinary
  <1>3. CASE EnqueueDirective
    <2> DEFINE item == [directive |-> receiving.directive, policy |-> receiving.policy]
               last == Len(arrived) + 1
    <2>1. /\ item \in Item /\ handlingQueue' = handlingQueue \cup {item}
          /\ DOMAIN arrived' = DOMAIN arrived \cup {last} /\ last \notin DOMAIN arrived
          /\ \A i \in DOMAIN arrived : arrived'[i] = arrived[i]
          /\ arrived'[last] = item
          /\ \A i \in DOMAIN arrived : arrived[i].directive # item.directive
          /\ Range(arrived') = Range(arrived) \cup {item}
      BY <1>3, NewItem
    <2>2. /\ receiving'.directive = None /\ UNCHANGED <<handling, offered>>
          /\ item.directive = receiving.directive
      BY <1>3 DEF EnqueueDirective, Idle, thread
    <2>3. item.directive # None /\ item.directive \in offered
      BY <2>1, <2>2, ItemFields, ProcessorAssumption DEF ItemInv
    <2>4. \A i \in DOMAIN arrived : arrived[i].directive # None
      BY ItemsAreItems, ProcessorAssumption
    <2> HIDE DEF item, last
    <2>5. \A i, j \in DOMAIN arrived' : arrived'[i].directive = arrived'[j].directive => i = j
      BY <2>1 DEF ItemInv
    <2>6. \A i \in DOMAIN arrived' : arrived'[i].directive \in offered /\ arrived'[i].directive # None
      BY <2>1, <2>3, <2>4 DEF ItemInv
    <2> QED
      BY <2>1, <2>2, <2>5, <2>6 DEF ItemInv
  <1>4. CASE TakeDirective
    <2>1. UNCHANGED <<arrived, offered, receiving>>
      BY <1>4 DEF TakeDirective, history
    <2> QED
      BY <1>1, <1>4, <2>1, TakenItem
  <1>5. CASE HandleDirective
    BY <1>1, <1>5 DEF HandleDirective, state
  <1>6. CASE HandleSucceeded
    BY <1>1, <1>6 DEF HandleSucceeded, history
  <1>7. CASE HandleRejected
    <2>1. UNCHANGED <<arrived, offered, receiving>> /\ handling' = NoItem
      BY <1>7 DEF HandleRejected
    <2> QED
      BY <1>1, <1>7, <2>1, RejectionIsOrdinary
  <1> QED
    BY <1>2, <1>3, <1>4, <1>5, <1>6, <1>7, OrdinaryStep

LEMMA ThreadStep ==
    ASSUME TypeOK, ItemInv, ThreadInv, [Next]_vars
    PROVE  ThreadInv'
  <1>1. \A d \in Directive : HasBeen(d, "handle") => HasBeen(d, "handle")'
    BY HistoryGrows DEF HasBeen
  <1>2. handling # NoItem => handling.directive \in Directive /\ handling.policy.mediums \subseteq Medium
    BY ItemFields DEF TypeOK
  <1>3. NoItem.policy.mediums = {}
    BY DEF NoItem, DefaultPolicy
  <1>4. handling.policy.mediums \subseteq Medium
    BY <1>2, <1>3
  <1>5. CASE Ordinary
    <2>1. SwappedOut'
      BY <1>5 DEF Ordinary, ThreadInv, SwappedOut
    <2>2. (handling # NoItem <=> pc \in {"toHandle", "handling"})'
      BY <1>5 DEF Ordinary, ThreadInv
    <2>3. (pc = "handling" => HasBeen(handling.directive, "handle"))'
      BY <1>1, <1>2, <1>5 DEF Ordinary, ThreadInv
    <2>4. MediumsOfHandled'
      BY <1>4, <1>5 DEF Ordinary, ThreadInv, MediumsOfHandled
    <2>5. (\A d \in Directive : HasBeen(d, "handle") => \E i \in DOMAIN arrived : arrived[i].directive = d)'
      BY <1>5 DEF Ordinary, ThreadInv, HasBeen
    <2> QED
      BY <2>1, <2>2, <2>3, <2>4, <2>5 DEF ThreadInv
  <1>6. CASE EnqueueDirective
    <2>1. /\ UNCHANGED <<handling, directivesBeingHandled, trace, canceling>>
          /\ pc' = pc \/ {pc, pc'} \cap {"toHandle", "handling"} = {}
          /\ pc' = "canceling" <=> pc = "canceling"
      BY <1>6, NotifyIsOrdinary DEF EnqueueDirective
    <2>2. \A i \in DOMAIN arrived : i \in DOMAIN arrived' /\ arrived'[i] = arrived[i]
      BY <1>6, NewItem
    <2>3. SwappedOut' /\ MediumsOfHandled'
      BY <2>1 DEF ThreadInv, SwappedOut, MediumsOfHandled
    <2>4. (handling # NoItem <=> pc \in {"toHandle", "handling"})'
      BY <2>1 DEF ThreadInv
    <2>5. (pc = "handling" => HasBeen(handling.directive, "handle"))'
      BY <2>1 DEF ThreadInv, HasBeen
    <2>6. (\A d \in Directive : HasBeen(d, "handle") => \E i \in DOMAIN arrived : arrived[i].directive = d)'
      BY <2>1, <2>2 DEF ThreadInv, HasBeen
    <2> QED
      BY <2>3, <2>4, <2>5, <2>6 DEF ThreadInv
  <1>7. CASE TakeDirective
    <2>1. /\ pc = "handle" /\ pc' = "toHandle"
          /\ UNCHANGED <<canceling, arrived, trace>>
      BY <1>7 DEF TakeDirective, history
    <2>2. /\ handling' \in Item
          /\ \A m \in handling'.policy.mediums : directivesBeingHandled'[m] = handling'.directive
      BY <1>7, TakenItem, ItemFields
    <2>3. handling' # NoItem
      BY <2>2, ItemsAreItems
    <2> QED
      BY <2>1, <2>2, <2>3 DEF ThreadInv, SwappedOut, MediumsOfHandled, HasBeen
  <1>8. CASE HandleDirective
    <2>1. /\ pc = "toHandle" /\ pc' = "handling"
          /\ UNCHANGED <<canceling, arrived, handling, directivesBeingHandled>>
          /\ Called(handling.directive, "handle")
      BY <1>8 DEF HandleDirective, state
    <2>2. handling # NoItem /\ handling \in Range(arrived) /\ handling.directive \in Directive
      BY <1>2, <2>1 DEF ThreadInv, ItemInv
    <2>3. PICK i \in DOMAIN arrived : handling = arrived[i]
      BY <2>2 DEF Range
    <2>4. trace[handling.directive] \in Seq({"preHandle", "handle", "rejected", "cancel"})
      BY <2>2 DEF TypeOK
    <2>5. trace'[handling.directive] = Append(trace[handling.directive], "handle")
      BY <2>1, <2>2 DEF Called, TypeOK
    <2>6. "handle" \in Range(trace'[handling.directive])
      BY <2>4, <2>5, AppendProperties, LenProperties DEF Range
    <2>7. \A d \in Directive : d # handling.directive => trace'[d] = trace[d]
      BY <2>1 DEF Called, TypeOK
    <2>8. (\A d \in Directive : HasBeen(d, "handle") => \E k \in DOMAIN arrived : arrived[k].directive = d)'
      BY <2>1, <2>3, <2>7 DEF ThreadInv, HasBeen
    <2>9. HasBeen(handling.directive, "handle")'
      BY <2>1, <2>6 DEF HasBeen
    <2> QED
      BY <2>1, <2>2, <2>8, <2>9 DEF ThreadInv, SwappedOut, MediumsOfHandled
  <1>9. CASE HandleSucceeded \/ HandleRejected
    <2>1. /\ pc = "handling" /\ pc' = "handle" /\ handling' = NoItem
          /\ UNCHANGED <<canceling, arrived>>
      BY <1>9 DEF HandleSucceeded, HandleRejected, history
    <2>2. \A d \in Directive : "handle" \in Range(trace'[d]) => HasBeen(d, "handle")
      BY <1>9, RejectionIsOrdinary DEF HandleSucceeded, history, HasBeen
    <2>3. SwappedOut' /\ MediumsOfHandled'
      BY <1>3, <2>1 DEF ThreadInv, SwappedOut, MediumsOfHandled
    <2>4. (\A d \in Directive : HasBeen(d, "handle") => \E k \in DOMAIN arrived : arrived[k].directive = d)'
      BY <2>1, <2>2 DEF ThreadInv, HasBeen
    <2> QED
      BY <2>1, <2>3, <2>4 DEF ThreadInv
  <1> QED
    BY <1>5, <1>6, <1>7, <1>8, <1>9, OrdinaryStep

-----------------------------------------------------------------------------
(***************************************************************************)
(* No directive is forgotten, and they are handled in order.               *)
(***************************************************************************)
\* A directive that is not settled is queued, or taken and in possession of its
\* mediums if it is a blocking one.
InPossession(i) ==
    /\ HasBeen(arrived[i].directive, "handle") \/ handling = arrived[i]
    /\ arrived[i].policy.isBlocking =>
           \A m \in arrived[i].policy.mediums :
               directivesBeingHandled[m] = arrived[i].directive

Remembered(i) == IsSettled(arrived[i].directive) \/ arrived[i] \in handlingQueue \/ InPossession(i)

LEMMA ForgottenMeans == NoDirectiveForgotten <=> \A i \in DOMAIN arrived : Remembered(i)
  BY DEF NoDirectiveForgotten, Remembered, InPossession

\* Handling has begun for an item when it was taken from the queue.
Begun(i) == HasBeen(arrived[i].directive, "handle") \/ handling = arrived[i]

OrderInv ==
    \A i, j \in DOMAIN arrived :
        i < j /\ Conflict(arrived[i], arrived[j]) /\ Begun(j) => IsSettled(arrived[i].directive)

ServiceInv == TypeOK /\ ItemInv /\ ThreadInv /\ NoDirectiveForgotten /\ OrderInv

\* Once an item is queued, its directive's preHandleDirective() call is over.
LEMMA SettledItemStays ==
    ASSUME ServiceInv, [Next]_vars, NEW i \in DOMAIN arrived, IsSettled(arrived[i].directive)
    PROVE  IsSettled(arrived[i].directive)'
  <1>1. arrived[i].directive \in Directive /\ arrived[i].directive # receiving.directive
    BY ItemsAreItems DEF ServiceInv, ItemInv
  <1>2. arrived'[i] = arrived[i]
    <2>1. CASE EnqueueDirective
      BY <2>1, NewItem DEF ServiceInv
    <2>2. CASE ~EnqueueDirective
      BY <2>2, OrdinaryStep
      DEF ServiceInv, Ordinary, TakeDirective, HandleDirective, HandleSucceeded, HandleRejected,
          history
    <2> QED
      BY <2>1, <2>2
  <1> QED
    BY <1>1, <1>2, SettledStays DEF ServiceInv, ThreadInv

\* The step that keeps one item remembered.
LEMMA ItemStaysRemembered ==
    ASSUME ServiceInv, [Next]_vars, NEW i \in DOMAIN arrived, arrived'[i] = arrived[i],
           Remembered(i)
    PROVE  Remembered(i)'
  <1> DEFINE d == arrived[i].directive
             policy == arrived[i].policy
  <1> SUFFICES ASSUME ~IsSettled(d)' PROVE Remembered(i)'
    BY DEF Remembered
  <1>1. /\ arrived[i] \in Item /\ d \in Directive /\ d # None
        /\ policy.mediums \subseteq Medium /\ arrived[i] # NoItem
    BY ItemsAreItems, ItemFields, ProcessorAssumption DEF ServiceInv
  <1>2. ~IsSettled(d)
    BY SettledItemStays
  <1>3. StaysPut(d)
    BY <1>1, UnsettledStaysPut DEF ServiceInv, ThreadInv
  <1>4. HasBeen(d, "handle") => HasBeen(d, "handle")'
    BY <1>1, HistoryGrows DEF HasBeen, ServiceInv
  <1>5. arrived[i] \in handlingQueue \/ InPossession(i)
    BY <1>2 DEF Remembered
  <1>6. (HasBeen(d, "handle") \/ handling = arrived[i]) =>
            (HasBeen(d, "handle")' \/ handling' = arrived[i])
    <2>1. CASE TakeDirective \/ HandleSucceeded \/ HandleRejected
      <3>1. CASE TakeDirective
        BY <1>1, <1>4, <3>1 DEF TakeDirective, ServiceInv, ThreadInv
      <3>2. CASE HandleSucceeded \/ HandleRejected
        BY <1>4, <3>2 DEF HandleSucceeded, HandleRejected, ServiceInv, ThreadInv
      <3> QED
        BY <2>1, <3>1, <3>2
    <2>2. CASE ~(TakeDirective \/ HandleSucceeded \/ HandleRejected)
      <3>1. handling' = handling
        BY <2>2, OrdinaryStep DEF ServiceInv, Ordinary, EnqueueDirective, HandleDirective
      <3> QED
        BY <1>4, <3>1
    <2> QED
      BY <2>1, <2>2
  <1>7. CASE TakeDirective
    <2>1. PICK item \in handlingQueue :
              /\ directivesBeingHandled' =
                     [m \in Medium |-> IF m \in item.policy.mediums THEN item.directive
                                       ELSE directivesBeingHandled[m]]
              /\ handlingQueue' = handlingQueue \ {item}
              /\ handling' = item
              /\ \A m \in item.policy.mediums : directivesBeingHandled[m] = None
      BY <1>7, TakenItem DEF ServiceInv
    <2>2. CASE arrived[i] \in handlingQueue
      <3>1. CASE arrived[i] = item
        BY <1>1, <2>1, <3>1 DEF Remembered, InPossession
      <3>2. CASE arrived[i] # item
        BY <2>1, <2>2, <3>2 DEF Remembered
      <3> QED
        BY <3>1, <3>2
    <2>3. CASE InPossession(i)
      <3>1. \A m \in policy.mediums : directivesBeingHandled[m] = d => directivesBeingHandled'[m] = d
        BY <1>1, <2>1
      <3> QED
        BY <1>6, <2>3, <3>1 DEF Remembered, InPossession
    <2> QED
      BY <1>5, <2>2, <2>3
  <1>8. CASE HandleSucceeded
    <2>1. CASE arrived[i] \in handlingQueue
      BY <1>8, <2>1 DEF HandleSucceeded, Remembered
    <2>2. CASE InPossession(i)
      <3>1. directivesBeingHandled' = IF handling.policy.isBlocking THEN directivesBeingHandled
                                      ELSE ClearBeingHandled(handling.policy)
        BY <1>8 DEF HandleSucceeded
      <3>2. ASSUME policy.isBlocking, NEW m \in policy.mediums PROVE directivesBeingHandled'[m] = d
        <4>1. directivesBeingHandled[m] = d /\ m \in Medium
          BY <1>1, <2>2, <3>2 DEF InPossession
        <4>2. CASE handling.policy.isBlocking \/ m \notin handling.policy.mediums
          BY <3>1, <4>1, <4>2 DEF ClearBeingHandled
        <4>3. CASE ~handling.policy.isBlocking /\ m \in handling.policy.mediums
          <5>1. handling.directive = d
            BY <1>1, <4>1, <4>3 DEF ServiceInv, ThreadInv, MediumsOfHandled
          <5>2. handling # NoItem
            BY <1>8 DEF HandleSucceeded, ServiceInv, ThreadInv
          <5>3. PICK k \in DOMAIN arrived : handling = arrived[k]
            BY <5>2 DEF ServiceInv, ItemInv, Range
          <5>4. k = i
            BY <5>1, <5>3 DEF ServiceInv, ItemInv
          <5> QED
            BY <3>2, <4>3, <5>3, <5>4
        <4> QED
          BY <4>2, <4>3
      <3> QED
        BY <1>6, <2>2, <3>2 DEF Remembered, InPossession
    <2> QED
      BY <1>5, <2>1, <2>2
  <1>9. CASE ~TakeDirective /\ ~HandleSucceeded
    <2>1. /\ \A item \in handlingQueue : item.directive = d => item \in handlingQueue'
          /\ \A m \in Medium : directivesBeingHandled[m] = d => directivesBeingHandled'[m] = d
      BY <1>3, <1>9 DEF StaysPut, MayFree, QueueKept, MediumsKept
    <2>2. CASE arrived[i] \in handlingQueue
      BY <2>1, <2>2 DEF Remembered
    <2>3. CASE InPossession(i)
      BY <1>1, <1>6, <2>1, <2>3 DEF Remembered, InPossession
    <2> QED
      BY <1>5, <2>2, <2>3
  <1> QED
    BY <1>7, <1>8, <1>9

LEMMA ArrivedGrows ==
    ASSUME TypeOK, ItemInv, [Next]_vars
    PROVE  /\ \A i \in DOMAIN arrived : i \in DOMAIN arrived' /\ arrived'[i] = arrived[i]
           /\ \A i \in DOMAIN arrived' :
                  i \in DOMAIN arrived
                  \/ /\ EnqueueDirective /\ arrived'[i] \in handlingQueue'
                     /\ i = Len(arrived) + 1
                     /\ \A k \in DOMAIN arrived : arrived[k].directive # arrived'[i].directive
  <1>1. CASE EnqueueDirective
    BY <1>1, NewItem
  <1>2. CASE ~EnqueueDirective
    <2>1. UNCHANGED arrived
      BY <1>2, OrdinaryStep DEF Ordinary, TakeDirective, HandleDirective, HandleSucceeded,
                                HandleRejected, history
    <2> QED
      BY <2>1
  <1> QED
    BY <1>1, <1>2

LEMMA ForgottenStep ==
    ASSUME ServiceInv, [Next]_vars
    PROVE  NoDirectiveForgotten'
  <1> SUFFICES ASSUME NEW i \in DOMAIN arrived' PROVE Remembered(i)'
    BY DEF NoDirectiveForgotten, Remembered, InPossession
  <1>1. CASE i \in DOMAIN arrived
    <2>1. arrived'[i] = arrived[i]
      BY <1>1, ArrivedGrows DEF ServiceInv
    <2>2. Remembered(i)
      BY <1>1, ForgottenMeans DEF ServiceInv
    <2> QED
      BY <1>1, <2>1, <2>2, ItemStaysRemembered
  <1>2. CASE i \notin DOMAIN arrived
    BY <1>2, ArrivedGrows DEF ServiceInv, Remembered
  <1> QED
    BY <1>1, <1>2

\* Handling begins for an item in TakeDirective only.
LEMMA BegunStep ==
    ASSUME ServiceInv, [Next]_vars, NEW j \in DOMAIN arrived', Begun(j)'
    PROVE  /\ j \in DOMAIN arrived
           /\ Begun(j) \/ (TakeDirective /\ handling' = arrived[j])
  <1>1. TypeOK' /\ ItemInv' /\ ThreadInv'
    BY TypeStep, ItemStep, ThreadStep DEF ServiceInv
  <1>2. arrived'[j].directive \in Directive /\ arrived'[j] # NoItem
    <2>1. arrived' \in Seq(Item)
      BY <1>1 DEF TypeOK
    <2>2. arrived'[j] \in Item
      BY <2>1, LenProperties
    <2> QED
      BY <2>2, ItemFields, ProcessorAssumption DEF NoItem, Item
  <1>3. ASSUME EnqueueDirective, j \notin DOMAIN arrived PROVE FALSE
    <2>1. \A k \in DOMAIN arrived : arrived[k].directive # arrived'[j].directive
      BY <1>3, ArrivedGrows DEF ServiceInv
    <2>2. UNCHANGED <<handling, trace>>
      BY <1>3 DEF EnqueueDirective
    <2>3. ~HasBeen(arrived'[j].directive, "handle")
      BY <1>2, <2>1 DEF ServiceInv, ThreadInv
    <2>4. handling # arrived'[j]
      <3>1. CASE handling = NoItem
        BY <1>2, <3>1
      <3>2. CASE handling # NoItem
        <4>1. PICK k \in DOMAIN arrived : handling = arrived[k]
          BY <3>2 DEF ServiceInv, ItemInv, Range
        <4> QED
          BY <2>1, <4>1
      <3> QED
        BY <3>1, <3>2
    <2> QED
      BY <2>2, <2>3, <2>4 DEF Begun, HasBeen
  <1>4. j \in DOMAIN arrived /\ arrived'[j] = arrived[j]
    BY <1>3, ArrivedGrows DEF ServiceInv
  <1>5. CASE TakeDirective
    <2>1. UNCHANGED trace
      BY <1>5 DEF TakeDirective, history
    <2> QED
      BY <1>4, <1>5, <2>1 DEF Begun, HasBeen
  <1>6. CASE HandleDirective
    <2>1. handling' = handling /\ Called(handling.directive, "handle")
      BY <1>6 DEF HandleDirective
    <2>2. handling # NoItem
      BY <1>6 DEF HandleDirective, ServiceInv, ThreadInv
    <2>3. PICK k \in DOMAIN arrived : handling = arrived[k]
      BY <2>2 DEF ServiceInv, ItemInv, Range
    <2>4. CASE k = j
      BY <1>4, <2>3, <2>4 DEF Begun
    <2>5. CASE k # j
      <3>1. arrived[j].directive # handling.directive
        BY <1>4, <2>3, <2>5 DEF ServiceInv, ItemInv
      <3>2. trace'[arrived[j].directive] = trace[arrived[j].directive]
        BY <1>2, <1>4, <2>1, <3>1 DEF Called, ServiceInv, TypeOK
      <3> QED
        BY <1>4, <2>1, <3>2 DEF Begun, HasBeen
    <2> QED
      BY <2>4, <2>5
  <1>7. CASE ~TakeDirective /\ ~HandleDirective
    <2>1. handling' \in {handling, NoItem}
      BY <1>7, OrdinaryStep DEF ServiceInv, Ordinary, EnqueueDirective, HandleSucceeded, HandleRejected
    <2>2. \A d \in Directive : "handle" \in Range(trace'[d]) => HasBeen(d, "handle")
      BY <1>7, OrdinaryStep, RejectionIsOrdinary
      DEF ServiceInv, Ordinary, EnqueueDirective, HandleSucceeded, history, HasBeen
    <2> QED
      BY <1>2, <1>4, <2>1, <2>2 DEF Begun, HasBeen
  <1> QED
    BY <1>4, <1>5, <1>6, <1>7

\* An item is not taken while an earlier one that it conflicts with is unsettled:
\* that one is queued before it, or holds a medium that both use.
LEMMA TakenInOrder ==
    ASSUME ServiceInv, TakeDirective, NEW i \in DOMAIN arrived, NEW j \in DOMAIN arrived, i < j,
           Conflict(arrived[i], arrived[j]), handling' = arrived[j]
    PROVE  IsSettled(arrived[i].directive)
  <1> SUFFICES ASSUME ~IsSettled(arrived[i].directive) PROVE FALSE
    OBVIOUS
  <1>1. /\ IsNextUnblocked(arrived[j])
        /\ \A m \in arrived[j].policy.mediums : directivesBeingHandled[m] = None
    BY TakenItem DEF ServiceInv
  <1>2. PICK m : /\ m \in arrived[i].policy.mediums /\ m \in arrived[j].policy.mediums
                 /\ arrived[i].policy.isBlocking
    BY DEF Conflict
  <1>3. arrived[i].directive # None
    BY ItemsAreItems, ProcessorAssumption DEF ServiceInv
  <1>4. CASE arrived[i] \in handlingQueue
    <2>1. Before(arrived[i].directive, arrived[j].directive)
      BY DEF Before
    <2> QED
      BY <1>1, <1>2, <1>4, <2>1 DEF IsNextUnblocked, UnblockedItems, Unblocked
  <1>5. CASE InPossession(i)
    BY <1>1, <1>2, <1>3, <1>5 DEF InPossession
  <1> QED
    BY <1>4, <1>5, ForgottenMeans DEF ServiceInv, Remembered

LEMMA OrderStep ==
    ASSUME ServiceInv, [Next]_vars
    PROVE  OrderInv'
  <1> SUFFICES ASSUME NEW i \in DOMAIN arrived', NEW j \in DOMAIN arrived', i < j,
                      Conflict(arrived'[i], arrived'[j]), Begun(j)'
               PROVE  IsSettled(arrived[i].directive)'
    BY DEF OrderInv, Conflict
  <1>1. j \in DOMAIN arrived /\ (Begun(j) \/ (TakeDirective /\ handling' = arrived[j]))
    BY BegunStep
  <1>2. i \in DOMAIN arrived
    BY <1>1, ArrivedGrows, ItemsAreItems DEF ServiceInv
  <1>3. arrived'[i] = arrived[i] /\ arrived'[j] = arrived[j]
    BY <1>1, <1>2, ArrivedGrows DEF ServiceInv
  <1>4. IsSettled(arrived[i].directive)
    BY <1>1, <1>2, <1>3, TakenInOrder DEF ServiceInv, OrderInv
  <1> QED
    BY <1>2, <1>4, SettledItemStays

LEMMA ServiceInit == Init => ServiceInv
  <1> SUFFICES ASSUME Init PROVE ServiceInv
    OBVIOUS
  <1>1. TypeOK
    BY TypeInit
  <1>2. DOMAIN arrived = {} /\ Range(arrived) = {} /\ \A d \in Directive : Range(trace[d]) = {}
    BY EmptySeq DEF Init, Range
  <1>3. ItemInv
    BY <1>2 DEF Init, ItemInv, Idle
  <1>4. ThreadInv
    <2>1. SwappedOut /\ MediumsOfHandled
      BY DEF Init, SwappedOut, MediumsOfHandled, NoItem, DefaultPolicy
    <2>2. handling = NoItem /\ pc = "wait"
      BY DEF Init
    <2>3. \A d \in Directive : ~HasBeen(d, "handle")
      BY <1>2 DEF HasBeen
    <2> QED
      BY <2>1, <2>2, <2>3 DEF ThreadInv
  <1>5. NoDirectiveForgotten /\ OrderInv
    BY <1>2 DEF NoDirectiveForgotten, OrderInv
  <1> QED
    BY <1>1, <1>3, <1>4, <1>5 DEF ServiceInv

LEMMA ServiceStep == ServiceInv /\ [Next]_vars => ServiceInv'
  <1> SUFFICES ASSUME ServiceInv, [Next]_vars PROVE ServiceInv'
    OBVIOUS
  <1>1. TypeOK' /\ ItemInv' /\ ThreadInv'
    BY TypeStep, ItemStep, ThreadStep DEF ServiceInv
  <1> QED
    BY <1>1, ForgottenStep, OrderStep DEF ServiceInv

\* A directive that was queued and is not settled is queued or being handled, and
\* then it holds its mediums if it is a blocking one.
THEOREM NothingIsForgotten == Spec => []NoDirectiveForgotten
  <1>1. ServiceInv => NoDirectiveForgotten
    BY DEF ServiceInv
  <1> QED
    BY <1>1, ServiceInit, ServiceStep, PTL DEF Spec

\* A directive is not handled while an earlier one that blocks it is unsettled.
THEOREM HandlingIsInOrder == Spec => []HandledInOrder
  <1>1. ServiceInv => HandledInOrder
    BY DEF ServiceInv, OrderInv, HandledInOrder, Begun
  <1> QED
    BY <1>1, ServiceInit, ServiceStep, PTL DEF Spec

-----------------------------------------------------------------------------
(***************************************************************************)
(* The calls made for a directive.  A directive is given up at most once,  *)
(* so that it is cancelled at most once: the canceling queue lists each    *)
(* directive once, and what is live was never in it.                       *)
(***************************************************************************)
LEMMA JoinIsInjective ==
    ASSUME NEW s \in Seq(Directive), NEW t \in Seq(Directive),
           IsInjective(s), IsInjective(t), Range(s) \cap Range(t) = {}
    PROVE  IsInjective(s \o t)
  <1> DEFINE u == s \o t
  <1>1. /\ u \in Seq(Directive) /\ Len(u) = Len(s) + Len(t)
        /\ \A i \in 1..(Len(s) + Len(t)) : u[i] = IF i <= Len(s) THEN s[i] ELSE t[i - Len(s)]
    BY ConcatProperties
  <1> HIDE DEF u
  <1>2. /\ DOMAIN s = 1..Len(s) /\ DOMAIN t = 1..Len(t) /\ DOMAIN u = 1..Len(u)
        /\ Len(s) \in Nat /\ Len(t) \in Nat
    BY <1>1, LenProperties
  <1>3. ASSUME NEW i \in 1..Len(s), NEW j \in 1..Len(t) PROVE s[i] # t[j]
    BY <1>2 DEF Range
  <1>4. ASSUME NEW i \in DOMAIN u, NEW j \in DOMAIN u, u[i] = u[j] PROVE i = j
    <2>1. i \in 1..(Len(s) + Len(t)) /\ j \in 1..(Len(s) + Len(t))
      BY <1>1, <1>2
    <2>2. CASE i <= Len(s) /\ j <= Len(s)
      <3>1. u[i] = s[i] /\ u[j] = s[j] /\ i \in DOMAIN s /\ j \in DOMAIN s
        BY <1>1, <1>2, <2>1, <2>2
      <3> QED
        BY <1>4, <3>1 DEF IsInjective
    <2>3. CASE ~(i <= Len(s)) /\ ~(j <= Len(s))
      <3>1. u[i] = t[i - Len(s)] /\ u[j] = t[j - Len(s)]
        BY <1>1, <2>1, <2>3
      <3>2. i - Len(s) \in DOMAIN t /\ j - Len(s) \in DOMAIN t
        BY <1>2, <2>1, <2>3
      <3>3. i - Len(s) = j - Len(s)
        BY <1>4, <3>1, <3>2 DEF IsInjective
      <3> QED
        BY <1>2, <2>1, <3>3
    <2>4. CASE i <= Len(s) /\ ~(j <= Len(s))
      <3>1. u[i] = s[i] /\ u[j] = t[j - Len(s)]
        BY <1>1, <2>1, <2>4
      <3>2. i \in 1..Len(s) /\ j - Len(s) \in 1..Len(t)
        BY <1>2, <2>1, <2>4
      <3> QED
        BY <1>3, <1>4, <3>1, <3>2
    <2>5. CASE ~(i <= Len(s)) /\ j <= Len(s)
      <3>1. u[i] = t[i - Len(s)] /\ u[j] = s[j]
        BY <1>1, <2>1, <2>5
      <3>2. j \in 1..Len(s) /\ i - Len(s) \in 1..Len(t)
        BY <1>2, <2>1, <2>5
      <3> QED
        BY <1>3, <1>4, <3>1, <3>2
    <2> QED
      BY <2>2, <2>3, <2>4, <2>5
  <1> QED
    BY <1>4 DEF u, IsInjective

LEMMA ShortIsInjective ==
    /\ IsInjective(<<>>)
    /\ \A d : IsInjective(<<d>>)
  BY DEF IsInjective

LEMMA CancellationIsInjective ==
    ASSUME NEW doomed, NEW cq \in Seq(Directive), NEW first \in Seq(Directive),
           NEW hq \in SUBSET Item, IsFiniteSet(hq),
           NEW held \in [Medium -> Directive \cup {None}], NEW last \in Seq(Directive),
           QueueForCancellation(doomed, cq, first, hq, held, last),
           IsInjective(cq), IsInjective(first), IsInjective(last),
           Range(cq) \cap (Range(first) \cup Range(last)) = {},
           Range(first) \cap Range(last) = {},
           (Holders(held) \cup DirectivesOf(hq))
               \cap (Range(cq) \cup Range(first) \cup Range(last)) = {},
           Holders(held) \cap DirectivesOf(hq) = {}
    PROVE  IsInjective(cancelingQueue')
  <1> DEFINE F == Holders(held) \cap doomed
             Q == DirectivesOf(hq) \cap doomed
  <1>1. IsFiniteSet(F) /\ F \subseteq Directive
    BY HoldersAreDirectives, FS_Intersection
  <1>2. IsFiniteSet(Q) /\ Q \subseteq Directive
    BY DirectivesOfQueue, FS_Intersection
  <1>3. PICK freed \in SetToSeqs(F), queued \in SetToSeqs(Q) :
             cancelingQueue' = cq \o first \o freed \o queued \o last
    BY DEF QueueForCancellation, AnyOrder, ArrivalOrder
  <1>4. /\ F \cap Q = {} /\ (F \cup Q) \cap Range(cq) = {}
        /\ (F \cup Q) \cap Range(first) = {} /\ (F \cup Q) \cap Range(last) = {}
    OBVIOUS
  <1> HIDE DEF F, Q
  <1>5. freed \in Seq(Directive) /\ Range(freed) = F /\ IsInjective(freed)
    BY <1>1, ListingIsSequence, ListingIsComplete, SeqMonotonic
  <1>6. queued \in Seq(Directive) /\ Range(queued) = Q /\ IsInjective(queued)
    BY <1>2, ListingIsSequence, ListingIsComplete, SeqMonotonic
  <1>7. /\ cq \o first \in Seq(Directive) /\ IsInjective(cq \o first)
        /\ Range(cq \o first) = Range(cq) \cup Range(first)
    BY JoinOfSequences, JoinIsInjective
  <1>8. /\ cq \o first \o freed \in Seq(Directive) /\ IsInjective(cq \o first \o freed)
        /\ Range(cq \o first \o freed) = Range(cq) \cup Range(first) \cup F
    <2>1. Range(cq \o first) \cap Range(freed) = {}
      BY <1>4, <1>5, <1>7
    <2> QED
      BY <1>5, <1>7, <2>1, JoinOfSequences, JoinIsInjective
  <1>9. /\ cq \o first \o freed \o queued \in Seq(Directive)
        /\ IsInjective(cq \o first \o freed \o queued)
        /\ Range(cq \o first \o freed \o queued) = Range(cq) \cup Range(first) \cup F \cup Q
    <2>1. Range(cq \o first \o freed) \cap Range(queued) = {}
      BY <1>4, <1>6, <1>8
    <2> QED
      BY <1>6, <1>8, <2>1, JoinOfSequences, JoinIsInjective
  <1>10. Range(cq \o first \o freed \o queued) \cap Range(last) = {}
    BY <1>4, <1>9
  <1> QED
    BY <1>3, <1>9, <1>10, JoinIsInjective

LEMMA EraseIsInjective ==
    ASSUME NEW q \in Seq(Directive), NEW d, IsInjective(q)
    PROVE  IsInjective(Erase(q, d))
  <1>1. CASE \E i \in DOMAIN q : q[i] = d
    <2>1. PICK i \in 1..Len(q) : Erase(q, d) = SubSeq(q, 1, i - 1) \o SubSeq(q, i + 1, Len(q))
      BY <1>1, LenProperties DEF Erase
    <2> DEFINE left  == SubSeq(q, 1, i - 1)
               right == SubSeq(q, i + 1, Len(q))
    <2>2. /\ left \in Seq(Directive) /\ Len(left) = i - 1
          /\ \A k \in 1..(i - 1) : left[k] = q[k]
          /\ right \in Seq(Directive) /\ Len(right) = Len(q) - i
          /\ \A k \in 1..(Len(q) - i) : right[k] = q[i + k]
          /\ Len(q) \in Nat /\ DOMAIN q = 1..Len(q)
      BY CutLeavesOthers, LenProperties
    <2>3. Erase(q, d) = left \o right
      BY <2>1
    <2> HIDE DEF left, right
    <2>4. DOMAIN left = 1..(i - 1) /\ DOMAIN right = 1..(Len(q) - i)
      BY <2>2, LenProperties
    <2>5. IsInjective(left)
      <3> SUFFICES ASSUME NEW k \in 1..(i - 1), NEW l \in 1..(i - 1), left[k] = left[l]
                   PROVE  k = l
        BY <2>4 DEF IsInjective
      <3>1. k \in DOMAIN q /\ l \in DOMAIN q /\ q[k] = q[l]
        BY <2>2
      <3> QED
        BY <3>1 DEF IsInjective
    <2>6. IsInjective(right)
      <3> SUFFICES ASSUME NEW k \in 1..(Len(q) - i), NEW l \in 1..(Len(q) - i), right[k] = right[l]
                   PROVE  k = l
        BY <2>4 DEF IsInjective
      <3>1. i + k \in DOMAIN q /\ i + l \in DOMAIN q /\ q[i + k] = q[i + l]
        BY <2>2
      <3>2. i + k = i + l
        BY <3>1 DEF IsInjective
      <3> QED
        BY <2>2, <3>2
    <2>7. Range(left) \cap Range(right) = {}
      <3> SUFFICES ASSUME NEW k \in 1..(i - 1), NEW l \in 1..(Len(q) - i), left[k] = right[l]
                   PROVE  FALSE
        BY <2>4 DEF Range
      <3>1. k \in DOMAIN q /\ i + l \in DOMAIN q /\ q[k] = q[i + l] /\ k # i + l
        BY <2>2
      <3> QED
        BY <3>1 DEF IsInjective
    <2> QED
      BY <2>2, <2>3, <2>5, <2>6, <2>7, JoinIsInjective
  <1>2. CASE ~ \E i \in DOMAIN q : q[i] = d
    BY <1>2 DEF Erase
  <1> QED
    BY <1>1, <1>2

\* The first of a sequence without repetition is not among the others.
LEMMA TailIsInjective ==
    ASSUME NEW q \in Seq(Directive), q # <<>>, IsInjective(q)
    PROVE  /\ IsInjective(Tail(q)) /\ Head(q) \notin Range(Tail(q))
           /\ Head(q) \in Range(q) /\ Range(Tail(q)) \subseteq Range(q)
  <1> DEFINE t == Tail(q)
  <1>1. /\ t \in Seq(Directive) /\ Len(t) = Len(q) - 1
        /\ \A i \in 1..Len(t) : t[i] = q[i + 1]
        /\ Len(q) \in Nat /\ DOMAIN q = 1..Len(q) /\ 1 \in DOMAIN q /\ Head(q) = q[1]
    <2>1. Len(q) \in Nat /\ DOMAIN q = 1..Len(q) /\ Len(q) # 0
      BY LenProperties, EmptySeq
    <2> QED
      BY <2>1, HeadTailProperties
  <1> HIDE DEF t
  <1>2. DOMAIN t = 1..(Len(q) - 1) /\ \A i \in DOMAIN t : i + 1 \in DOMAIN q /\ t[i] = q[i + 1]
    BY <1>1, LenProperties
  <1>3. ASSUME NEW i \in DOMAIN t, NEW j \in DOMAIN t, t[i] = t[j] PROVE i = j
    <2>1. i + 1 = j + 1
      BY <1>2, <1>3 DEF IsInjective
    <2> QED
      BY <1>2, <2>1
  <1>4. ASSUME NEW i \in DOMAIN t PROVE t[i] # Head(q) /\ t[i] \in Range(q)
    <2>1. i + 1 # 1
      BY <1>2
    <2> QED
      BY <1>1, <1>2, <2>1 DEF IsInjective, Range
  <1> QED
    BY <1>1, <1>3, <1>4 DEF t, IsInjective, Range

\* Which step adds a call to the history of a directive, and which.
LEMMA HistoryStep ==
    ASSUME TypeOK, [Next]_vars, NEW d \in Directive
    PROVE  \/ trace'[d] = trace[d]
           \/ /\ PreHandleDirective /\ d = receiving.directive
              /\ trace'[d] = Append(trace[d], "preHandle")
           \/ /\ HandleDirective /\ d = handling.directive
              /\ trace'[d] = Append(trace[d], "handle")
           \/ /\ HandleRejected /\ d = handling.directive
              /\ trace'[d] = Append(trace[d], "rejected")
           \/ /\ CancelDirective /\ d = Head(canceling)
              /\ trace'[d] = Append(trace[d], "cancel")
  <1>1. ASSUME NEW e, NEW call, Called(e, call)
        PROVE  trace'[d] = trace[d] \/ (d = e /\ trace'[d] = Append(trace[d], call))
    BY <1>1 DEF Called, TypeOK
  <1>2. CASE PreHandleDirective
    BY <1>1, <1>2 DEF PreHandleDirective
  <1>3. CASE HandleDirective
    BY <1>1, <1>3 DEF HandleDirective
  <1>4. CASE HandleRejected
    BY <1>1, <1>4 DEF HandleRejected
  <1>5. CASE CancelDirective
    BY <1>1, <1>5 DEF CancelDirective
  <1>6. CASE ReceivingThread /\ ~PreHandleDirective
    BY <1>6 DEF ReceivingThread, RefuseDirective, DropDirective, AcceptDirective,
                AbandonDirective, EnqueueDirective, history
  <1>7. CASE SpuriousWakeup \/ (ProcessingThread /\ ~HandleDirective /\ ~HandleRejected
                                    /\ ~CancelDirective)
    BY <1>7 DEF SpuriousWakeup, ProcessingThread, EvaluateWake, TakeCancelingQueue,
                AllCancelled, TakeDirective, HandleSucceeded, EndPass, history
  <1>8. ASSUME NEW e \in Directive, Handler(e) PROVE trace'[d] = trace[d]
    BY <1>8 DEF Handler, SetCompleted, SetFailed, IgnoreReport, history
  <1>9. CASE Owner
    BY <1>9 DEF Owner, SetDialogRequestId, Disable, Enable, Unregister, BeginShutdown,
                Join, history
  <1>10. CASE UNCHANGED vars
    BY <1>10 DEF vars, history
  <1> QED
    BY <1>2, <1>3, <1>4, <1>5, <1>6, <1>7, <1>8, <1>9, <1>10 DEF Next

LEMMA HistoriesAreSequences ==
    ASSUME TypeOK, NEW d \in Directive, NEW call
    PROVE  /\ DOMAIN trace[d] = 1..Len(trace[d]) /\ Len(trace[d]) \in Nat
           /\ trace[d] \in Seq({"preHandle", "handle", "rejected", "cancel"})
           /\ call \in {"preHandle", "handle", "rejected", "cancel"} =>
                  /\ DOMAIN Append(trace[d], call) = 1..(Len(trace[d]) + 1)
                  /\ \A i \in 1..Len(trace[d]) : Append(trace[d], call)[i] = trace[d][i]
                  /\ Append(trace[d], call)[Len(trace[d]) + 1] = call
                  /\ Range(Append(trace[d], call)) = Range(trace[d]) \cup {call}
  <1>1. trace[d] \in Seq({"preHandle", "handle", "rejected", "cancel"})
    BY DEF TypeOK
  <1>2. DOMAIN trace[d] = 1..Len(trace[d]) /\ Len(trace[d]) \in Nat
    BY <1>1, LenProperties
  <1>3. ASSUME call \in {"preHandle", "handle", "rejected", "cancel"}
        PROVE  /\ DOMAIN Append(trace[d], call) = 1..(Len(trace[d]) + 1)
               /\ \A i \in 1..Len(trace[d]) : Append(trace[d], call)[i] = trace[d][i]
               /\ Append(trace[d], call)[Len(trace[d]) + 1] = call
    BY <1>1, <1>3, AppendProperties, LenProperties
  <1>4. ASSUME call \in {"preHandle", "handle", "rejected", "cancel"}
        PROVE  Range(Append(trace[d], call)) = Range(trace[d]) \cup {call}
    BY <1>2, <1>3, <1>4 DEF Range
  <1> QED
    BY <1>1, <1>2, <1>3, <1>4

\* What happens to the directive inside onDirective().
LEMMA ReceivedCallsStep ==
    ASSUME TypeOK, [Next]_vars
    PROVE  \/ \E d \in Directive : AcceptDirective(d)
           \/ PreHandleDirective
           \/ receiving' = Idle /\ directiveBeingPreHandled' = None
           \/ /\ UNCHANGED receiving /\ ~PreHandleDirective
              /\ directiveBeingPreHandled' \in {None, directiveBeingPreHandled}
  <1>1. ASSUME NEW id, NEW cq, NEW pre, NEW hq, NEW held, ScrubQueues(id, cq, pre, hq, held)
        PROVE  directiveBeingPreHandled' \in {None, pre}
    BY <1>1 DEF ScrubQueues
  <1>2. CASE ReceivingThread
    BY <1>2 DEF ReceivingThread, RefuseDirective, DropDirective, AbandonDirective,
                EnqueueDirective, PreHandleDirective, state
  <1>3. CASE ~ReceivingThread
    <2>1. ~PreHandleDirective
      BY <1>3 DEF ReceivingThread
    <2>2. CASE SpuriousWakeup \/ ProcessingThread
      BY <1>1, <2>1, <2>2
      DEF SpuriousWakeup, ProcessingThread, EvaluateWake, TakeCancelingQueue, CancelDirective,
          AllCancelled, TakeDirective, HandleDirective, HandleSucceeded, HandleRejected, EndPass,
          state
    <2>3. ASSUME NEW e \in Directive, Handler(e)
          PROVE  UNCHANGED receiving /\ directiveBeingPreHandled' \in {None, directiveBeingPreHandled}
      BY <1>1, <2>3 DEF Handler, SetCompleted, SetFailed, IgnoreReport, PreHandledWithout, state
    <2>4. CASE Owner
      BY <1>1, <2>1, <2>4 DEF Owner, SetDialogRequestId, Disable, Enable, Unregister,
                              BeginShutdown, Join, QueueAllForCancellation, state
    <2>5. CASE UNCHANGED vars
      BY <2>1, <2>5 DEF vars, state
    <2> QED
      BY <1>3, <2>1, <2>2, <2>3, <2>4, <2>5 DEF Next
  <1> QED
    BY <1>2, <1>3

-----------------------------------------------------------------------------
(***************************************************************************)
(* The calls that a directive has had tell where it is.                    *)
(***************************************************************************)
\* The calls on the directive being pre-handled.
PreCalls == IF receiving.stage = "toPreHandle" THEN <<>> ELSE <<"preHandle">>

ReceivedCalls ==
    /\ \A d \in Directive \ offered : trace[d] = <<>> /\ ~InCancellation(d)
    /\ receiving.stage = "toPreHandle" => trace[receiving.directive] \in {<<>>, <<"cancel">>}
    /\ directiveBeingPreHandled # None => trace[directiveBeingPreHandled] = PreCalls

QueuedCalls ==
    /\ \A item \in handlingQueue : /\ trace[item.directive] = <<"preHandle">>
                                   /\ item.directive # handling.directive
    /\ pc = "toHandle" => trace[handling.directive] = <<"preHandle">>
    /\ pc = "handling" => trace[handling.directive] = <<"preHandle", "handle">>
    /\ \A m \in Medium :
           \/ directivesBeingHandled[m] = None
           \/ HasBeen(directivesBeingHandled[m], "handle")
           \/ directivesBeingHandled[m] = handling.directive

\* A directive given up is not live any more, and is cancelled once.
CancelledCalls ==
    /\ \A d \in Directive : Live(d) => ~HasBeen(d, "cancel") /\ ~InCancellation(d)
    /\ \A d \in Directive : InCancellation(d) => ~HasBeen(d, "cancel")
    /\ IsInjective(canceling) /\ IsInjective(cancelingQueue)
    /\ Range(canceling) \cap Range(cancelingQueue) = {}

CallInv ==
    /\ ServiceInv /\ PreHandledIsReceived
    /\ ReceivedCalls /\ QueuedCalls /\ CancelledCalls /\ CallsWellFormed

\* A directive is live in one way: pre-handled, queued or in possession of a
\* medium; and it was offered.
LEMMA OneWayLive ==
    ASSUME CallInv
    PROVE  /\ directiveBeingPreHandled \notin Holders(directivesBeingHandled)
           /\ directiveBeingPreHandled \notin DirectivesOf(handlingQueue)
           /\ Holders(directivesBeingHandled) \cap DirectivesOf(handlingQueue) = {}
           /\ \A d \in Directive : Live(d) => d \in offered
  <1>1. \A item \in handlingQueue : \E i \in DOMAIN arrived : item = arrived[i]
    BY DEF CallInv, ServiceInv, ItemInv, Range
  <1>2. \A i \in DOMAIN arrived : /\ arrived[i].directive \in offered /\ arrived[i].directive # None
                                  /\ arrived[i].directive # receiving.directive
    BY ItemsAreItems, ProcessorAssumption DEF CallInv, ServiceInv, ItemInv
  <1>3. \A d \in Holders(directivesBeingHandled) :
            /\ d \in Directive
            /\ \E i \in DOMAIN arrived : arrived[i].directive = d
    <2> SUFFICES ASSUME NEW m \in Medium, directivesBeingHandled[m] # None
                 PROVE  /\ directivesBeingHandled[m] \in Directive
                        /\ \E i \in DOMAIN arrived : arrived[i].directive = directivesBeingHandled[m]
      BY DEF Holders
    <2>1. directivesBeingHandled[m] \in Directive
      BY DEF CallInv, ServiceInv, TypeOK
    <2>2. CASE HasBeen(directivesBeingHandled[m], "handle")
      BY <2>1, <2>2 DEF CallInv, ServiceInv, ThreadInv
    <2>3. CASE directivesBeingHandled[m] = handling.directive
      <3>1. handling # NoItem
        BY <2>1, <2>3, ProcessorAssumption DEF NoItem
      <3> QED
        BY <2>1, <2>3, <3>1 DEF CallInv, ServiceInv, ItemInv, Range
    <2> QED
      BY <2>1, <2>2, <2>3 DEF CallInv, QueuedCalls
  <1>4. directiveBeingPreHandled \notin Holders(directivesBeingHandled)
    BY <1>2, <1>3 DEF CallInv, PreHandledIsReceived, Holders
  <1>5. directiveBeingPreHandled \notin DirectivesOf(handlingQueue)
    BY <1>1, <1>2 DEF CallInv, PreHandledIsReceived, DirectivesOf
  <1>6. ASSUME NEW item \in handlingQueue, item.directive \in Holders(directivesBeingHandled)
        PROVE  FALSE
    <2>1. trace[item.directive] = <<"preHandle">> /\ item.directive # handling.directive
      BY DEF CallInv, QueuedCalls
    <2>2. HasBeen(item.directive, "handle")
      BY <1>6, <2>1 DEF CallInv, QueuedCalls, Holders
    <2>3. Range(<<"preHandle">>) = {"preHandle"}
      BY DEF Range
    <2> QED
      BY <2>1, <2>2, <2>3 DEF HasBeen
  <1>7. ASSUME NEW d \in Directive, Live(d) PROVE d \in offered
    <2>1. CASE d = directiveBeingPreHandled
      BY <2>1, ProcessorAssumption DEF CallInv, PreHandledIsReceived, ServiceInv, ItemInv
    <2>2. CASE \E item \in handlingQueue : item.directive = d
      BY <1>1, <1>2, <2>2
    <2>3. CASE d \in Holders(directivesBeingHandled)
      BY <1>2, <1>3, <2>3
    <2> QED
      BY <1>7, <2>1, <2>2, <2>3 DEF Live, LiveIn
  <1> QED
    BY <1>4, <1>5, <1>6, <1>7 DEF DirectivesOf

-----------------------------------------------------------------------------
(***************************************************************************)
(* Giving up: what a step adds to the canceling queue was live, is live no *)
(* more, and is listed once.                                               *)
(***************************************************************************)
LEMMA ScrubGivesUp ==
    ASSUME NEW id, NEW cq \in Seq(Directive), NEW pre \in Directive \cup {None},
           NEW hq \in SUBSET Item, IsFiniteSet(hq),
           NEW held \in [Medium -> Directive \cup {None}],
           ScrubQueues(id, cq, pre, hq, held),
           IsInjective(cq), Holders(held) \cap DirectivesOf(hq) = {},
           pre \notin Holders(held) \cup DirectivesOf(hq),
           ({pre} \cup Holders(held) \cup DirectivesOf(hq)) \cap Range(cq) = {}
    PROVE  /\ IsInjective(cancelingQueue')
           /\ \A d \in Directive : d \in Range(cancelingQueue') =>
                  d \in Range(cq) \/ (LiveIn(d, pre, hq, held) /\ ~Live(d)')
  <1> DEFINE doomed == DirectivesOfDialog(id)
             first == OneIf(pre, pre \in doomed)
             last == <<>>
  <1>1. /\ first \in Seq(Directive) /\ last \in Seq(Directive)
        /\ IsInjective(first) /\ IsInjective(last)
        /\ Range(first) \subseteq {pre} \cap doomed /\ Range(last) = {}
    BY ShortIsInjective, EmptySeq DEF OneIf, DirectivesOfDialog, Range
  <1>2. QueueForCancellation(doomed, cq, first, hq, held, last)
    BY DEF ScrubQueues
  <1> HIDE DEF first, last, doomed
  <1>3. /\ Range(cq) \cap (Range(first) \cup Range(last)) = {}
        /\ Range(first) \cap Range(last) = {}
        /\ (Holders(held) \cup DirectivesOf(hq))
               \cap (Range(cq) \cup Range(first) \cup Range(last)) = {}
    BY <1>1
  <1>4. IsInjective(cancelingQueue')
    BY <1>1, <1>2, <1>3, CancellationIsInjective
  <1>5. Range(cancelingQueue') =
            Range(cq) \cup Range(first) \cup (Holders(held) \cap doomed)
                \cup (DirectivesOf(hq) \cap doomed) \cup Range(last)
    BY <1>1, <1>2, CancellationMoves
  <1>6. ASSUME NEW d \in Directive, d \in Range(cancelingQueue'), d \notin Range(cq)
        PROVE  LiveIn(d, pre, hq, held) /\ d \in doomed
    BY <1>1, <1>5, <1>6 DEF LiveIn, DirectivesOf
  <1>7. ASSUME NEW d \in Directive, d \in doomed PROVE ~Live(d)'
    BY <1>7, ScrubLeaves DEF doomed
  <1> QED
    BY <1>4, <1>6, <1>7

LEMMA CancelAllGivesUp ==
    ASSUME CallInv, QueueAllForCancellation
    PROVE  /\ IsInjective(cancelingQueue')
           /\ \A d \in Directive : d \in Range(cancelingQueue') =>
                  d \in Range(cancelingQueue) \/ (Live(d) /\ ~Live(d)')
  <1> DEFINE last == OneIf(directiveBeingPreHandled, directiveBeingPreHandled # None)
             first == <<>>
  <1> USE DEF CallInv, ServiceInv
  <1>1. /\ first \in Seq(Directive) /\ last \in Seq(Directive)
        /\ IsInjective(first) /\ IsInjective(last)
        /\ Range(last) \subseteq {directiveBeingPreHandled} \ {None} /\ Range(first) = {}
    BY ShortIsInjective, EmptySeq DEF OneIf, TypeOK, Range
  <1>2. QueueForCancellation(Directive, cancelingQueue, first, handlingQueue,
                             directivesBeingHandled, last)
    BY DEF QueueAllForCancellation
  <1>3. /\ cancelingQueue \in Seq(Directive) /\ handlingQueue \in SUBSET Item
        /\ IsFiniteSet(handlingQueue)
        /\ directivesBeingHandled \in [Medium -> Directive \cup {None}]
        /\ directiveBeingPreHandled \in Directive \cup {None}
    BY DEF TypeOK
  <1>4. IsInjective(cancelingQueue)
    BY DEF CancelledCalls
  <1>5. \A d \in Directive : Live(d) => d \notin Range(cancelingQueue)
    BY DEF CancelledCalls, InCancellation
  <1> HIDE DEF first, last
  <1>6. Holders(directivesBeingHandled) \subseteq Directive /\ DirectivesOf(handlingQueue) \subseteq Directive
    BY <1>3, HoldersAreDirectives, DirectivesOfQueue
  <1>7. \A d \in Holders(directivesBeingHandled) \cup DirectivesOf(handlingQueue) \cup Range(last) :
            d \in Directive /\ Live(d)
    BY <1>1, <1>3, <1>6 DEF Live, LiveIn, DirectivesOf
  <1>8. /\ Range(cancelingQueue) \cap (Range(first) \cup Range(last)) = {}
        /\ Range(first) \cap Range(last) = {}
        /\ (Holders(directivesBeingHandled) \cup DirectivesOf(handlingQueue))
               \cap (Range(cancelingQueue) \cup Range(first) \cup Range(last)) = {}
        /\ Holders(directivesBeingHandled) \cap DirectivesOf(handlingQueue) = {}
    BY <1>1, <1>5, <1>7, OneWayLive
  <1>9. IsInjective(cancelingQueue')
    BY <1>1, <1>2, <1>3, <1>4, <1>8, CancellationIsInjective
  <1>10. Range(cancelingQueue') =
             Range(cancelingQueue) \cup Range(first) \cup (Holders(directivesBeingHandled) \cap Directive)
                 \cup (DirectivesOf(handlingQueue) \cap Directive) \cup Range(last)
    BY <1>1, <1>2, <1>3, CancellationMoves
  <1>11. \A d \in Directive : d \in Range(cancelingQueue') => d \in Range(cancelingQueue) \/ Live(d)
    BY <1>1, <1>7, <1>10
  <1>12. \A d \in Directive : ~Live(d)'
    BY CancelAllLeavesNone
  <1> QED
    BY <1>9, <1>11, <1>12

\* What removeDirectiveLocked() leaves is still live in one way.
LEMMA WithoutIsOneWay ==
    ASSUME CallInv, NEW e \in Directive
    PROVE  /\ Holders(BeingHandledWithout(e)) \subseteq Holders(directivesBeingHandled)
           /\ DirectivesOf(HandlingQueueWithout(e)) \subseteq DirectivesOf(handlingQueue)
           /\ PreHandledWithout(e) \in {None, directiveBeingPreHandled}
           /\ IsInjective(CancelingQueueWithout(e))
           /\ Range(CancelingQueueWithout(e)) \subseteq Range(cancelingQueue)
  <1>1. Holders(BeingHandledWithout(e)) \subseteq Holders(directivesBeingHandled)
    BY HoldersOfRelease DEF BeingHandledWithout, CallInv, ServiceInv, TypeOK
  <1>2. DirectivesOf(HandlingQueueWithout(e)) \subseteq DirectivesOf(handlingQueue)
    BY DEF DirectivesOf, HandlingQueueWithout
  <1>3. PreHandledWithout(e) \in {None, directiveBeingPreHandled}
    BY DEF PreHandledWithout
  <1>4. cancelingQueue \in Seq(Directive) /\ IsInjective(cancelingQueue)
    BY DEF CallInv, ServiceInv, TypeOK, CancelledCalls
  <1>5. IsInjective(CancelingQueueWithout(e))
    BY <1>4, EraseIsInjective DEF CancelingQueueWithout
  <1>6. Range(CancelingQueueWithout(e)) \subseteq Range(cancelingQueue)
    BY <1>4, EraseLeavesOthers DEF CancelingQueueWithout
  <1> QED
    BY <1>1, <1>2, <1>3, <1>5, <1>6

\* A scrub of queues that hold no more than the processor's.
LEMMA ScrubOfLess ==
    ASSUME CallInv, NEW id, NEW cq \in Seq(Directive), NEW pre \in {None, directiveBeingPreHandled},
           NEW hq \in SUBSET Item, IsFiniteSet(hq),
           NEW held \in [Medium -> Directive \cup {None}],
           ScrubQueues(id, cq, pre, hq, held),
           IsInjective(cq), Range(cq) \subseteq Range(cancelingQueue),
           Holders(held) \subseteq Holders(directivesBeingHandled),
           DirectivesOf(hq) \subseteq DirectivesOf(handlingQueue)
    PROVE  /\ IsInjective(cancelingQueue')
           /\ \A d \in Directive : d \in Range(cancelingQueue') =>
                  d \in Range(cancelingQueue) \/ (Live(d) /\ ~Live(d)')
  <1>1. pre \in Directive \cup {None} /\ None \notin Directive
    BY ProcessorAssumption DEF CallInv, ServiceInv, TypeOK
  <1>2. /\ Holders(held) \subseteq Directive /\ DirectivesOf(hq) \subseteq Directive
        /\ Range(cq) \subseteq Directive
    BY HoldersAreDirectives, DirectivesOfQueue, RangeOfSeq
  <1>3. \A d \in Directive : LiveIn(d, pre, hq, held) => Live(d)
    <2>1. \A d : (\E item \in hq : item.directive = d) => (\E item \in handlingQueue : item.directive = d)
      BY DEF DirectivesOf
    <2> QED
      BY <1>1, <2>1 DEF Live, LiveIn
  <1>4. \A d \in Directive : Live(d) => d \notin Range(cancelingQueue)
    BY DEF CallInv, CancelledCalls, InCancellation
  <1>5. \A d \in Holders(held) \cup DirectivesOf(hq) : d \in Directive /\ LiveIn(d, pre, hq, held)
    BY <1>2 DEF LiveIn, DirectivesOf
  <1>6. pre \in Directive => LiveIn(pre, pre, hq, held)
    BY DEF LiveIn
  <1>7. ({pre} \cup Holders(held) \cup DirectivesOf(hq)) \cap Range(cq) = {}
    BY <1>1, <1>2, <1>3, <1>4, <1>5, <1>6
  <1>8. /\ Holders(held) \cap DirectivesOf(hq) = {}
        /\ pre \notin Holders(held) \cup DirectivesOf(hq)
    BY <1>1, <1>2, OneWayLive
  <1>9. /\ IsInjective(cancelingQueue')
        /\ \A d \in Directive : d \in Range(cancelingQueue') =>
               d \in Range(cq) \/ (LiveIn(d, pre, hq, held) /\ ~Live(d)')
    BY <1>1, <1>7, <1>8, ScrubGivesUp
  <1> QED
    BY <1>3, <1>9

\* What the canceling queue and its swapped-out copy are after a step.
CancelsOnce ==
    /\ IsInjective(canceling) /\ IsInjective(cancelingQueue)
    /\ Range(canceling) \cap Range(cancelingQueue) = {}

GivesUp == \A d \in Directive : InCancellation(d)' => InCancellation(d) \/ (Live(d) /\ ~Live(d)')

LEMMA GivingUpStep ==
    ASSUME CallInv, [Next]_vars
    PROVE  CancelsOnce' /\ GivesUp
  <1> USE DEF state, owner, thread, history
  <1>1. /\ cancelingQueue \in Seq(Directive) /\ canceling \in Seq(Directive)
        /\ CancelsOnce /\ \A d \in Directive : Live(d) => ~InCancellation(d)
    BY DEF CallInv, ServiceInv, TypeOK, CancelledCalls, CancelsOnce
  <1>2. /\ directiveBeingPreHandled \in Directive \cup {None}
        /\ handlingQueue \in SUBSET Item /\ IsFiniteSet(handlingQueue)
        /\ directivesBeingHandled \in [Medium -> Directive \cup {None}]
        /\ TypeOK
    BY DEF CallInv, ServiceInv, TypeOK
  <1>3. ASSUME UNCHANGED <<cancelingQueue, canceling>> PROVE CancelsOnce' /\ GivesUp
    BY <1>1, <1>3 DEF CancelsOnce, GivesUp, InCancellation
  <1>4. ASSUME UNCHANGED canceling, cancelingQueue' \in Seq(Directive), IsInjective(cancelingQueue'),
               \A d \in Directive : d \in Range(cancelingQueue') =>
                   d \in Range(cancelingQueue) \/ (Live(d) /\ ~Live(d)')
        PROVE  CancelsOnce' /\ GivesUp
    <2>1. GivesUp
      BY <1>4 DEF GivesUp, InCancellation
    <2>2. Range(cancelingQueue') \subseteq Directive
      BY <1>4, RangeOfSeq
    <2>3. Range(canceling) \cap Range(cancelingQueue') = {}
      BY <1>1, <1>4, <2>2 DEF CancelsOnce, InCancellation
    <2> QED
      BY <1>1, <1>4, <2>1, <2>3 DEF CancelsOnce
  <1>5. TypeOK' /\ cancelingQueue' \in Seq(Directive)
    BY <1>2, TypeStep DEF TypeOK
  <1>6. ASSUME NEW id, SetDialogRequestId(id) PROVE CancelsOnce' /\ GivesUp
    BY <1>1, <1>2, <1>4, <1>5, <1>6, ScrubOfLess DEF SetDialogRequestId, CancelsOnce
  <1>7. CASE Disable \/ BeginShutdown
    BY <1>4, <1>5, <1>7, CancelAllGivesUp DEF Disable, BeginShutdown
  <1>8. ASSUME NEW e \in Directive, SetCompleted(e) PROVE CancelsOnce' /\ GivesUp
    BY <1>4, <1>5, <1>8, WithoutIsOneWay DEF SetCompleted
  <1>9. ASSUME NEW e \in Directive, SetFailed(e) PROVE CancelsOnce' /\ GivesUp
    <2>1. ScrubQueues(DialogOf[e], CancelingQueueWithout(e), PreHandledWithout(e),
                      HandlingQueueWithout(e), BeingHandledWithout(e))
      BY <1>9 DEF SetFailed
    <2>2. /\ CancelingQueueWithout(e) \in Seq(Directive)
          /\ HandlingQueueWithout(e) \in SUBSET Item
          /\ IsFiniteSet(HandlingQueueWithout(e))
          /\ BeingHandledWithout(e) \in [Medium -> Directive \cup {None}]
      BY <1>2, WithoutType
    <2>3. /\ IsInjective(cancelingQueue')
          /\ \A d \in Directive : d \in Range(cancelingQueue') =>
                 d \in Range(cancelingQueue) \/ (Live(d) /\ ~Live(d)')
      BY <2>1, <2>2, WithoutIsOneWay, ScrubOfLess
    <2> QED
      BY <1>4, <1>5, <1>9, <2>3 DEF SetFailed
  <1>10. CASE HandleRejected
    <2> DEFINE held == ClearBeingHandled(handling.policy)
    <2>1. /\ held \in [Medium -> Directive \cup {None}]
          /\ Holders(held) \subseteq Holders(directivesBeingHandled)
      BY <1>2 DEF ClearBeingHandled, Holders
    <2>2. ScrubQueues(DialogOf[handling.directive], cancelingQueue, directiveBeingPreHandled,
                      handlingQueue, held)
      BY <1>10 DEF HandleRejected
    <2> HIDE DEF held
    <2>3. /\ IsInjective(cancelingQueue')
          /\ \A d \in Directive : d \in Range(cancelingQueue') =>
                 d \in Range(cancelingQueue) \/ (Live(d) /\ ~Live(d)')
      BY <1>1, <1>2, <2>1, <2>2, ScrubOfLess DEF CancelsOnce
    <2> QED
      BY <1>4, <1>5, <1>10, <2>3 DEF HandleRejected
  <1>11. CASE TakeCancelingQueue
    <2>1. canceling = <<>>
      BY <1>11 DEF TakeCancelingQueue, CallInv, ServiceInv, ThreadInv, SwappedOut
    <2>2. Range(<<>>) = {} /\ IsInjective(<<>>)
      BY ShortIsInjective, EmptySeq DEF Range
    <2> QED
      BY <1>1, <1>3, <1>11, <2>1, <2>2 DEF TakeCancelingQueue, CancelsOnce, GivesUp, InCancellation
  <1>12. CASE CancelDirective
    <2>1. canceling # <<>> /\ canceling' = Tail(canceling) /\ UNCHANGED cancelingQueue
      BY <1>12 DEF CancelDirective
    <2>2. IsInjective(Tail(canceling)) /\ Range(Tail(canceling)) \subseteq Range(canceling)
      BY <1>1, <2>1, TailIsInjective DEF CancelsOnce
    <2> QED
      BY <1>1, <2>1, <2>2 DEF CancelsOnce, GivesUp, InCancellation
  <1>13. CASE ReceivingThread
    BY <1>3, <1>13 DEF ReceivingThread, RefuseDirective, DropDirective, AcceptDirective,
                       PreHandleDirective, AbandonDirective, EnqueueDirective
  <1>14. CASE SpuriousWakeup \/ ProcessingThread
    BY <1>3, <1>10, <1>11, <1>12, <1>14
    DEF SpuriousWakeup, ProcessingThread, EvaluateWake, AllCancelled, TakeDirective,
        HandleDirective, HandleSucceeded, EndPass
  <1>15. ASSUME NEW e \in Directive, Handler(e) PROVE CancelsOnce' /\ GivesUp
    BY <1>3, <1>8, <1>9, <1>15 DEF Handler, IgnoreReport
  <1>16. CASE Owner
    BY <1>3, <1>6, <1>7, <1>16 DEF Owner, Enable, Unregister, Join
  <1>17. CASE UNCHANGED vars
    BY <1>3, <1>17 DEF vars
  <1> QED
    BY <1>13, <1>14, <1>15, <1>16, <1>17 DEF Next

\* The directive that CancelDirective calls for is given up no more.
LEMMA CancelledStep ==
    ASSUME CallInv, [Next]_vars
    PROVE  CancelledCalls'
  <1>1. CancelsOnce' /\ GivesUp
    BY GivingUpStep
  <1>2. TypeOK /\ canceling \in Seq(Directive)
    BY DEF CallInv, ServiceInv, TypeOK
  <1>3. ASSUME CancelDirective, NEW d \in Directive, d = Head(canceling)
        PROVE  InCancellation(d) /\ ~InCancellation(d)'
    <2>1. canceling # <<>> /\ canceling' = Tail(canceling) /\ UNCHANGED cancelingQueue
      BY <1>3 DEF CancelDirective, state
    <2>2. IsInjective(canceling) /\ Range(canceling) \cap Range(cancelingQueue) = {}
      BY DEF CallInv, CancelledCalls
    <2>3. /\ Head(canceling) \in Range(canceling)
          /\ Head(canceling) \notin Range(Tail(canceling))
      BY <1>2, <2>1, <2>2, TailIsInjective
    <2> QED
      BY <1>3, <2>1, <2>2, <2>3 DEF InCancellation
  <1>4. ASSUME NEW d \in Directive, HasBeen(d, "cancel")', ~HasBeen(d, "cancel")
        PROVE  CancelDirective /\ d = Head(canceling)
    <2>1. ASSUME NEW call \in {"preHandle", "handle", "rejected"}, trace'[d] = Append(trace[d], call)
          PROVE  FALSE
      <3>1. Range(trace'[d]) = Range(trace[d]) \cup {call}
        BY <1>2, <2>1, HistoriesAreSequences
      <3>2. call # "cancel"
        OBVIOUS
      <3> QED
        BY <1>4, <3>1, <3>2 DEF HasBeen
    <2>2. trace'[d] # trace[d]
      BY <1>4 DEF HasBeen
    <2> QED
      BY <1>2, <2>1, <2>2, HistoryStep
  <1>5. ASSUME NEW d \in Directive, Live(d)' PROVE ~HasBeen(d, "cancel")' /\ ~InCancellation(d)'
    <2>1. ~HasBeen(d, "cancel") /\ ~InCancellation(d)
      <3>1. CASE AcceptDirective(d)
        <4>1. d \notin offered
          BY <3>1 DEF AcceptDirective, Offer
        <4>2. trace[d] = <<>> /\ ~InCancellation(d)
          BY <4>1 DEF CallInv, ReceivedCalls
        <4> QED
          BY <4>2, EmptySeq DEF HasBeen, Range
      <3>2. CASE Live(d)
        BY <3>2 DEF CallInv, CancelledCalls
      <3> QED
        BY <1>5, <3>1, <3>2, LiveStep DEF CallInv, ServiceInv, StaysLive
    <2>2. ~InCancellation(d)'
      BY <1>1, <1>5, <2>1 DEF GivesUp
    <2>3. ~HasBeen(d, "cancel")'
      BY <1>3, <1>4, <2>1
    <2> QED
      BY <2>2, <2>3
  <1>6. ASSUME NEW d \in Directive, InCancellation(d)' PROVE ~HasBeen(d, "cancel")'
    <2>1. ~HasBeen(d, "cancel")
      BY <1>1, <1>6 DEF GivesUp, CallInv, CancelledCalls
    <2> QED
      BY <1>3, <1>4, <1>6, <2>1
  <1> QED
    BY <1>1, <1>5, <1>6 DEF CancelledCalls, CancelsOnce

\* The calls made for what onDirective() receives.
LEMMA ReceivedStep ==
    ASSUME CallInv, [Next]_vars
    PROVE  ReceivedCalls'
  <1>1. /\ TypeOK /\ ItemInv /\ ThreadInv /\ PreHandledIsReceived
        /\ ReceivedCalls /\ CancelledCalls
    BY DEF CallInv, ServiceInv
  <1>2. offered \subseteq offered'
    BY <1>1, OrdinaryStep
    DEF Ordinary, EnqueueDirective, TakeDirective, HandleDirective, HandleSucceeded,
        HandleRejected, history
  <1>3. receiving.directive \in Directive => receiving.directive \in offered
    BY <1>1, ProcessorAssumption DEF ItemInv
  <1>4. HandleDirective \/ HandleRejected =>
            /\ handling.directive \in offered
            /\ handling.directive # receiving.directive
    <2> SUFFICES ASSUME HandleDirective \/ HandleRejected
                 PROVE  /\ handling.directive \in offered
                        /\ handling.directive # receiving.directive
      OBVIOUS
    <2>1. handling # NoItem
      BY <1>1 DEF HandleDirective, HandleRejected, ThreadInv
    <2>2. PICK i \in DOMAIN arrived : handling = arrived[i]
      BY <1>1, <2>1 DEF ItemInv, Range
    <2> QED
      BY <1>1, <2>2 DEF ItemInv
  <1>5. ASSUME CancelDirective, NEW d \in Directive, d = Head(canceling)
        PROVE  InCancellation(d)
    <2>1. canceling \in Seq(Directive) /\ canceling # <<>> /\ IsInjective(canceling)
      BY <1>1, <1>5 DEF CancelDirective, TypeOK, CancelledCalls
    <2> QED
      BY <1>5, <2>1, TailIsInjective DEF InCancellation
  <1>6. ASSUME NEW d \in Directive \ offered' PROVE trace'[d] = <<>> /\ ~InCancellation(d)'
    <2>1. d \notin offered
      BY <1>2, <1>6
    <2>2. trace[d] = <<>> /\ ~InCancellation(d)
      BY <1>1, <2>1 DEF ReceivedCalls
    <2>3. ~InCancellation(d)'
      BY <2>1, <2>2, GivingUpStep, OneWayLive DEF GivesUp
    <2>4. trace'[d] = trace[d]
      BY <1>1, <1>3, <1>4, <1>5, <2>1, <2>2, HistoryStep
    <2> QED
      BY <2>2, <2>3, <2>4
  <1>7. CASE \E d \in Directive : AcceptDirective(d)
    <2>1. PICK d \in Directive : AcceptDirective(d)
      BY <1>7
    <2>2. /\ d \notin offered /\ UNCHANGED trace
          /\ receiving'.stage = "toPreHandle" /\ receiving'.directive = d
          /\ directiveBeingPreHandled' = d
      BY <2>1 DEF AcceptDirective, Offer
    <2>3. trace'[d] = <<>>
      BY <1>1, <2>2 DEF ReceivedCalls
    <2> QED
      BY <1>6, <2>2, <2>3 DEF ReceivedCalls, PreCalls
  <1>8. CASE PreHandleDirective
    <2> DEFINE d == receiving.directive
    <2>1. /\ receiving.stage = "toPreHandle" /\ d \in Directive
          /\ receiving'.stage = "preHandling"
          /\ UNCHANGED directiveBeingPreHandled
          /\ Called(d, "preHandle")
      BY <1>1, <1>8 DEF PreHandleDirective, TypeOK, Idle, state
    <2>2. ASSUME directiveBeingPreHandled # None
          PROVE  trace'[directiveBeingPreHandled] = <<"preHandle">>
      <3>1. directiveBeingPreHandled = d /\ trace[d] = <<>>
        BY <1>1, <2>1, <2>2 DEF PreHandledIsReceived, ReceivedCalls, PreCalls
      <3>2. trace'[d] = Append(<<>>, "preHandle")
        BY <1>1, <2>1, <3>1 DEF Called, TypeOK
      <3> QED
        BY <3>1, <3>2
    <2> QED
      BY <1>6, <2>1, <2>2 DEF ReceivedCalls, PreCalls
  <1>9. CASE receiving' = Idle /\ directiveBeingPreHandled' = None
    BY <1>6, <1>9 DEF ReceivedCalls, Idle
  <1>10. CASE /\ UNCHANGED receiving /\ ~PreHandleDirective
              /\ directiveBeingPreHandled' \in {None, directiveBeingPreHandled}
    <2>1. ASSUME receiving.stage = "toPreHandle"
          PROVE  trace'[receiving.directive] \in {<<>>, <<"cancel">>}
      <3>1. receiving.directive \in Directive
        BY <1>1, <2>1 DEF TypeOK, Idle
      <3>2. CASE trace'[receiving.directive] = trace[receiving.directive]
        BY <1>1, <2>1, <3>2 DEF ReceivedCalls
      <3>3. CASE /\ CancelDirective /\ receiving.directive = Head(canceling)
                 /\ trace'[receiving.directive] = Append(trace[receiving.directive], "cancel")
        <4>1. ~HasBeen(receiving.directive, "cancel")
          BY <1>1, <1>5, <3>1, <3>3 DEF CancelledCalls
        <4>2. Range(<<"cancel">>) = {"cancel"}
          BY DEF Range
        <4>3. trace[receiving.directive] = <<>>
          BY <1>1, <2>1, <4>1, <4>2 DEF ReceivedCalls, HasBeen
        <4> QED
          BY <3>3, <4>3
      <3> QED
        BY <1>1, <1>4, <1>10, <3>1, <3>2, <3>3, HistoryStep
    <2>2. ASSUME directiveBeingPreHandled' # None
          PROVE  trace'[directiveBeingPreHandled'] = PreCalls'
      <3> DEFINE d == directiveBeingPreHandled
      <3>1. directiveBeingPreHandled' = d /\ d = receiving.directive /\ d # None /\ d \in Directive
        BY <1>1, <1>10, <2>2 DEF PreHandledIsReceived, TypeOK
      <3>2. ~InCancellation(d)
        <4>1. Live(d)
          BY <3>1 DEF Live, LiveIn
        <4> QED
          BY <1>1, <3>1, <4>1 DEF CancelledCalls
      <3>3. trace'[d] = trace[d]
        BY <1>1, <1>4, <1>5, <1>10, <3>1, <3>2, HistoryStep
      <3> QED
        BY <1>1, <1>10, <3>1, <3>3 DEF ReceivedCalls, PreCalls
    <2> QED
      BY <1>6, <1>10, <2>1, <2>2 DEF ReceivedCalls
  <1> QED
    BY <1>1, <1>7, <1>8, <1>9, <1>10, ReceivedCallsStep

\* A queued or handled directive is not the one inside onDirective(), and an
\* item in hand is a queued one no more.
LEMMA CallsOfOthers ==
    ASSUME CallInv, [Next]_vars, NEW d \in Directive, ~InCancellation(d),
           d # receiving.directive, d # handling.directive
    PROVE  trace'[d] = trace[d]
  <1>1. TypeOK /\ IsInjective(canceling)
    BY DEF CallInv, ServiceInv, CancelledCalls
  <1>2. CancelDirective => Head(canceling) \in Range(canceling)
    BY <1>1, TailIsInjective DEF CancelDirective, TypeOK
  <1> QED
    BY <1>1, <1>2, HistoryStep DEF InCancellation

LEMMA PairByAppend ==
    ASSUME NEW S, NEW a \in S, NEW b \in S
    PROVE  Append(<<a>>, b) = <<a, b>>
  <1>1. <<a>> \in Seq(S) /\ Len(<<a>>) = 1 /\ <<a>>[1] = a
    OBVIOUS
  <1>2. <<a, b>> \in Seq(S) /\ Len(<<a, b>>) = 2 /\ <<a, b>>[1] = a /\ <<a, b>>[2] = b
    OBVIOUS
  <1>3. ASSUME NEW one \in Seq(S)
        PROVE /\ Append(one, b) \in Seq(S) /\ Len(Append(one, b)) = Len(one) + 1
              /\ \A i \in 1..Len(one) : Append(one, b)[i] = one[i]
              /\ Append(one, b)[Len(one) + 1] = b
    BY AppendProperties
  <1> DEFINE app == Append(<<a>>, b)
             two == <<a, b>>
             one == <<a>>
  <1>4. /\ app \in Seq(S) /\ Len(app) = Len(one) + 1 
        /\ \A i \in 1..Len(one) : app[i] = one[i]
        /\ app[Len(one) + 1] = b
    BY <1>1, <1>3, Zenon
  <1>5. /\ two \in Seq(S) /\ Len(two) = 2 /\ two[1] = a /\ two[2] = b /\ Len(one) = 1 /\ one[1] = a
    BY <1>1, <1>2
  <1> HIDE DEF app, two, one
  <1>6. Len(app) = 2 /\ app[1] = a /\ app[2] = b
    BY <1>4, <1>5
  <1>7. \A i \in 1..Len(app) : app[i] = two[i]
    BY <1>5, <1>6
  <1>8. app = two
    BY <1>4, <1>5, <1>6, <1>7, SeqEqual
  <1> QED
    BY <1>8 DEF app, two

LEMMA HandleAfterPreHandle == Append(<<"preHandle">>, "handle") = <<"preHandle", "handle">>
  <1>1. "preHandle" \in {"preHandle", "handle"} /\ "handle" \in {"preHandle", "handle"}
    OBVIOUS
  <1> QED
    BY <1>1, PairByAppend, Zenon

\* The calls made for what is queued, in hand or in possession of a medium.
LEMMA QueuedStep ==
    ASSUME CallInv, [Next]_vars
    PROVE  QueuedCalls'
  <1>1. /\ TypeOK /\ ItemInv /\ ThreadInv /\ PreHandledIsReceived
        /\ ReceivedCalls /\ QueuedCalls /\ CancelledCalls
    BY DEF CallInv, ServiceInv
  <1>2. ItemInv' /\ ThreadInv' /\ TypeOK'
    BY <1>1, TypeStep, ItemStep, ThreadStep
  <1>3. ASSUME NEW item \in handlingQueue
        PROVE  /\ item \in Item /\ item.directive \in Directive
               /\ trace'[item.directive] = <<"preHandle">>
    <2>1. item \in Item /\ item.directive \in Directive
      BY <1>1, ItemFields DEF TypeOK
    <2>2. Live(item.directive)
      BY DEF Live, LiveIn
    <2>3. item.directive # receiving.directive
      BY <1>1 DEF ItemInv, Range
    <2>4. trace'[item.directive] = trace[item.directive]
      BY <1>1, <2>1, <2>2, <2>3, CallsOfOthers DEF QueuedCalls, CancelledCalls
    <2> QED
      BY <1>1, <2>1, <2>4 DEF QueuedCalls
  <1>4. \A d \in Directive : HasBeen(d, "handle") => HasBeen(d, "handle")'
    BY <1>1, HistoryGrows DEF HasBeen
  <1>5. ASSUME UNCHANGED handling, handling # NoItem, ~HandleDirective, ~HandleRejected
        PROVE  trace'[handling.directive] = trace[handling.directive]
    <2>1. handling.directive \in Directive /\ handling.directive # receiving.directive
      BY <1>1, <1>5, ItemsAreItems, ItemFields DEF ItemInv, Range
    <2>2. ~CancelDirective
      BY <1>1, <1>5 DEF CancelDirective, ThreadInv
    <2> QED
      BY <1>1, <1>5, <2>1, <2>2, HistoryStep
  \* Steps that leave the item in hand, and can only shrink the queue and free mediums.
  <1>6. CASE Ordinary
    <2>1. ASSUME NEW item \in handlingQueue'
          PROVE  trace'[item.directive] = <<"preHandle">> /\ item.directive # handling'.directive
      BY <1>1, <1>3, <1>6, <2>1 DEF Ordinary, QueuedCalls
    <2>2. ~HandleDirective /\ ~HandleRejected
      BY <1>1, <1>6 DEF Ordinary, HandleDirective, HandleRejected
    <2>3. pc' \in {"toHandle", "handling"} =>
              pc' = pc /\ handling # NoItem /\ trace'[handling.directive] = trace[handling.directive]
      BY <1>1, <1>5, <1>6, <2>2 DEF Ordinary, ThreadInv
    <2>4. (pc = "toHandle" => trace[handling.directive] = <<"preHandle">>)'
      BY <1>1, <1>6, <2>3 DEF Ordinary, QueuedCalls
    <2>5. (pc = "handling" => trace[handling.directive] = <<"preHandle", "handle">>)'
      BY <1>1, <1>6, <2>3 DEF Ordinary, QueuedCalls
    <2>6. ASSUME NEW m \in Medium, directivesBeingHandled'[m] # None
          PROVE  \/ HasBeen(directivesBeingHandled[m], "handle")'
                 \/ directivesBeingHandled'[m] = handling'.directive
      <3>1. directivesBeingHandled'[m] = directivesBeingHandled[m]
        BY <1>6, <2>6 DEF Ordinary
      <3>2. directivesBeingHandled[m] \in Directive
        BY <1>1, <2>6, <3>1 DEF TypeOK
      <3>3. HasBeen(directivesBeingHandled[m], "handle") \/ directivesBeingHandled[m] = handling.directive
        BY <1>1, <2>6, <3>1 DEF QueuedCalls
      <3> QED
        BY <1>4, <1>6, <3>1, <3>2, <3>3 DEF Ordinary, HasBeen
    <2> QED
      BY <2>1, <2>4, <2>5, <2>6 DEF QueuedCalls
  <1>7. CASE EnqueueDirective
    <2> DEFINE new == [directive |-> receiving.directive, policy |-> receiving.policy]
    <2>1. /\ UNCHANGED <<handling, directivesBeingHandled, trace>>
          /\ pc' = pc \/ {pc, pc'} \cap {"toHandle", "handling"} = {}
          /\ handlingQueue' = handlingQueue \cup {new}
          /\ receiving.stage = "preHandling" /\ directiveBeingPreHandled # None
      BY <1>7, NotifyIsOrdinary DEF EnqueueDirective, WasRemoved
    <2>2. new.directive = directiveBeingPreHandled /\ trace[new.directive] = <<"preHandle">>
      BY <1>1, <2>1 DEF PreHandledIsReceived, ReceivedCalls, PreCalls
    <2>3. new.directive # handling.directive
      <3>1. \A i \in DOMAIN arrived : arrived[i].directive # new.directive
        BY <1>1, <1>7, NewItem
      <3>2. NoItem.directive = None /\ new.directive # None
        BY <2>1, <2>2 DEF NoItem
      <3> QED
        BY <1>1, <3>1, <3>2 DEF ItemInv, Range
    <2> QED
      BY <1>1, <2>1, <2>2, <2>3 DEF QueuedCalls, HasBeen
  <1>8. CASE TakeDirective
    <2>1. PICK item \in handlingQueue :
              /\ directivesBeingHandled' =
                     [m \in Medium |-> IF m \in item.policy.mediums THEN item.directive
                                       ELSE directivesBeingHandled[m]]
              /\ handlingQueue' = handlingQueue \ {item}
              /\ handling' = item
      BY <1>1, <1>8, TakenItem
    <2>2. pc = "handle" /\ pc' = "toHandle" /\ UNCHANGED trace
      BY <1>8 DEF TakeDirective, history
    <2>3. \A other \in handlingQueue' : other.directive # item.directive
      BY <1>1, <2>1 DEF ItemInv, Range
    <2>4. handling.directive = None
      BY <1>1, <2>2 DEF ThreadInv, NoItem
    <2> QED
      BY <1>1, <1>3, <2>1, <2>2, <2>3, <2>4 DEF QueuedCalls, HasBeen
  <1>9. CASE HandleDirective
    <2>1. /\ pc = "toHandle" /\ pc' = "handling"
          /\ UNCHANGED <<handling, handlingQueue, directivesBeingHandled>>
          /\ Called(handling.directive, "handle")
      BY <1>9 DEF HandleDirective, state
    <2>2. trace[handling.directive] = <<"preHandle">>
      BY <1>1, <2>1 DEF QueuedCalls
    <2>3. handling.directive \in Directive
      BY <1>1, <2>1, ItemFields DEF ThreadInv, TypeOK
    <2>4. trace'[handling.directive] = <<"preHandle", "handle">>
      <3>1. trace'[handling.directive] = Append(<<"preHandle">>, "handle")
        BY <1>1, <2>1, <2>2, <2>3 DEF Called, TypeOK
      <3> QED
        BY <3>1, HandleAfterPreHandle
    <2>5. ASSUME NEW m \in Medium, directivesBeingHandled[m] # None,
                 directivesBeingHandled[m] # handling.directive
          PROVE  HasBeen(directivesBeingHandled[m], "handle")'
      <3>1. directivesBeingHandled[m] \in Directive /\ HasBeen(directivesBeingHandled[m], "handle")
        BY <1>1, <2>5 DEF QueuedCalls, TypeOK
      <3> QED
        BY <1>4, <2>1, <3>1 DEF HasBeen
    <2> QED
      BY <1>1, <1>3, <2>1, <2>4, <2>5 DEF QueuedCalls
  <1>10. CASE HandleSucceeded \/ HandleRejected
    <2>1. /\ pc = "handling" /\ pc' = "handle" /\ handling' = NoItem
          /\ handlingQueue' \subseteq handlingQueue
          /\ \A m \in Medium : directivesBeingHandled'[m] \in {directivesBeingHandled[m], None}
      <3>1. CASE HandleSucceeded
        BY <3>1 DEF HandleSucceeded, ClearBeingHandled
      <3>2. CASE HandleRejected
        BY <1>1, <3>2, RejectionIsOrdinary DEF HandleRejected
      <3> QED
        BY <1>10, <3>1, <3>2
    <2>2. \A item \in handlingQueue' : item.directive # handling'.directive
      BY <1>3, <2>1, ProcessorAssumption DEF NoItem
    <2>3. ASSUME NEW m \in Medium, directivesBeingHandled'[m] # None
          PROVE  HasBeen(directivesBeingHandled[m], "handle")'
      <3>1. directivesBeingHandled'[m] = directivesBeingHandled[m]
        BY <2>1, <2>3
      <3>2. directivesBeingHandled[m] \in Directive
        BY <1>1, <2>3, <3>1 DEF TypeOK
      <3>3. HasBeen(directivesBeingHandled[m], "handle")
        BY <1>1, <2>1, <2>3, <3>1 DEF QueuedCalls, ThreadInv
      <3> QED
        BY <1>4, <3>1, <3>2, <3>3 DEF HasBeen
    <2> QED
      BY <1>3, <2>1, <2>2, <2>3 DEF QueuedCalls
  <1> QED
    BY <1>1, <1>6, <1>7, <1>8, <1>9, <1>10, OrdinaryStep

\* A history that is well-formed.
WellFormed(calls) ==
    /\ IsInjective(calls)
    /\ \A i \in DOMAIN calls : calls[i] = "handle" => i = 2 /\ calls[1] = "preHandle"

LEMMA AppendIsWellFormed ==
    ASSUME NEW calls \in Seq({"preHandle", "handle", "rejected", "cancel"}),
           NEW call \in {"preHandle", "rejected", "cancel"},
           WellFormed(calls), call \notin Range(calls)
    PROVE  WellFormed(Append(calls, call))
  <1> DEFINE more == Append(calls, call)
  <1>1. /\ DOMAIN calls = 1..Len(calls) /\ Len(calls) \in Nat
        /\ DOMAIN more = 1..(Len(calls) + 1)
        /\ \A i \in 1..Len(calls) : more[i] = calls[i]
        /\ more[Len(calls) + 1] = call
    <2>1. more \in Seq({"preHandle", "handle", "rejected", "cancel"}) /\ Len(more) = Len(calls) + 1
      BY AppendProperties
    <2> QED
      BY <2>1, AppendProperties, LenProperties
  <1> HIDE DEF more
  <1>2. \A i \in DOMAIN calls : calls[i] # call
    BY DEF Range
  <1>3. ASSUME NEW i \in DOMAIN more, NEW j \in DOMAIN more, more[i] = more[j] PROVE i = j
    <2>1. CASE i \in DOMAIN calls /\ j \in DOMAIN calls
      BY <1>1, <1>3, <2>1 DEF WellFormed, IsInjective
    <2>2. CASE i \notin DOMAIN calls \/ j \notin DOMAIN calls
      <3>1. i = Len(calls) + 1 \/ j = Len(calls) + 1
        BY <1>1, <2>2
      <3>2. more[i] = call /\ more[j] = call
        BY <1>1, <1>3, <3>1
      <3> QED
        BY <1>1, <1>2, <3>1, <3>2
    <2> QED
      BY <2>1, <2>2
  <1>4. ASSUME NEW i \in DOMAIN more, more[i] = "handle" PROVE i = 2 /\ more[1] = "preHandle"
    <2>1. call # "handle"
      OBVIOUS
    <2>2. i \in DOMAIN calls /\ calls[i] = "handle"
      BY <1>1, <1>4, <2>1
    <2>3. i = 2 /\ calls[1] = "preHandle"
      BY <2>2 DEF WellFormed
    <2>4. 1 \in 1..Len(calls)
      BY <1>1, <2>2, <2>3
    <2> QED
      BY <1>1, <2>3, <2>4
  <1> QED
    BY <1>3, <1>4 DEF WellFormed, IsInjective, more

LEMMA ShortIsWellFormed ==
    /\ WellFormed(<<>>)
    /\ WellFormed(<<"preHandle", "handle">>)
    /\ "rejected" \notin Range(<<"preHandle", "handle">>)
    /\ "preHandle" \notin Range(<<>>)
    /\ "preHandle" \notin Range(<<"cancel">>)
  BY DEF WellFormed, IsInjective, Range

LEMMA WellFormedStep ==
    ASSUME CallInv, [Next]_vars
    PROVE  CallsWellFormed'
  <1> SUFFICES ASSUME NEW d \in Directive PROVE WellFormed(trace'[d])
    BY DEF CallsWellFormed, WellFormed
  <1>1. TypeOK /\ ThreadInv /\ ReceivedCalls /\ QueuedCalls /\ CancelledCalls
    BY DEF CallInv, ServiceInv
  <1>2. WellFormed(trace[d])
    BY DEF CallInv, CallsWellFormed, WellFormed
  <1>3. trace[d] \in Seq({"preHandle", "handle", "rejected", "cancel"})
    BY <1>1 DEF TypeOK
  <1>4. CASE trace'[d] = trace[d]
    BY <1>2, <1>4
  <1>5. CASE /\ PreHandleDirective /\ d = receiving.directive
             /\ trace'[d] = Append(trace[d], "preHandle")
    <2>1. trace[d] \in {<<>>, <<"cancel">>}
      BY <1>1, <1>5 DEF PreHandleDirective, ReceivedCalls
    <2>2. "preHandle" \notin Range(trace[d])
      BY <2>1, ShortIsWellFormed
    <2> QED
      BY <1>2, <1>3, <1>5, <2>2, AppendIsWellFormed
  <1>6. CASE /\ HandleDirective /\ d = handling.directive
             /\ trace'[d] = Append(trace[d], "handle")
    <2>1. trace[d] = <<"preHandle">>
      BY <1>1, <1>6 DEF HandleDirective, QueuedCalls
    <2> QED
      BY <1>6, <2>1, HandleAfterPreHandle, ShortIsWellFormed
  <1>7. CASE /\ HandleRejected /\ d = handling.directive
             /\ trace'[d] = Append(trace[d], "rejected")
    <2>1. trace[d] = <<"preHandle", "handle">>
      BY <1>1, <1>7 DEF HandleRejected, QueuedCalls
    <2>2. "rejected" \notin Range(trace[d])
      BY <2>1, ShortIsWellFormed
    <2> QED
      BY <1>2, <1>3, <1>7, <2>2, AppendIsWellFormed
  <1>8. CASE /\ CancelDirective /\ d = Head(canceling)
             /\ trace'[d] = Append(trace[d], "cancel")
    <2>1. canceling \in Seq(Directive) /\ canceling # <<>> /\ IsInjective(canceling)
      BY <1>1, <1>8 DEF CancelDirective, TypeOK, CancelledCalls
    <2>2. InCancellation(d)
      BY <1>8, <2>1, TailIsInjective DEF InCancellation
    <2>3. "cancel" \notin Range(trace[d])
      BY <1>1, <2>2 DEF CancelledCalls, HasBeen
    <2> QED
      BY <1>2, <1>3, <1>8, <2>3, AppendIsWellFormed
  <1> QED
    BY <1>1, <1>4, <1>5, <1>6, <1>7, <1>8, HistoryStep

LEMMA CallInit == Init => CallInv
  <1> SUFFICES ASSUME Init PROVE CallInv
    OBVIOUS
  <1>1. ServiceInv /\ PreHandledIsReceived
    BY ServiceInit DEF Init, PreHandledIsReceived
  <1>2. /\ Range(cancelingQueue) = {} /\ Range(canceling) = {}
        /\ \A d \in Directive : trace[d] = <<>> /\ Range(trace[d]) = {}
    BY EmptySeq DEF Init, Range
  <1>3. ReceivedCalls
    BY <1>2 DEF Init, ReceivedCalls, InCancellation, Idle
  <1>4. QueuedCalls
    BY DEF Init, QueuedCalls
  <1>5. CancelledCalls
    BY <1>2, ShortIsInjective DEF Init, CancelledCalls, InCancellation, HasBeen
  <1>6. CallsWellFormed
    BY <1>2, ShortIsWellFormed DEF CallsWellFormed, WellFormed
  <1> QED
    BY <1>1, <1>3, <1>4, <1>5, <1>6 DEF CallInv

LEMMA CallStep == CallInv /\ [Next]_vars => CallInv'
  <1> SUFFICES ASSUME CallInv, [Next]_vars PROVE CallInv'
    OBVIOUS
  <1>1. ServiceInv' /\ PreHandledIsReceived'
    BY ServiceStep, PreHandledStep DEF CallInv, ServiceInv
  <1> QED
    BY <1>1, ReceivedStep, QueuedStep, CancelledStep, WellFormedStep DEF CallInv

\* No call is made twice for a directive, and handleDirective() only after
\* preHandleDirective() and before any cancelDirective().
THEOREM CallsAreWellFormed == Spec => []CallsWellFormed
  <1>1. CallInv => CallsWellFormed
    BY DEF CallInv
  <1> QED
    BY <1>1, CallInit, CallStep, PTL DEF Spec

-----------------------------------------------------------------------------
(***************************************************************************)
(* The stage of a directive, and the policy that it was queued with.       *)
(***************************************************************************)
Stages == {"new", "preHandling", "queued", "handling", "canceling", "gone"}

HasStage(d) ==
    /\ StageOf(d) \in Stages
    /\ StageOf(d) = "new" <=> d \notin offered
    /\ StageOf(d) = "preHandling" <=> d = directiveBeingPreHandled
    /\ StageOf(d) = "queued" <=> IsQueued(d)
    /\ StageOf(d) = "handling" <=> d \in Holders(directivesBeingHandled)
    /\ StageOf(d) = "canceling" <=> InCancellation(d)

Staged == \A d \in Directive : HasStage(d)

\* A directive is in one place, which is its stage.
LEMMA StageIsPlace == CallInv => Staged
  <1> SUFFICES ASSUME CallInv, NEW d \in Directive PROVE HasStage(d)
    BY DEF Staged
  <1>1. /\ d = directiveBeingPreHandled => d \notin Holders(directivesBeingHandled) /\ ~IsQueued(d)
        /\ IsQueued(d) => d \notin Holders(directivesBeingHandled)
        /\ Live(d) => d \in offered /\ ~InCancellation(d)
    BY OneWayLive DEF IsQueued, DirectivesOf, CallInv, CancelledCalls
  <1>2. Live(d) <=> \/ d = directiveBeingPreHandled \/ IsQueued(d)
                    \/ d \in Holders(directivesBeingHandled)
    BY DEF Live, LiveIn, IsQueued
  <1>3. d \notin offered => ~InCancellation(d)
    BY DEF CallInv, ReceivedCalls
  <1> QED
    BY <1>1, <1>2, <1>3 DEF HasStage, StageOf, Stages

LEMMA StageIsPlaceNext == CallInv' => Staged'
  BY StageIsPlace, PTL

HasQueuedPolicy(d) ==
    /\ \A i \in DOMAIN arrived : arrived[i].directive = d => QueuedPolicy(d) = arrived[i].policy
    /\ d \notin DirectivesOf(Range(arrived)) => QueuedPolicy(d) = DefaultPolicy

Policies == \A d \in Directive : HasQueuedPolicy(d)

LEMMA PolicyOfItem == ItemInv => Policies
  <1> SUFFICES ASSUME ItemInv, NEW d \in Directive PROVE HasQueuedPolicy(d)
    BY DEF Policies
  <1>1. ASSUME NEW i \in DOMAIN arrived, arrived[i].directive = d
        PROVE  QueuedPolicy(d) = arrived[i].policy
    <2>1. arrived[i] \in Range(arrived)
      BY DEF Range
    <2>2. \A item \in Range(arrived) : item.directive = d => item = arrived[i]
      BY <1>1 DEF Range, ItemInv
    <2>3. (CHOOSE item \in Range(arrived) : item.directive = d) = arrived[i]
      BY <1>1, <2>1, <2>2
    <2> QED
      BY <1>1, <2>3 DEF QueuedPolicy
  <1>2. d \notin DirectivesOf(Range(arrived)) => QueuedPolicy(d) = DefaultPolicy
    BY DEF QueuedPolicy, DirectivesOf, Range
  <1> QED
    BY <1>1, <1>2 DEF HasQueuedPolicy

LEMMA PolicyOfItemNext == ItemInv' => Policies'
  BY PolicyOfItem, PTL

-----------------------------------------------------------------------------
(***************************************************************************)
(* A directive that holds a medium holds those of its policy, and no       *)
(* other; and a directive without a result was not offered.                *)
(***************************************************************************)
HoldsAll ==
    \A d \in Holders(directivesBeingHandled) : \A m \in Medium :
        directivesBeingHandled[m] = d <=> m \in QueuedPolicy(d).mediums

LifeInv == CallInv /\ HoldsAll /\ \A d \in Directive \ offered : result[d] = "none"

LEMMA HoldersArrived ==
    ASSUME CallInv, NEW d \in Holders(directivesBeingHandled)
    PROVE  d \in Directive /\ \E i \in DOMAIN arrived : arrived[i].directive = d
  <1>1. PICK m \in Medium : d = directivesBeingHandled[m] /\ d # None
    BY DEF Holders
  <1>2. d \in Directive
    BY <1>1 DEF CallInv, ServiceInv, TypeOK
  <1>3. CASE HasBeen(d, "handle")
    BY <1>2, <1>3 DEF CallInv, ServiceInv, ThreadInv
  <1>4. CASE d = handling.directive
    <2>1. handling # NoItem
      BY <1>2, <1>4, ProcessorAssumption DEF NoItem
    <2> QED
      BY <1>2, <1>4, <2>1 DEF CallInv, ServiceInv, ItemInv, Range
  <1> QED
    BY <1>1, <1>2, <1>3, <1>4 DEF CallInv, QueuedCalls

(***************************************************************************)
(* Where a cancellation leaves each directive.                             *)
(***************************************************************************)
LEMMA HoldersOfReleased ==
    ASSUME NEW held \in [Medium -> Directive \cup {None}], NEW gone, NEW d \in Directive
    PROVE  d \in Holders(Release(held, gone)) <=> d \in Holders(held) /\ d \notin gone
  <1>1. d # None
    BY ProcessorAssumption
  <1> QED
    BY <1>1 DEF Holders, Release

LEMMA ScrubMoves ==
    ASSUME NEW id, NEW cq \in Seq(Directive), NEW pre \in Directive \cup {None},
           NEW hq \in SUBSET Item, IsFiniteSet(hq),
           NEW held \in [Medium -> Directive \cup {None}],
           ScrubQueues(id, cq, pre, hq, held)
    PROVE  \A d \in Directive :
               /\ d = directiveBeingPreHandled' <=> d = pre /\ d \notin DirectivesOfDialog(id)
               /\ IsQueued(d)' <=> d \in DirectivesOf(hq) /\ d \notin DirectivesOfDialog(id)
               /\ d \in Holders(directivesBeingHandled') <=>
                      d \in Holders(held) /\ d \notin DirectivesOfDialog(id)
               /\ d \in Range(cancelingQueue') <=>
                      d \in Range(cq) \/ (d \in DirectivesOfDialog(id) /\ LiveIn(d, pre, hq, held))
  <1> SUFFICES ASSUME NEW d \in Directive
      PROVE  /\ d = directiveBeingPreHandled' <=> d = pre /\ d \notin DirectivesOfDialog(id)
             /\ IsQueued(d)' <=> d \in DirectivesOf(hq) /\ d \notin DirectivesOfDialog(id)
             /\ d \in Holders(directivesBeingHandled') <=>
                    d \in Holders(held) /\ d \notin DirectivesOfDialog(id)
             /\ d \in Range(cancelingQueue') <=>
                    d \in Range(cq) \/ (d \in DirectivesOfDialog(id) /\ LiveIn(d, pre, hq, held))
    OBVIOUS
  <1> DEFINE doomed == DirectivesOfDialog(id)
             first == OneIf(pre, pre \in doomed)
             last == <<>>
  <1>1. d # None
    BY ProcessorAssumption
  <1>2. /\ first \in Seq(Directive) /\ last \in Seq(Directive)
        /\ Range(first) = {pre} \cap doomed /\ Range(last) = {}
    <2>1. CASE pre \in doomed
      <3>1. first = <<pre>> /\ pre \in Directive
        BY <1>1, <2>1 DEF OneIf, DirectivesOfDialog
      <3>2. Range(<<pre>>) = {pre} /\ Range(<<>>) = {}
        BY DEF Range
      <3>3. <<pre>> \in Seq(Directive)
        BY <3>1
      <3> QED
        BY <2>1, <3>1, <3>2, <3>3, EmptySeq
    <2>2. CASE pre \notin doomed
      BY <2>2, EmptySeq DEF OneIf, Range
    <2> QED
      BY <2>1, <2>2
  <1>3. /\ QueueForCancellation(doomed, cq, first, hq, held, last)
        /\ directiveBeingPreHandled' = IF pre \in doomed THEN None ELSE pre
    BY DEF ScrubQueues
  <1>4. /\ handlingQueue' = {item \in hq : item.directive \notin doomed}
        /\ directivesBeingHandled' = Release(held, doomed)
    BY <1>3 DEF QueueForCancellation
  <1> HIDE DEF first, last, doomed
  <1>5. Range(cancelingQueue') =
            Range(cq) \cup Range(first) \cup (Holders(held) \cap doomed)
                \cup (DirectivesOf(hq) \cap doomed) \cup Range(last)
    BY <1>2, <1>3, CancellationMoves
  <1>6. IsQueued(d)' <=> d \in DirectivesOf(hq) /\ d \notin doomed
    BY <1>4 DEF IsQueued, DirectivesOf
  <1>7. d \in Holders(directivesBeingHandled') <=> d \in Holders(held) /\ d \notin doomed
    BY <1>4, HoldersOfReleased
  <1>8. d = directiveBeingPreHandled' <=> d = pre /\ d \notin doomed
    BY <1>1, <1>3
  <1>9. d \in Range(cancelingQueue') <=>
            d \in Range(cq) \/ (d \in doomed /\ LiveIn(d, pre, hq, held))
    <2>1. LiveIn(d, pre, hq, held) <=> d = pre \/ d \in DirectivesOf(hq) \/ d \in Holders(held)
      BY DEF LiveIn, DirectivesOf
    <2> QED
      BY <1>2, <1>5, <2>1
  <1> QED
    BY <1>6, <1>7, <1>8, <1>9 DEF doomed

LEMMA CancelAllMoves ==
    ASSUME TypeOK, QueueAllForCancellation, NEW d \in Directive
    PROVE  /\ d # directiveBeingPreHandled' /\ ~IsQueued(d)'
           /\ d \notin Holders(directivesBeingHandled')
           /\ d \in Range(cancelingQueue') <=> d \in Range(cancelingQueue) \/ Live(d)
  <1> DEFINE last == OneIf(directiveBeingPreHandled, directiveBeingPreHandled # None)
             first == <<>>
  <1>1. ~Live(d)'
    BY CancelAllLeavesNone
  <1>2. /\ cancelingQueue \in Seq(Directive) /\ handlingQueue \in SUBSET Item
        /\ IsFiniteSet(handlingQueue)
        /\ directivesBeingHandled \in [Medium -> Directive \cup {None}]
        /\ directiveBeingPreHandled \in Directive \cup {None}
    BY DEF TypeOK
  <1>3. /\ first \in Seq(Directive) /\ last \in Seq(Directive)
        /\ Range(last) = {directiveBeingPreHandled} \ {None} /\ Range(first) = {}
    BY <1>2, EmptySeq DEF OneIf, Range
  <1>4. QueueForCancellation(Directive, cancelingQueue, first, handlingQueue,
                             directivesBeingHandled, last)
    BY DEF QueueAllForCancellation
  <1> HIDE DEF first, last
  <1>5. Range(cancelingQueue') =
            Range(cancelingQueue) \cup Range(first)
                \cup (Holders(directivesBeingHandled) \cap Directive)
                \cup (DirectivesOf(handlingQueue) \cap Directive) \cup Range(last)
    BY <1>2, <1>3, <1>4, CancellationMoves
  <1>6. d # None
    BY ProcessorAssumption
  <1>7. d \in Range(cancelingQueue') <=> d \in Range(cancelingQueue) \/ Live(d)
    BY <1>3, <1>5, <1>6 DEF Live, LiveIn, DirectivesOf
  <1> QED
    BY <1>1, <1>7 DEF Live, LiveIn, IsQueued, Holders

\* What removeDirectiveLocked() leaves: the directive in no place but the queue
\* being cancelled, every other one where it was.
LEMMA WithoutMoves ==
    ASSUME CallInv, NEW gone \in Directive, NEW d \in Directive
    PROVE  /\ d = PreHandledWithout(gone) <=> d = directiveBeingPreHandled /\ d # gone
           /\ d \in DirectivesOf(HandlingQueueWithout(gone)) <=> IsQueued(d) /\ d # gone
           /\ d \in Holders(BeingHandledWithout(gone)) <=>
                  d \in Holders(directivesBeingHandled) /\ d # gone
           /\ d \in Range(CancelingQueueWithout(gone)) => d \in Range(cancelingQueue)
           /\ d # gone /\ d \in Range(cancelingQueue) => d \in Range(CancelingQueueWithout(gone))
  <1>1. TypeOK /\ d # None /\ gone # None
    BY ProcessorAssumption DEF CallInv, ServiceInv
  <1>2. d = PreHandledWithout(gone) <=> d = directiveBeingPreHandled /\ d # gone
    BY <1>1 DEF PreHandledWithout
  <1>3. d \in DirectivesOf(HandlingQueueWithout(gone)) <=> IsQueued(d) /\ d # gone
    BY DEF DirectivesOf, HandlingQueueWithout, IsQueued
  <1>4. d \in Holders(BeingHandledWithout(gone)) <=>
            d \in Holders(directivesBeingHandled) /\ d # gone
    BY <1>1, HoldersOfReleased DEF BeingHandledWithout, TypeOK
  <1>5. d \in Range(CancelingQueueWithout(gone)) => d \in Range(cancelingQueue)
    BY WithoutIsOneWay
  <1>6. d # gone /\ d \in Range(cancelingQueue) => d \in Range(CancelingQueueWithout(gone))
    BY <1>1, WithoutKeeps
  <1> QED
    BY <1>2, <1>3, <1>4, <1>5, <1>6

-----------------------------------------------------------------------------
(***************************************************************************)
(* HoldsAll is inductive: mediums are freed for a directive all at once.   *)
(***************************************************************************)
Holds(held, d) == {m \in Medium : held[m] = d}

LEMMA ReleaseIsWhole ==
    ASSUME NEW held, NEW gone, NEW d \in Directive, d \in Holders(Release(held, gone))
    PROVE  d \in Holders(held) /\ Holds(Release(held, gone), d) = Holds(held, d)
  <1>1. d # None
    BY ProcessorAssumption
  <1>2. d \in Holders(held) /\ d \notin gone
    BY <1>1 DEF Holders, Release
  <1>3. \A m \in Medium : Release(held, gone)[m] = d <=> held[m] = d
    BY <1>1, <1>2 DEF Release
  <1> QED
    BY <1>2, <1>3 DEF Holds

LEMMA ClearIsWhole ==
    ASSUME LifeInv, pc = "handling", NEW d \in Directive,
           d \in Holders(ClearBeingHandled(handling.policy))
    PROVE  /\ d \in Holders(directivesBeingHandled) /\ d # handling.directive
           /\ Holds(ClearBeingHandled(handling.policy), d) = Holds(directivesBeingHandled, d)
  <1>1. d # None
    BY ProcessorAssumption
  <1>2. PICK m \in Medium : ClearBeingHandled(handling.policy)[m] = d
    BY DEF Holders
  <1>3. m \notin handling.policy.mediums /\ directivesBeingHandled[m] = d
    BY <1>1, <1>2 DEF ClearBeingHandled
  <1>4. d \in Holders(directivesBeingHandled)
    BY <1>1, <1>3 DEF Holders
  <1>5. d # handling.directive
    <2>1. handling # NoItem
      BY DEF LifeInv, CallInv, ServiceInv, ThreadInv
    <2>2. PICK i \in DOMAIN arrived : handling = arrived[i]
      BY <2>1 DEF LifeInv, CallInv, ServiceInv, ItemInv, Range
    <2>3. d = handling.directive => QueuedPolicy(d) = handling.policy
      BY <2>2, PolicyOfItem DEF LifeInv, CallInv, ServiceInv, Policies, HasQueuedPolicy
    <2> QED
      BY <1>3, <1>4, <2>3 DEF LifeInv, HoldsAll
  <1>6. \A n \in Medium : ClearBeingHandled(handling.policy)[n] = d <=> directivesBeingHandled[n] = d
    BY <1>1, <1>5 DEF ClearBeingHandled, LifeInv, CallInv, ServiceInv, ThreadInv, MediumsOfHandled
  <1> QED
    BY <1>4, <1>5, <1>6 DEF Holds

\* A directive that a step leaves holding a medium held the same ones before,
\* or is the one that the step takes.
LEMMA HoldsStep ==
    ASSUME LifeInv, [Next]_vars, NEW d \in Directive, d \in Holders(directivesBeingHandled')
    PROVE  \/ /\ d \in Holders(directivesBeingHandled)
              /\ Holds(directivesBeingHandled', d) = Holds(directivesBeingHandled, d)
           \/ TakeDirective /\ handling' \in handlingQueue /\ d = handling'.directive
  <1> DEFINE Same == /\ d \in Holders(directivesBeingHandled)
                     /\ Holds(directivesBeingHandled', d) = Holds(directivesBeingHandled, d)
  <1> USE DEF state
  <1>1. TypeOK /\ d # None
    BY ProcessorAssumption DEF LifeInv, CallInv, ServiceInv
  <1>2. CASE UNCHANGED directivesBeingHandled
    BY <1>2
  <1>3. ASSUME NEW gone, directivesBeingHandled' = Release(directivesBeingHandled, gone)
        PROVE  Same
    BY <1>3, ReleaseIsWhole
  <1>4. CASE Disable \/ BeginShutdown
    BY <1>3, <1>4 DEF Disable, BeginShutdown, QueueAllForCancellation, QueueForCancellation
  <1>5. ASSUME NEW id, SetDialogRequestId(id) PROVE Same
    BY <1>3, <1>5 DEF SetDialogRequestId, ScrubQueues, QueueForCancellation
  <1>6. ASSUME NEW e \in Directive, SetCompleted(e) PROVE Same
    BY <1>3, <1>6 DEF SetCompleted, BeingHandledWithout
  <1>7. ASSUME NEW e \in Directive, SetFailed(e) PROVE Same
    <2>1. directivesBeingHandled' = Release(BeingHandledWithout(e), DirectivesOfDialog(DialogOf[e]))
      BY <1>7 DEF SetFailed, ScrubQueues, QueueForCancellation
    <2>2. /\ d \in Holders(BeingHandledWithout(e))
          /\ Holds(directivesBeingHandled', d) = Holds(BeingHandledWithout(e), d)
      BY <2>1, ReleaseIsWhole
    <2>3. /\ d \in Holders(directivesBeingHandled)
          /\ Holds(BeingHandledWithout(e), d) = Holds(directivesBeingHandled, d)
      BY <2>2, ReleaseIsWhole DEF BeingHandledWithout
    <2> QED
      BY <2>2, <2>3
  <1>8. CASE HandleRejected
    <2>1. directivesBeingHandled' = Release(ClearBeingHandled(handling.policy),
                                            DirectivesOfDialog(DialogOf[handling.directive]))
      BY <1>8 DEF HandleRejected, ScrubQueues, QueueForCancellation
    <2>2. /\ d \in Holders(ClearBeingHandled(handling.policy))
          /\ Holds(directivesBeingHandled', d) = Holds(ClearBeingHandled(handling.policy), d)
      BY <2>1, ReleaseIsWhole
    <2> QED
      BY <1>8, <2>2, ClearIsWhole DEF HandleRejected
  <1>9. CASE HandleSucceeded
    BY <1>2, <1>9, ClearIsWhole DEF HandleSucceeded
  <1>10. CASE TakeDirective
    <2>1. PICK item \in handlingQueue :
              /\ directivesBeingHandled' =
                     [m \in Medium |-> IF m \in item.policy.mediums THEN item.directive
                                       ELSE directivesBeingHandled[m]]
              /\ handling' = item
              /\ \A m \in item.policy.mediums : directivesBeingHandled[m] = None
      BY <1>1, <1>10, TakenItem
    <2>2. CASE d # item.directive
      <3>1. \A m \in Medium : directivesBeingHandled'[m] = d <=> directivesBeingHandled[m] = d
        BY <1>1, <2>1, <2>2
      <3> QED
        BY <1>1, <3>1 DEF Holds, Holders
    <2> QED
      BY <1>10, <2>1, <2>2
  <1>11. CASE ReceivingThread
    BY <1>2, <1>11 DEF ReceivingThread, RefuseDirective, DropDirective, AcceptDirective,
                       PreHandleDirective, AbandonDirective, EnqueueDirective
  <1>12. CASE SpuriousWakeup \/ ProcessingThread
    BY <1>2, <1>8, <1>9, <1>10, <1>12
    DEF SpuriousWakeup, ProcessingThread, EvaluateWake, TakeCancelingQueue, CancelDirective,
        AllCancelled, HandleDirective, EndPass
  <1>13. ASSUME NEW e \in Directive, Handler(e) PROVE Same
    BY <1>2, <1>6, <1>7, <1>13 DEF Handler, IgnoreReport
  <1>14. CASE Owner
    BY <1>2, <1>4, <1>5, <1>14 DEF Owner, Enable, Unregister, Join
  <1>15. CASE UNCHANGED vars
    BY <1>2, <1>15 DEF vars
  <1> QED
    BY <1>11, <1>12, <1>13, <1>14, <1>15 DEF Next

\* The policy that a directive was queued with stays.
LEMMA PolicyStays ==
    ASSUME CallInv, [Next]_vars, NEW d \in Directive, NEW i \in DOMAIN arrived,
           arrived[i].directive = d
    PROVE  QueuedPolicy(d) = arrived[i].policy /\ QueuedPolicy(d)' = QueuedPolicy(d)
  <1>1. Policies /\ Policies'
    BY PolicyOfItem, PolicyOfItemNext, ItemStep DEF CallInv, ServiceInv
  <1>2. i \in DOMAIN arrived' /\ arrived'[i] = arrived[i]
    BY ArrivedGrows DEF CallInv, ServiceInv
  <1> QED
    BY <1>1, <1>2 DEF Policies, HasQueuedPolicy

LEMMA HoldsAllStep ==
    ASSUME LifeInv, [Next]_vars
    PROVE  HoldsAll'
  <1>1. CallInv /\ CallInv' /\ HoldsAll
    BY CallStep DEF LifeInv
  <1> SUFFICES ASSUME NEW d \in Holders(directivesBeingHandled'), NEW m \in Medium
               PROVE  directivesBeingHandled'[m] = d <=> m \in QueuedPolicy(d)'.mediums
    BY DEF HoldsAll
  <1>2. d \in Directive /\ d # None
    <2>1. TypeOK'
      BY <1>1 DEF CallInv, ServiceInv
    <2> QED
      BY <2>1 DEF Holders, TypeOK
  <1>3. CASE /\ d \in Holders(directivesBeingHandled)
             /\ Holds(directivesBeingHandled', d) = Holds(directivesBeingHandled, d)
    <2>1. PICK i \in DOMAIN arrived : arrived[i].directive = d
      BY <1>1, <1>3, HoldersArrived
    <2>2. QueuedPolicy(d)' = QueuedPolicy(d)
      BY <1>1, <1>2, <2>1, PolicyStays
    <2>3. directivesBeingHandled'[m] = d <=> directivesBeingHandled[m] = d
      BY <1>3 DEF Holds
    <2> QED
      BY <1>1, <1>3, <2>2, <2>3 DEF HoldsAll
  <1>4. CASE TakeDirective /\ handling' \in handlingQueue /\ d = handling'.directive
    <2>1. PICK item \in handlingQueue :
              /\ directivesBeingHandled' =
                     [n \in Medium |-> IF n \in item.policy.mediums THEN item.directive
                                       ELSE directivesBeingHandled[n]]
              /\ handling' = item
      BY <1>1, <1>4, TakenItem DEF CallInv, ServiceInv
    <2>2. PICK i \in DOMAIN arrived : arrived[i] = item
      BY <1>1 DEF CallInv, ServiceInv, ItemInv, Range
    <2>3. QueuedPolicy(d)' = item.policy
      BY <1>1, <1>2, <1>4, <2>1, <2>2, PolicyStays
    <2>4. d \notin Holders(directivesBeingHandled)
      BY <1>1, <1>4, <2>1, OneWayLive DEF DirectivesOf
    <2>5. directivesBeingHandled[m] # d
      BY <1>2, <2>4 DEF Holders
    <2> QED
      BY <1>4, <2>1, <2>3, <2>5
  <1> QED
    BY <1>2, <1>3, <1>4, HoldsStep

LEMMA ResultStep ==
    ASSUME LifeInv, [Next]_vars, NEW d \in Directive \ offered'
    PROVE  result'[d] = "none"
  <1> USE DEF history
  <1>0. TypeOK /\ (d \notin offered => result[d] = "none")
    BY DEF LifeInv, CallInv, ServiceInv
  <1>1. /\ d \notin offered => result[d] = "none"
        /\ result \in [Directive -> {"none", "open", "completed", "failed"}]
        /\ TypeOK
    BY <1>0 DEF TypeOK
  <1>2. CASE UNCHANGED <<result, offered>>
    BY <1>1, <1>2
  <1>3. CASE PreHandleDirective
    <2>1. receiving.directive \in offered \cup {None}
      BY DEF LifeInv, CallInv, ServiceInv, ItemInv
    <2>2. receiving # Idle
      BY <1>3 DEF PreHandleDirective, Idle
    <2>3. receiving.directive \in Directive
      BY <1>1, <2>2 DEF TypeOK
    <2>4. receiving.directive \in offered /\ UNCHANGED offered
      BY <1>3, <2>1, <2>3, ProcessorAssumption DEF PreHandleDirective
    <2> QED
      BY <1>1, <1>3, <2>4 DEF PreHandleDirective
  <1>4. ASSUME NEW e \in Directive, Handler(e) PROVE result'[d] = "none"
    <2>1. /\ result[e] = "open" /\ UNCHANGED offered
          /\ \E outcome : result' = [result EXCEPT ![e] = outcome]
      BY <1>4 DEF Handler, SetCompleted, SetFailed, IgnoreReport, Report
    <2> QED
      BY <1>1, <2>1
  <1>5. CASE ReceivingThread /\ ~PreHandleDirective
    <2>1. UNCHANGED result /\ offered \subseteq offered'
      BY <1>5 DEF ReceivingThread, RefuseDirective, DropDirective, AcceptDirective,
                  AbandonDirective, EnqueueDirective, Offer
    <2> QED
      BY <1>1, <2>1
  <1>6. CASE SpuriousWakeup \/ ProcessingThread
    BY <1>2, <1>6 DEF SpuriousWakeup, ProcessingThread, EvaluateWake, TakeCancelingQueue,
                      CancelDirective, AllCancelled, TakeDirective, HandleDirective,
                      HandleSucceeded, HandleRejected, EndPass
  <1>7. CASE Owner
    BY <1>2, <1>7 DEF Owner, SetDialogRequestId, Disable, Enable, Unregister, BeginShutdown, Join
  <1>8. CASE UNCHANGED vars
    BY <1>2, <1>8 DEF vars
  <1> QED
    BY <1>3, <1>4, <1>5, <1>6, <1>7, <1>8 DEF Next

LEMMA LifeInit == Init => LifeInv
  <1> SUFFICES ASSUME Init PROVE LifeInv
    OBVIOUS
  <1>1. HoldsAll
    BY DEF Init, HoldsAll, Holders
  <1> QED
    BY <1>1, CallInit DEF Init, LifeInv

LEMMA LifeStep == LifeInv /\ [Next]_vars => LifeInv'
  <1> SUFFICES ASSUME LifeInv, [Next]_vars PROVE LifeInv'
    OBVIOUS
  <1> QED
    BY CallStep, HoldsAllStep, ResultStep DEF LifeInv

-----------------------------------------------------------------------------
(***************************************************************************)
(* What the steps do to the stages.                                        *)
(***************************************************************************)
StageKept(d) == StageOf(d)' = StageOf(d)

PlaceKept(d) ==
    /\ d \in offered' <=> d \in offered
    /\ d = directiveBeingPreHandled' <=> d = directiveBeingPreHandled
    /\ IsQueued(d)' <=> IsQueued(d)
    /\ d \in Holders(directivesBeingHandled') <=> d \in Holders(directivesBeingHandled)
    /\ InCancellation(d)' <=> InCancellation(d)

LEMMA KeptInPlace ==
    ASSUME Staged, Staged', NEW d \in Directive, PlaceKept(d)
    PROVE  StageKept(d)
  <1>1. HasStage(d) /\ HasStage(d)'
    BY DEF Staged
  <1> QED
    BY <1>1 DEF HasStage, Stages, PlaceKept, StageKept

LEMMA PoliciesKept ==
    ASSUME UNCHANGED arrived, NEW d \in Directive
    PROVE  QueuedPolicy(d)' = QueuedPolicy(d)
  BY DEF QueuedPolicy

\* The steps that the life cycle does not see.
LEMMA Stutter ==
    ASSUME \A d \in Directive : StageKept(d), UNCHANGED <<dialogRequestId, arrived>>
    PROVE  UNCHANGED Lifecycle!vars
  BY PoliciesKept DEF Lifecycle!vars, StageKept

LEMMA MoveOne ==
    ASSUME NEW d \in Directive, NEW to, StageOf(d)' = to,
           \A e \in Directive \ {d} : StageKept(e), UNCHANGED <<dialogRequestId, arrived>>
    PROVE  /\ Lifecycle!Move(d, StageOf(d), to)
           /\ [e \in Directive |-> StageOf(e)]' = [[e \in Directive |-> StageOf(e)] EXCEPT ![d] = to]
           /\ [e \in Directive |-> QueuedPolicy(e)]' = [e \in Directive |-> QueuedPolicy(e)]
  <1>1. [e \in Directive |-> StageOf(e)]' = [[e \in Directive |-> StageOf(e)] EXCEPT ![d] = to]
    BY DEF StageKept
  <1> QED
    BY <1>1, PoliciesKept DEF Lifecycle!Move

\* The processor is done with a directive, and with no other.
LEMMA Finished ==
    ASSUME NEW d \in Directive, StageOf(d) \in {"preHandling", "queued", "handling", "canceling"},
           StageOf(d)' = "gone", \A e \in Directive \ {d} : StageKept(e),
           UNCHANGED <<dialogRequestId, arrived>>
    PROVE  Lifecycle!Finish(d)
  BY MoveOne DEF Lifecycle!Finish, Lifecycle!Live

\* What was to be cancelled may also be seen as over.
LEMMA OverOrKept ==
    ASSUME NEW d \in Directive, StageOf(d) \in Stages \ {"new"},
           StageOf(d)' \in {"gone", StageOf(d)}, \A e \in Directive \ {d} : StageKept(e),
           UNCHANGED <<dialogRequestId, arrived>>
    PROVE  Lifecycle!Next \/ UNCHANGED Lifecycle!vars
  <1>1. CASE StageKept(d)
    BY <1>1, Stutter
  <1>2. CASE ~StageKept(d)
    <2>1. StageOf(d)' = "gone" /\ StageOf(d) # "gone"
      BY <1>2 DEF StageKept
    <2>2. Lifecycle!Finish(d)
      BY <2>1, Finished DEF Stages
    <2> QED
      BY <2>2 DEF Lifecycle!Next
  <1> QED
    BY <1>1, <1>2

IsLive(d) == StageOf(d) \in {"preHandling", "queued", "handling"}

\* A dialog is given up, and another one begins.
LEMMA DialogReplaced ==
    ASSUME NEW id \in DialogId \cup {NoDialog}, dialogRequestId' = id, UNCHANGED arrived,
           \A e \in Directive : StageOf(e)' =
               IF e \in DirectivesOfDialog(dialogRequestId) /\ IsLive(e) THEN "canceling"
               ELSE StageOf(e)
    PROVE  Lifecycle!NewDialog(id)
  <1>1. Lifecycle!Members(dialogRequestId) = DirectivesOfDialog(dialogRequestId)
    BY DEF Lifecycle!Members, DirectivesOfDialog
  <1> QED
    BY <1>1, PoliciesKept DEF Lifecycle!NewDialog, Lifecycle!GiveUp, Lifecycle!Live, IsLive

LEMMA AllStopped ==
    ASSUME dialogRequestId' = NoDialog, UNCHANGED arrived,
           \A e \in Directive : StageOf(e)' = IF IsLive(e) THEN "canceling" ELSE StageOf(e)
    PROVE  Lifecycle!Stop
  BY PoliciesKept DEF Lifecycle!Stop, Lifecycle!GiveUp, Lifecycle!Live, IsLive

\* A directive fails, and its dialog with it.
LEMMA DialogFailed ==
    ASSUME NEW d \in Directive, StageOf(d) # "new",
           StageOf(d)' \in {"gone", "canceling"},
           StageOf(d)' = "canceling" => StageOf(d) = "canceling",
           dialogRequestId' = ScrubbedId(DialogOf[d]), UNCHANGED arrived,
           \A e \in Directive \ {d} : StageOf(e)' =
               IF e \in DirectivesOfDialog(DialogOf[d]) /\ IsLive(e) THEN "canceling"
               ELSE StageOf(e)
    PROVE  Lifecycle!Fail(d)
  <1> DEFINE after == StageOf(d)'
             failed == [[e \in Directive |-> StageOf(e)] EXCEPT ![d] = after]
             given == Lifecycle!GiveUp(Lifecycle!Members(DialogOf[d]) \ {d}, failed)
  <1>1. Lifecycle!Members(DialogOf[d]) = DirectivesOfDialog(DialogOf[d])
    BY DEF Lifecycle!Members, DirectivesOfDialog
  <1>2. given = [e \in Directive |->
                   IF e \in DirectivesOfDialog(DialogOf[d]) \ {d} /\ IsLive(e) THEN "canceling"
                   ELSE failed[e]]
    BY <1>1 DEF Lifecycle!GiveUp, Lifecycle!Live, IsLive
  <1>3. [e \in Directive |-> StageOf(e)]' = given
    BY <1>2
  <1>4. dialogRequestId' = IF dialogRequestId = DialogOf[d] THEN NoDialog ELSE dialogRequestId
    BY DEF ScrubbedId
  <1>5. [e \in Directive |-> QueuedPolicy(e)]' = [e \in Directive |-> QueuedPolicy(e)]
    BY PoliciesKept
  <1> HIDE DEF given, failed
  <1>6. [e \in Directive |-> StageOf(e)][d] # "new"
    OBVIOUS
  <1>7. [e \in Directive |-> StageOf(e)][d] = StageOf(d)
    OBVIOUS
  <1> QED
    BY <1>3, <1>4, <1>5, <1>6, <1>7 DEF Lifecycle!Fail, given, failed

-----------------------------------------------------------------------------
(***************************************************************************)
(* Every step of the processor is one of the life cycle, or none.          *)
(***************************************************************************)
Implements == Lifecycle!Next \/ UNCHANGED Lifecycle!vars

\* The stages before and after a step, from which the rest is read off.
LEMMA StagesOfStep ==
    ASSUME LifeInv, [Next]_vars
    PROVE  /\ Staged /\ Staged'
           /\ \A d \in Directive : PlaceKept(d) => StageKept(d)
  <1>1. Staged /\ Staged'
    BY StageIsPlace, StageIsPlaceNext, CallStep DEF LifeInv
  <1> QED
    BY <1>1, KeptInPlace

LEMMA SilentStep ==
    ASSUME LifeInv, [Next]_vars,
           UNCHANGED <<dialogRequestId, directiveBeingPreHandled, handlingQueue,
                       directivesBeingHandled, offered, arrived>>,
           Range(cancelingQueue') \cup Range(canceling') = Range(cancelingQueue) \cup Range(canceling)
    PROVE  Implements
  <1>1. ASSUME NEW d \in Directive PROVE PlaceKept(d)
    BY DEF PlaceKept, IsQueued, Holders, InCancellation
  <1> QED
    BY <1>1, StagesOfStep, Stutter DEF Implements

\* onDirective()
LEMMA OfferStep ==
    ASSUME LifeInv, [Next]_vars, NEW d \in Directive,
           RefuseDirective(d) \/ DropDirective(d) \/ AcceptDirective(d)
    PROVE  Implements
  <1> USE DEF state, owner, thread
  <1>1. /\ d \notin offered /\ offered' = offered \cup {d} /\ receiving = Idle
        /\ UNCHANGED <<dialogRequestId, handlingQueue, directivesBeingHandled, cancelingQueue,
                       canceling, arrived>>
    BY DEF RefuseDirective, DropDirective, AcceptDirective, Offer
  <1>2. directiveBeingPreHandled = None /\ d # None
    BY <1>1, ProcessorAssumption DEF LifeInv, CallInv, PreHandledIsReceived, Idle
  <1>3. /\ HasStage(d) /\ HasStage(d)'
        /\ StageOf(d) = "new"
    BY <1>1, StagesOfStep DEF Staged, HasStage
  <1>4. CASE AcceptDirective(d)
    <2>1. directiveBeingPreHandled' = d /\ IsOfCurrentDialog(d)
      BY <1>4 DEF AcceptDirective
    <2>2. ASSUME NEW e \in Directive \ {d} PROVE StageKept(e)
      <3>1. PlaceKept(e)
        BY <1>1, <1>2, <2>1, ProcessorAssumption DEF PlaceKept, IsQueued, Holders, InCancellation
      <3> QED
        BY <3>1, StagesOfStep
    <2>3. StageOf(d)' = "preHandling"
      BY <1>3, <2>1 DEF HasStage
    <2>4. Lifecycle!Arrive(d)
      BY <1>1, <1>3, <2>1, <2>2, <2>3, MoveOne DEF Lifecycle!Arrive, IsOfCurrentDialog
    <2> QED
      BY <2>4 DEF Implements, Lifecycle!Next
  <1>5. CASE RefuseDirective(d) \/ DropDirective(d)
    <2>1. UNCHANGED directiveBeingPreHandled
      BY <1>5 DEF RefuseDirective, DropDirective
    <2>2. ASSUME NEW e \in Directive \ {d} PROVE StageKept(e)
      <3>1. PlaceKept(e)
        BY <1>1, <2>1 DEF PlaceKept, IsQueued, Holders, InCancellation
      <3> QED
        BY <3>1, StagesOfStep
    <2>3. /\ d # directiveBeingPreHandled /\ ~IsQueued(d)
          /\ d \notin Holders(directivesBeingHandled) /\ ~InCancellation(d)
      BY <1>3 DEF HasStage
    <2>4. StageOf(d)' = "gone"
      BY <1>1, <1>3, <2>1, <2>3 DEF HasStage, Stages, IsQueued, Holders, InCancellation
    <2>5. Lifecycle!Discard(d)
      BY <1>1, <1>3, <2>2, <2>4, MoveOne DEF Lifecycle!Discard
    <2> QED
      BY <2>5 DEF Implements, Lifecycle!Next
  <1> QED
    BY <1>4, <1>5

LEMMA StageOfNone ==
    ASSUME LifeInv, [Next]_vars, NEW d \in Directive, d \in offered',
           d # directiveBeingPreHandled', ~IsQueued(d)',
           d \notin Holders(directivesBeingHandled'), ~InCancellation(d)'
    PROVE  StageOf(d)' = "gone"
  <1>1. HasStage(d)'
    BY StagesOfStep DEF Staged
  <1> QED
    BY <1>1 DEF HasStage, Stages

LEMMA AbandonStep ==
    ASSUME LifeInv, [Next]_vars, AbandonDirective
    PROVE  Implements
  <1> USE DEF history
  <1>1. /\ directiveBeingPreHandled' = None
        /\ UNCHANGED <<dialogRequestId, handlingQueue, directivesBeingHandled, cancelingQueue,
                       canceling, offered, arrived>>
    BY DEF AbandonDirective, thread
  <1>2. CASE directiveBeingPreHandled = None
    BY <1>1, <1>2, SilentStep
  <1>3. CASE directiveBeingPreHandled # None
    <2>1. PICK d \in Directive : d = directiveBeingPreHandled /\ d # None
      BY <1>3, ProcessorAssumption DEF LifeInv, CallInv, ServiceInv, TypeOK
    <2>2. ASSUME NEW e \in Directive \ {d} PROVE StageKept(e)
      <3>1. PlaceKept(e)
        BY <1>1, <2>1, ProcessorAssumption DEF PlaceKept, IsQueued, Holders, InCancellation
      <3> QED
        BY <3>1, StagesOfStep
    <2>3. HasStage(d)
      BY StagesOfStep DEF Staged
    <2>4. /\ StageOf(d) = "preHandling" /\ d \in offered
          /\ ~IsQueued(d) /\ d \notin Holders(directivesBeingHandled) /\ ~InCancellation(d)
      BY <2>1, <2>3 DEF HasStage
    <2>5. StageOf(d)' = "gone"
      <3>1. /\ ~IsQueued(d)' /\ d \notin Holders(directivesBeingHandled')
            /\ ~InCancellation(d)' /\ d \in offered' /\ d # directiveBeingPreHandled'
        BY <1>1, <2>1, <2>4 DEF IsQueued, Holders, InCancellation
      <3> QED
        BY <3>1, StageOfNone
    <2>6. Lifecycle!Finish(d)
      BY <1>1, <2>2, <2>4, <2>5, Finished
    <2> QED
      BY <2>6 DEF Implements, Lifecycle!Next
  <1> QED
    BY <1>2, <1>3

LEMMA EnqueueStep ==
    ASSUME LifeInv, [Next]_vars, EnqueueDirective
    PROVE  Implements
  <1>1. /\ TypeOK /\ ItemInv /\ ItemInv' /\ CallInv
        /\ None \notin Directive
    BY ItemStep, ProcessorAssumption DEF LifeInv, CallInv, ServiceInv
  <1>2. PICK d \in Directive : d = directiveBeingPreHandled /\ d = receiving.directive
    BY <1>1 DEF EnqueueDirective, WasRemoved, CallInv, PreHandledIsReceived, TypeOK
  <1>3. PICK item \in Item : /\ item.directive = d
                             /\ handlingQueue' = handlingQueue \cup {item}
                             /\ item \in Range(arrived')
                             /\ Range(arrived') = Range(arrived) \cup {item}
    BY <1>1, <1>2, NewItem
  <1>4. /\ directiveBeingPreHandled' = None
        /\ UNCHANGED <<dialogRequestId, directivesBeingHandled, cancelingQueue, canceling, offered>>
    BY DEF EnqueueDirective
  <1>5. ASSUME NEW e \in Directive \ {d} PROVE StageKept(e)
    <2>1. PlaceKept(e)
      BY <1>1, <1>2, <1>3, <1>4 DEF PlaceKept, IsQueued, Holders, InCancellation
    <2> QED
      BY <2>1, StagesOfStep
  <1>6. StageOf(d) = "preHandling" /\ StageOf(d)' = "queued"
    <2>1. HasStage(d) /\ HasStage(d)'
      BY StagesOfStep DEF Staged
    <2>2. IsQueued(d)'
      BY <1>3 DEF IsQueued
    <2> QED
      BY <1>2, <2>1, <2>2 DEF HasStage
  <1>7. QueuedPolicy(d)' = item.policy
    <2>1. HasQueuedPolicy(d)'
      BY <1>1, PolicyOfItemNext DEF Policies
    <2>2. PICK i \in DOMAIN arrived' : arrived'[i] = item
      BY <1>3 DEF Range
    <2> QED
      BY <1>3, <2>1, <2>2 DEF HasQueuedPolicy
  <1>8. ASSUME NEW e \in Directive \ {d} PROVE QueuedPolicy(e)' = QueuedPolicy(e)
    <2>1. HasQueuedPolicy(e) /\ HasQueuedPolicy(e)'
      BY <1>1, PolicyOfItem, PolicyOfItemNext DEF Policies
    <2>2. CASE \E i \in DOMAIN arrived : arrived[i].directive = e
      BY <1>1, <2>2, PolicyStays
    <2>3. CASE ~ \E i \in DOMAIN arrived : arrived[i].directive = e
      <3>1. e \notin DirectivesOf(Range(arrived))
        BY <2>3 DEF DirectivesOf, Range
      <3>2. e \notin DirectivesOf(Range(arrived'))
        BY <1>3, <3>1 DEF DirectivesOf
      <3> QED
        BY <2>1, <3>1, <3>2 DEF HasQueuedPolicy
    <2> QED
      BY <2>2, <2>3
  <1>9. /\ [e \in Directive |-> StageOf(e)]' = [[e \in Directive |-> StageOf(e)] EXCEPT ![d] = "queued"]
        /\ [e \in Directive |-> StageOf(e)][d] = "preHandling"
    BY <1>5, <1>6 DEF StageKept
  <1>10. [e \in Directive |-> QueuedPolicy(e)]' =
             [[e \in Directive |-> QueuedPolicy(e)] EXCEPT ![d] = item.policy]
    BY <1>7, <1>8
  <1>11. item.policy \in Policy
    BY DEF Item
  <1>12. Lifecycle!Queue(d)
    BY <1>4, <1>9, <1>10, <1>11 DEF Lifecycle!Queue, Lifecycle!Move
  <1> QED
    BY <1>12 DEF Implements, Lifecycle!Next

\* What the live directives of a set become, when the set is given up.
LEMMA StageWhenGivenUp ==
    ASSUME LifeInv, [Next]_vars, NEW doomed, NEW d \in Directive, d \in offered' <=> d \in offered,
           d = directiveBeingPreHandled' <=> d = directiveBeingPreHandled /\ d \notin doomed,
           IsQueued(d)' <=> IsQueued(d) /\ d \notin doomed,
           d \in Holders(directivesBeingHandled') <=>
               d \in Holders(directivesBeingHandled) /\ d \notin doomed,
           InCancellation(d)' <=> InCancellation(d) \/ (d \in doomed /\ Live(d))
    PROVE  StageOf(d)' = IF d \in doomed /\ IsLive(d) THEN "canceling" ELSE StageOf(d)
  <1>1. HasStage(d) /\ HasStage(d)'
    BY StagesOfStep DEF Staged
  <1>2. Live(d) <=> IsLive(d)
    BY <1>1 DEF HasStage, IsLive, Live, LiveIn, IsQueued
  <1>3. CASE d \in doomed /\ IsLive(d)
    BY <1>1, <1>2, <1>3 DEF HasStage, Stages
  <1>4. CASE ~(d \in doomed /\ IsLive(d))
    <2>1. PlaceKept(d)
      BY <1>1, <1>2, <1>4 DEF PlaceKept, HasStage, IsLive
    <2> QED
      BY <1>4, <2>1, StagesOfStep DEF StageKept
  <1> QED
    BY <1>3, <1>4

LEMMA OwnerStep ==
    ASSUME LifeInv, [Next]_vars, Owner
    PROVE  Implements
  <1>1. TypeOK
    BY DEF LifeInv, CallInv, ServiceInv
  <1>2. ASSUME NEW id \in DialogId \cup {NoDialog}, SetDialogRequestId(id) PROVE Implements
    <2>1. /\ ScrubQueues(dialogRequestId, cancelingQueue, directiveBeingPreHandled,
                         handlingQueue, directivesBeingHandled)
          /\ dialogRequestId' = id /\ UNCHANGED <<canceling, offered, arrived>>
      BY <1>2 DEF SetDialogRequestId, history
    <2>2. ASSUME NEW e \in Directive
          PROVE  StageOf(e)' = IF e \in DirectivesOfDialog(dialogRequestId) /\ IsLive(e)
                               THEN "canceling" ELSE StageOf(e)
      <3>1. /\ cancelingQueue \in Seq(Directive) /\ directiveBeingPreHandled \in Directive \cup {None}
            /\ handlingQueue \in SUBSET Item /\ IsFiniteSet(handlingQueue)
            /\ directivesBeingHandled \in [Medium -> Directive \cup {None}]
        BY <1>1 DEF TypeOK
      <3> DEFINE doomed == DirectivesOfDialog(dialogRequestId)
      <3>2. /\ e = directiveBeingPreHandled' <=> e = directiveBeingPreHandled /\ e \notin doomed
            /\ IsQueued(e)' <=> e \in DirectivesOf(handlingQueue) /\ e \notin doomed
            /\ e \in Holders(directivesBeingHandled') <=>
                   e \in Holders(directivesBeingHandled) /\ e \notin doomed
            /\ e \in Range(cancelingQueue') <=>
                   e \in Range(cancelingQueue) \/ (e \in doomed /\ Live(e))
        BY <2>1, <3>1, ScrubMoves DEF Live
      <3> HIDE DEF doomed
      <3>4. IsQueued(e) <=> e \in DirectivesOf(handlingQueue)
        BY DEF IsQueued, DirectivesOf
      <3>5. InCancellation(e)' <=> InCancellation(e) \/ (e \in doomed /\ Live(e))
        BY <2>1, <3>2 DEF InCancellation
      <3>6. StageOf(e)' = IF e \in doomed /\ IsLive(e) THEN "canceling" ELSE StageOf(e)
        BY <2>1, <3>2, <3>4, <3>5, StageWhenGivenUp
      <3> QED
        BY <3>6 DEF doomed
    <2>3. Lifecycle!NewDialog(id)
      BY <2>1, <2>2, DialogReplaced
    <2> QED
      BY <2>3 DEF Implements, Lifecycle!Next
  <1>3. CASE Disable \/ BeginShutdown
    <2>1. /\ QueueAllForCancellation /\ dialogRequestId' = NoDialog
          /\ UNCHANGED <<canceling, offered, arrived>>
      BY <1>3 DEF Disable, BeginShutdown, QueueAllForCancellation, history
    <2>2. ASSUME NEW e \in Directive
          PROVE  StageOf(e)' = IF IsLive(e) THEN "canceling" ELSE StageOf(e)
      <3>1. /\ e # directiveBeingPreHandled' /\ ~IsQueued(e)'
            /\ e \notin Holders(directivesBeingHandled')
            /\ e \in Range(cancelingQueue') <=> e \in Range(cancelingQueue) \/ Live(e)
        BY <1>1, <2>1, CancelAllMoves
      <3>2. InCancellation(e)' <=> InCancellation(e) \/ (e \in Directive /\ Live(e))
        BY <2>1, <3>1 DEF InCancellation
      <3>3. StageOf(e)' = IF e \in Directive /\ IsLive(e) THEN "canceling" ELSE StageOf(e)
        BY <2>1, <3>1, <3>2, StageWhenGivenUp
      <3> QED
        BY <3>3
    <2>3. Lifecycle!Stop
      BY <2>1, <2>2, AllStopped
    <2> QED
      BY <2>3 DEF Implements, Lifecycle!Next
  <1>4. CASE Enable \/ Unregister \/ Join
    <2>1. UNCHANGED <<state, thread, history>>
      BY <1>4 DEF Enable, Unregister, Join
    <2> QED
      BY <2>1, SilentStep DEF state, thread, history
  <1> QED
    BY <1>2, <1>3, <1>4 DEF Owner

-----------------------------------------------------------------------------
\* A directive fails by what a handler reports, or answers.
LEMMA FailStep ==
    ASSUME LifeInv, [Next]_vars, NEW d \in Directive, d \in offered,
           NEW cq \in Seq(Directive), NEW pre \in Directive \cup {None},
           NEW hq \in SUBSET Item, IsFiniteSet(hq),
           NEW held \in [Medium -> Directive \cup {None}],
           ScrubQueues(DialogOf[d], cq, pre, hq, held),
           dialogRequestId' = ScrubbedId(DialogOf[d]),
           UNCHANGED <<canceling, offered, arrived>>,
           ~LiveIn(d, pre, hq, held), d \in Range(cq) => d \in Range(cancelingQueue),
           \A e \in Directive \ {d} :
               /\ e = pre <=> e = directiveBeingPreHandled
               /\ e \in DirectivesOf(hq) <=> IsQueued(e)
               /\ e \in Holders(held) <=> e \in Holders(directivesBeingHandled)
               /\ e \in Range(cq) <=> e \in Range(cancelingQueue)
    PROVE  Implements
  <1> DEFINE doomed == DirectivesOfDialog(DialogOf[d])
  <1>0. \A e \in Directive :
            /\ e = directiveBeingPreHandled' <=> e = pre /\ e \notin doomed
            /\ IsQueued(e)' <=> e \in DirectivesOf(hq) /\ e \notin doomed
            /\ e \in Holders(directivesBeingHandled') <=> e \in Holders(held) /\ e \notin doomed
            /\ e \in Range(cancelingQueue') <=>
                   e \in Range(cq) \/ (e \in doomed /\ LiveIn(e, pre, hq, held))
    <2> PICK id : id = DialogOf[d]
      OBVIOUS
    <2>1. ScrubQueues(id, cq, pre, hq, held)
      OBVIOUS
    <2> QED
      BY <2>1, ScrubMoves
  <1> HIDE DEF doomed
  <1>1. ASSUME NEW e \in Directive
        PROVE  LiveIn(e, pre, hq, held) <=> e = pre \/ e \in DirectivesOf(hq) \/ e \in Holders(held)
    BY DEF LiveIn, DirectivesOf
  <1>2. ASSUME NEW e \in Directive \ {d}
        PROVE  StageOf(e)' = IF e \in doomed /\ IsLive(e) THEN "canceling" ELSE StageOf(e)
    <2>1. /\ e = pre <=> e = directiveBeingPreHandled
          /\ e \in DirectivesOf(hq) <=> IsQueued(e)
          /\ e \in Holders(held) <=> e \in Holders(directivesBeingHandled)
          /\ e \in Range(cq) <=> e \in Range(cancelingQueue)
      OBVIOUS
    <2>2. Live(e) <=> \/ e = directiveBeingPreHandled \/ IsQueued(e)
                      \/ e \in Holders(directivesBeingHandled)
      BY DEF Live, LiveIn, IsQueued
    <2>3. InCancellation(e)' <=> InCancellation(e) \/ (e \in doomed /\ Live(e))
      BY <1>0, <1>1, <2>1, <2>2 DEF InCancellation
    <2> QED
      BY <1>0, <2>1, <2>3, StageWhenGivenUp
  <1>3. /\ d # directiveBeingPreHandled' /\ ~IsQueued(d)'
        /\ d \notin Holders(directivesBeingHandled')
        /\ InCancellation(d)' => InCancellation(d)
    BY <1>0, <1>1 DEF InCancellation
  <1>4. /\ StageOf(d)' \in {"gone", "canceling"} /\ StageOf(d) # "new"
        /\ StageOf(d)' = "canceling" => StageOf(d) = "canceling"
    <2>1. HasStage(d) /\ HasStage(d)'
      BY StagesOfStep DEF Staged
    <2> QED
      BY <1>3, <2>1 DEF HasStage, Stages
  <1>5. Lifecycle!Fail(d)
    BY <1>2, <1>4, DialogFailed DEF doomed
  <1> QED
    BY <1>5 DEF Implements, Lifecycle!Next

\* The processor is done with a directive that was in one of its places.
LEMMA DoneStep ==
    ASSUME LifeInv, [Next]_vars, NEW d \in Directive, d \in offered,
           UNCHANGED <<dialogRequestId, offered, arrived>>,
           d = directiveBeingPreHandled' => d = directiveBeingPreHandled,
           IsQueued(d)' => IsQueued(d),
           d \in Holders(directivesBeingHandled') => d \in Holders(directivesBeingHandled),
           InCancellation(d)' => InCancellation(d),
           \A e \in Directive \ {d} : PlaceKept(e)
    PROVE  Implements
  <1>1. \A e \in Directive \ {d} : StageKept(e)
    BY StagesOfStep
  <1>2. StageOf(d)' \in {"gone", StageOf(d)} /\ StageOf(d) \in Stages \ {"new"}
    <2>1. HasStage(d) /\ HasStage(d)'
      BY StagesOfStep DEF Staged
    <2> QED
      BY <2>1 DEF HasStage, Stages
  <1> QED
    BY <1>1, <1>2, OverOrKept DEF Implements

LEMMA ReportStep ==
    ASSUME LifeInv, [Next]_vars, NEW d \in Directive, Handler(d)
    PROVE  Implements
  <1> USE DEF history
  <1>1. TypeOK /\ CallInv /\ d # None
    BY ProcessorAssumption DEF LifeInv, CallInv, ServiceInv
  <1>2. d \in offered
    BY DEF Handler, SetCompleted, SetFailed, IgnoreReport, Report, LifeInv
  <1>3. \A e \in Directive :
            /\ e = PreHandledWithout(d) <=> e = directiveBeingPreHandled /\ e # d
            /\ e \in DirectivesOf(HandlingQueueWithout(d)) <=> IsQueued(e) /\ e # d
            /\ e \in Holders(BeingHandledWithout(d)) <=> e \in Holders(directivesBeingHandled) /\ e # d
            /\ e \in Range(CancelingQueueWithout(d)) => e \in Range(cancelingQueue)
            /\ e # d /\ e \in Range(cancelingQueue) => e \in Range(CancelingQueueWithout(d))
    BY <1>1, WithoutMoves
  <1>4. CASE SetCompleted(d)
    <2>1. /\ cancelingQueue' = CancelingQueueWithout(d)
          /\ directiveBeingPreHandled' = PreHandledWithout(d)
          /\ handlingQueue' = HandlingQueueWithout(d)
          /\ directivesBeingHandled' = BeingHandledWithout(d)
          /\ UNCHANGED <<dialogRequestId, canceling, offered, arrived>>
      BY <1>4 DEF SetCompleted
    <2>2. ASSUME NEW e \in Directive
          PROVE  /\ e = directiveBeingPreHandled' <=> e = directiveBeingPreHandled /\ e # d
                 /\ IsQueued(e)' <=> IsQueued(e) /\ e # d
                 /\ e \in Holders(directivesBeingHandled') <=>
                        e \in Holders(directivesBeingHandled) /\ e # d
                 /\ InCancellation(e)' => InCancellation(e)
                 /\ e # d => (InCancellation(e) => InCancellation(e)')
      BY <1>3, <2>1 DEF IsQueued, DirectivesOf, InCancellation
    <2>3. \A e \in Directive \ {d} : PlaceKept(e)
      BY <2>1, <2>2 DEF PlaceKept
    <2> QED
      BY <1>2, <2>1, <2>2, <2>3, DoneStep
  <1>5. CASE SetFailed(d)
    <2>1. /\ CancelingQueueWithout(d) \in Seq(Directive)
          /\ PreHandledWithout(d) \in Directive \cup {None}
          /\ HandlingQueueWithout(d) \in SUBSET Item /\ IsFiniteSet(HandlingQueueWithout(d))
          /\ BeingHandledWithout(d) \in [Medium -> Directive \cup {None}]
      BY <1>1, WithoutType
    <2>2. /\ ScrubQueues(DialogOf[d], CancelingQueueWithout(d), PreHandledWithout(d),
                         HandlingQueueWithout(d), BeingHandledWithout(d))
          /\ dialogRequestId' = ScrubbedId(DialogOf[d])
          /\ UNCHANGED <<canceling, offered, arrived>>
      BY <1>5 DEF SetFailed
    <2>3. ~LiveIn(d, PreHandledWithout(d), HandlingQueueWithout(d), BeingHandledWithout(d))
      BY <1>3 DEF LiveIn, DirectivesOf
    <2>4. \A e \in Directive \ {d} :
              /\ e = PreHandledWithout(d) <=> e = directiveBeingPreHandled
              /\ e \in DirectivesOf(HandlingQueueWithout(d)) <=> IsQueued(e)
              /\ e \in Holders(BeingHandledWithout(d)) <=> e \in Holders(directivesBeingHandled)
              /\ e \in Range(CancelingQueueWithout(d)) <=> e \in Range(cancelingQueue)
      BY <1>3
    <2>5. d \in Range(CancelingQueueWithout(d)) => d \in Range(cancelingQueue)
      BY <1>3
    <2> QED
      BY <1>2, <2>1, <2>2, <2>3, <2>4, <2>5, FailStep
  <1>6. CASE IgnoreReport(d)
    <2>1. UNCHANGED <<state, thread, history>>
      BY <1>6 DEF IgnoreReport
    <2> QED
      BY <2>1, SilentStep DEF state, thread
  <1> QED
    BY <1>4, <1>5, <1>6 DEF Handler

LEMMA RangeOfTail ==
    ASSUME NEW q \in Seq(Directive), q # <<>>, NEW d \in Range(q)
    PROVE  d = Head(q) \/ d \in Range(Tail(q))
  <1> DEFINE t == Tail(q)
  <1>1. /\ Len(q) \in Nat /\ DOMAIN q = 1..Len(q) /\ Head(q) = q[1]
        /\ t \in Seq(Directive) /\ Len(t) = Len(q) - 1
        /\ \A i \in 1..Len(t) : t[i] = q[i + 1]
    <2>1. Len(q) \in Nat /\ DOMAIN q = 1..Len(q) /\ Len(q) # 0
      BY LenProperties, EmptySeq
    <2> QED
      BY <2>1, HeadTailProperties
  <1> HIDE DEF t
  <1>2. DOMAIN t = 1..(Len(q) - 1)
    BY <1>1, LenProperties
  <1>3. PICK i \in 1..Len(q) : d = q[i]
    BY <1>1 DEF Range
  <1>4. CASE i # 1
    <2>1. i - 1 \in 1..(Len(q) - 1) /\ (i - 1) + 1 = i
      BY <1>1, <1>3, <1>4
    <2>2. t[i - 1] = d
      BY <1>1, <1>3, <2>1
    <2> QED
      BY <1>2, <2>1, <2>2 DEF Range, t
  <1> QED
    BY <1>1, <1>3, <1>4

LEMMA CancelDirectiveStep ==
    ASSUME LifeInv, [Next]_vars, CancelDirective
    PROVE  Implements
  <1>1. /\ canceling \in Seq(Directive) /\ canceling # <<>> /\ IsInjective(canceling)
        /\ canceling' = Tail(canceling) /\ UNCHANGED <<state, offered, arrived>>
    BY DEF CancelDirective, LifeInv, CallInv, ServiceInv, TypeOK, CancelledCalls
  <1>2. /\ Head(canceling) \in Range(canceling) /\ Range(canceling') \subseteq Range(canceling)
        /\ \A e : e \in Range(canceling) => e = Head(canceling) \/ e \in Range(canceling')
    BY <1>1, RangeOfTail, TailIsInjective
  <1>3. PICK d \in Directive : d = Head(canceling)
    BY <1>1, HeadTailProperties
  <1>4. ASSUME NEW e \in Directive
        PROVE  /\ InCancellation(e)' => InCancellation(e)
               /\ e # d => PlaceKept(e)
    BY <1>1, <1>2, <1>3 DEF state, PlaceKept, IsQueued, Holders, InCancellation
  <1>5. d \in offered
    BY <1>2, <1>3 DEF LifeInv, CallInv, ReceivedCalls, InCancellation
  <1>6. /\ d = directiveBeingPreHandled' => d = directiveBeingPreHandled
        /\ IsQueued(d)' => IsQueued(d)
        /\ d \in Holders(directivesBeingHandled') => d \in Holders(directivesBeingHandled)
    BY <1>1 DEF state, IsQueued, Holders
  <1> QED
    BY <1>1, <1>4, <1>5, <1>6, DoneStep DEF state

LEMMA TakeStep ==
    ASSUME LifeInv, [Next]_vars, TakeDirective
    PROVE  Implements
  <1>1. TypeOK /\ ItemInv /\ HoldsAll /\ Policies
    BY PolicyOfItem DEF LifeInv, CallInv, ServiceInv
  <1>2. PICK item \in handlingQueue :
            /\ item \in Item
            /\ directivesBeingHandled' =
                   [m \in Medium |-> IF m \in item.policy.mediums THEN item.directive
                                     ELSE directivesBeingHandled[m]]
            /\ handlingQueue' = handlingQueue \ {item}
            /\ \A m \in item.policy.mediums : directivesBeingHandled[m] = None
    BY <1>1, TakenItem
  <1>3. PICK d \in Directive : d = item.directive /\ d # None
    BY <1>2, ProcessorAssumption DEF Item
  <1>4. item.policy.mediums \subseteq Medium
    BY <1>2 DEF Item, Policy
  <1>5. UNCHANGED <<dialogRequestId, directiveBeingPreHandled, cancelingQueue, canceling,
                    offered, arrived>>
    BY DEF TakeDirective, history
  <1>6. \A other \in handlingQueue : other.directive = d => other = item
    BY <1>1, <1>3 DEF ItemInv, Range
  <1>7. QueuedPolicy(d) = item.policy
    <2>1. PICK i \in DOMAIN arrived : arrived[i] = item
      BY <1>1 DEF ItemInv, Range
    <2> QED
      BY <1>1, <1>3, <2>1 DEF Policies, HasQueuedPolicy
  <1>8. HasStage(d) /\ HasStage(d)' /\ StageOf(d) = "queued"
    <2>1. IsQueued(d) /\ HasStage(d) /\ HasStage(d)'
      BY <1>3, StagesOfStep DEF IsQueued, Staged
    <2> QED
      BY <2>1 DEF HasStage
  <1>9. ASSUME NEW e \in Directive \ {d} PROVE StageKept(e)
    <2>1. IsQueued(e)' <=> IsQueued(e)
      BY <1>2, <1>3 DEF IsQueued
    <2>2. e # None
      BY ProcessorAssumption
    <2>3. \A m \in Medium : directivesBeingHandled'[m] = e <=> directivesBeingHandled[m] = e
      BY <1>2, <1>3, <2>2
    <2>4. e \in Holders(directivesBeingHandled') <=> e \in Holders(directivesBeingHandled)
      BY <2>2, <2>3 DEF Holders
    <2>5. PlaceKept(e)
      BY <1>5, <2>1, <2>4 DEF PlaceKept, InCancellation
    <2> QED
      BY <2>5, StagesOfStep
  <1>10. StageOf(d)' = IF QueuedPolicy(d).mediums = {} THEN "gone" ELSE "handling"
    <2>1. ~IsQueued(d)'
      BY <1>2, <1>6 DEF IsQueued
    <2>2. /\ d # directiveBeingPreHandled /\ d \in offered /\ ~InCancellation(d)
          /\ d \notin Holders(directivesBeingHandled)
      BY <1>8 DEF HasStage
    <2>3. d # directiveBeingPreHandled' /\ d \in offered' /\ ~InCancellation(d)'
      BY <1>5, <2>2 DEF InCancellation
    <2>4. CASE item.policy.mediums = {}
      <3>1. d \notin Holders(directivesBeingHandled')
        BY <1>2, <2>2, <2>4 DEF Holders
      <3> QED
        BY <1>7, <2>1, <2>3, <2>4, <3>1, StageOfNone
    <2>5. CASE item.policy.mediums # {}
      <3>1. d \in Holders(directivesBeingHandled')
        BY <1>2, <1>3, <1>4, <2>5 DEF Holders
      <3> QED
        BY <1>7, <1>8, <2>5, <3>1 DEF HasStage
    <2> QED
      BY <2>4, <2>5
  <1>11. ASSUME NEW e \in Directive, StageOf(e) = "handling"
         PROVE  QueuedPolicy(e).mediums \cap QueuedPolicy(d).mediums = {}
    <2>1. e \in Holders(directivesBeingHandled) /\ e # None
      BY <1>11, StagesOfStep, ProcessorAssumption DEF Staged, HasStage
    <2>2. ASSUME NEW m \in QueuedPolicy(e).mediums, m \in item.policy.mediums PROVE FALSE
      BY <1>1, <1>2, <1>4, <2>1, <2>2 DEF HoldsAll
    <2> QED
      BY <1>7, <2>2
  <1>12. Lifecycle!Start(d)
    <2>1. Lifecycle!Move(d, "queued", IF QueuedPolicy(d).mediums = {} THEN "gone" ELSE "handling")
      BY <1>5, <1>8, <1>9, <1>10, MoveOne
    <2>2. [e \in Directive |-> QueuedPolicy(e)]' = [e \in Directive |-> QueuedPolicy(e)]
      BY <1>5, PoliciesKept
    <2> QED
      BY <1>5, <1>11, <2>1, <2>2 DEF Lifecycle!Start
  <1> QED
    BY <1>12 DEF Implements, Lifecycle!Next

\* The directive in hand is not pre-handled or queued, nor any other one that
\* holds a medium of its policy.
LEMMA InHand ==
    ASSUME LifeInv, pc = "handling"
    PROVE  /\ handling.directive \in Directive /\ handling.directive \in offered
           /\ handling.directive # directiveBeingPreHandled
           /\ handling.directive \notin DirectivesOf(handlingQueue)
           /\ ClearBeingHandled(handling.policy) \in [Medium -> Directive \cup {None}]
           /\ \A e \in Directive :
                  e \in Holders(ClearBeingHandled(handling.policy)) <=>
                      e \in Holders(directivesBeingHandled) /\ e # handling.directive
  <1>1. TypeOK /\ CallInv /\ None \notin Directive
    BY ProcessorAssumption DEF LifeInv, CallInv, ServiceInv
  <1>2. PICK i \in DOMAIN arrived : handling = arrived[i]
    BY DEF LifeInv, CallInv, ServiceInv, ThreadInv, ItemInv, Range
  <1>3. handling.directive \in Directive /\ handling.directive \in offered
    BY <1>1, <1>2, ItemsAreItems DEF CallInv, ServiceInv, ItemInv
  <1>4. handling.directive # directiveBeingPreHandled
    BY <1>1, <1>2, <1>3 DEF CallInv, ServiceInv, ItemInv, PreHandledIsReceived
  <1>5. handling.directive \notin DirectivesOf(handlingQueue)
    BY <1>1 DEF CallInv, QueuedCalls, DirectivesOf
  <1>6. ClearBeingHandled(handling.policy) \in [Medium -> Directive \cup {None}]
    BY <1>1 DEF ClearBeingHandled, TypeOK
  <1>7. ASSUME NEW e \in Directive, e \in Holders(directivesBeingHandled), e # handling.directive
        PROVE  e \in Holders(ClearBeingHandled(handling.policy))
    <2>1. PICK m \in Medium : directivesBeingHandled[m] = e
      BY <1>7 DEF Holders
    <2>2. m \notin handling.policy.mediums
      BY <1>1, <1>7, <2>1 DEF CallInv, ServiceInv, ThreadInv, MediumsOfHandled
    <2>3. ClearBeingHandled(handling.policy)[m] = e
      BY <2>1, <2>2 DEF ClearBeingHandled
    <2> QED
      BY <1>1, <2>3 DEF Holders
  <1> QED
    BY <1>3, <1>4, <1>5, <1>6, <1>7, ClearIsWhole

LEMMA SucceededStep ==
    ASSUME LifeInv, [Next]_vars, HandleSucceeded
    PROVE  Implements
  <1>1. /\ pc = "handling"
        /\ UNCHANGED <<dialogRequestId, directiveBeingPreHandled, handlingQueue, cancelingQueue,
                       canceling, offered, arrived>>
    BY DEF HandleSucceeded, history
  <1>2. PICK d \in Directive : d = handling.directive
    BY <1>1, InHand
  <1>3. CASE handling.policy.isBlocking
    <2>1. UNCHANGED directivesBeingHandled
      BY <1>3 DEF HandleSucceeded
    <2> QED
      BY <1>1, <2>1, SilentStep
  <1>4. CASE ~handling.policy.isBlocking
    <2>1. directivesBeingHandled' = ClearBeingHandled(handling.policy)
      BY <1>4 DEF HandleSucceeded
    <2>2. \A e \in Directive : e \in Holders(directivesBeingHandled') <=>
              e \in Holders(directivesBeingHandled) /\ e # d
      BY <1>1, <1>2, <2>1, InHand
    <2>3. \A e \in Directive : /\ IsQueued(e)' <=> IsQueued(e)
                               /\ InCancellation(e)' <=> InCancellation(e)
      BY <1>1 DEF IsQueued, InCancellation
    <2>4. \A e \in Directive \ {d} : PlaceKept(e)
      BY <1>1, <2>2, <2>3 DEF PlaceKept
    <2>5. d \in offered
      BY <1>1, <1>2, InHand
    <2> QED
      BY <1>1, <2>2, <2>3, <2>4, <2>5, DoneStep
  <1> QED
    BY <1>3, <1>4

LEMMA RejectedStep ==
    ASSUME LifeInv, [Next]_vars, HandleRejected
    PROVE  Implements
  <1> DEFINE held == ClearBeingHandled(handling.policy)
  <1>1. /\ pc = "handling"
        /\ cancelingQueue \in Seq(Directive) /\ directiveBeingPreHandled \in Directive \cup {None}
        /\ handlingQueue \in SUBSET Item /\ IsFiniteSet(handlingQueue)
    BY DEF HandleRejected, LifeInv, CallInv, ServiceInv, TypeOK
  <1>2. PICK d \in Directive : d = handling.directive
    BY <1>1, InHand
  <1>3. /\ ScrubQueues(DialogOf[d], cancelingQueue, directiveBeingPreHandled, handlingQueue, held)
        /\ dialogRequestId' = ScrubbedId(DialogOf[d])
        /\ UNCHANGED <<canceling, offered, arrived>>
    BY <1>2 DEF HandleRejected
  <1>4. /\ d \in offered /\ d # directiveBeingPreHandled /\ d \notin DirectivesOf(handlingQueue)
        /\ held \in [Medium -> Directive \cup {None}]
        /\ \A e \in Directive : e \in Holders(held) <=> e \in Holders(directivesBeingHandled) /\ e # d
    BY <1>1, <1>2, InHand
  <1> HIDE DEF held
  <1>5. ~LiveIn(d, directiveBeingPreHandled, handlingQueue, held)
    BY <1>4 DEF LiveIn, DirectivesOf
  <1>6. \A e \in Directive : e \in DirectivesOf(handlingQueue) <=> IsQueued(e)
    BY DEF DirectivesOf, IsQueued
  <1>7. \A e \in Directive \ {d} :
            /\ e = directiveBeingPreHandled <=> e = directiveBeingPreHandled
            /\ e \in DirectivesOf(handlingQueue) <=> IsQueued(e)
            /\ e \in Holders(held) <=> e \in Holders(directivesBeingHandled)
            /\ e \in Range(cancelingQueue) <=> e \in Range(cancelingQueue)
    BY <1>4, <1>6
  <1> QED
    BY <1>1, <1>3, <1>4, <1>5, <1>7, FailStep

-----------------------------------------------------------------------------
LEMMA StepImplements ==
    ASSUME LifeInv, [Next]_vars
    PROVE  Implements
  <1> USE DEF state, thread, history
  <1>1. CASE EvaluateWake \/ SpuriousWakeup \/ AllCancelled \/ HandleDirective \/ EndPass
    BY <1>1, SilentStep DEF EvaluateWake, SpuriousWakeup, AllCancelled, HandleDirective, EndPass
  <1>2. CASE PreHandleDirective \/ UNCHANGED vars
    BY <1>2, SilentStep DEF PreHandleDirective, vars
  <1>3. CASE TakeCancelingQueue
    <2>1. canceling = <<>>
      BY <1>3 DEF TakeCancelingQueue, LifeInv, CallInv, ServiceInv, ThreadInv, SwappedOut
    <2>2. Range(cancelingQueue') \cup Range(canceling') = Range(cancelingQueue) \cup Range(canceling)
      BY <1>3, <2>1 DEF TakeCancelingQueue
    <2> QED
      BY <1>3, <2>2, SilentStep DEF TakeCancelingQueue
  <1>4. CASE CancelDirective
    BY <1>4, CancelDirectiveStep
  <1>5. CASE TakeDirective
    BY <1>5, TakeStep
  <1>6. CASE HandleSucceeded
    BY <1>6, SucceededStep
  <1>7. CASE HandleRejected
    BY <1>7, RejectedStep
  <1>8. CASE Owner
    BY <1>8, OwnerStep
  <1>9. ASSUME NEW d \in Directive, Handler(d) PROVE Implements
    BY <1>9, ReportStep
  <1>10. ASSUME NEW d \in Directive, RefuseDirective(d) \/ DropDirective(d) \/ AcceptDirective(d)
         PROVE  Implements
    BY <1>10, OfferStep
  <1>11. CASE AbandonDirective
    BY <1>11, AbandonStep
  <1>12. CASE EnqueueDirective
    BY <1>12, EnqueueStep
  <1> QED
    BY <1>1, <1>2, <1>3, <1>4, <1>5, <1>6, <1>7, <1>8, <1>9, <1>10, <1>11, <1>12
    DEF Next, ProcessingThread, ReceivingThread

LEMMA InitImplements == Init => Lifecycle!Init
  <1> SUFFICES ASSUME Init PROVE Lifecycle!Init
    OBVIOUS
  <1>1. ASSUME NEW d \in Directive PROVE StageOf(d) = "new" /\ QueuedPolicy(d) = DefaultPolicy
    <2>1. d \notin offered /\ DOMAIN arrived = {}
      BY EmptySeq DEF Init
    <2>2. StageOf(d) = "new"
      BY <2>1, CallInit, StageIsPlace DEF Staged, HasStage
    <2>3. QueuedPolicy(d) = DefaultPolicy
      BY <2>1 DEF QueuedPolicy
    <2> QED
      BY <2>2, <2>3
  <1> QED
    BY <1>1 DEF Init, Lifecycle!Init

\* The processor implements the life cycle: every step of its threads, of the
\* handlers and of the owner is one step of DirectiveLifecycle or none.
THEOREM ProcessorImplementsLifecycle == Spec => ImplementsLifecycle
  <1>1. LifeInv /\ [Next]_vars => (Lifecycle!Next \/ UNCHANGED Lifecycle!vars)
    BY StepImplements DEF Implements
  <1> QED
    BY <1>1, LifeInit, LifeStep, InitImplements, PTL DEF Spec, ImplementsLifecycle, Lifecycle!Spec
=============================================================================
