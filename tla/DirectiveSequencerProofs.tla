----------------------- MODULE DirectiveSequencerProofs -----------------------
(***************************************************************************)
(* Theorems about the DirectiveSequencer, for any sets of directives and   *)
(* dialogs.  A step of the sequencer is a step of the processor or leaves  *)
(* it alone, so that what is proved of the processor alone holds of it     *)
(* inside the sequencer, and joins its invariant here.                     *)
(***************************************************************************)
EXTENDS DirectiveSequencer, DirectiveProcessorProofs

\* The receiving thread calls the processor with a directive it has dequeued,
\* and nobody else is inside onDirective().
OnlyTheLoopReceives ==
    /\ loop \in {"taken", "receiving", "refused"} => taken \in Directive
    /\ loop # "receiving" => receiving = Idle

\* What each stage of doShutdown() has waited for.
StageInv ==
    /\ joined => pc = "exited"
    /\ shutdownStage \in {"processor", "router", "done"} => loop = "exited"
    /\ shutdownStage \in {"router", "done"} => joined

SequencerInv ==
    /\ StopInv
    /\ SequencerTypeOK
    /\ OnlyTheLoopReceives
    /\ NoReceivingLost
    /\ EnabledTogether /\ (disabling => ~sequencerEnabled)
    /\ StageInv

-----------------------------------------------------------------------------
(***************************************************************************)
(* Every step of the sequencer implements a step of the processor.         *)
(***************************************************************************)
LEMMA PassIsReceiving ==
    ASSUME OnlyTheLoopReceives, PassDirective
    PROVE  ReceivingThread
  <1>1. CASE loop = "taken"
    BY <1>1 DEF PassDirective, OnlyTheLoopReceives, ReceivingThread
  <1>2. CASE loop # "taken"
    BY <1>2 DEF PassDirective, ReceivingThread
  <1> QED
    BY <1>1, <1>2

LEMMA SequencerStepImplements ==
    ASSUME OnlyTheLoopReceives, [SequencerNext]_sequencerVars
    PROVE  [Next]_vars
  <1>1. ASSUME NEW d \in Directive, ReceiveDirective(d) PROVE UNCHANGED vars
    BY <1>1 DEF ReceiveDirective
  <1>2. CASE ReceivingLoop \/ SpuriousReceiving
    <2>1. ASSUME EvaluateReceiving \/ SendException \/ SpuriousReceiving PROVE UNCHANGED vars
      BY <2>1 DEF EvaluateReceiving, SendException, SpuriousReceiving
    <2>2. ASSUME PassDirective PROVE Next
      BY <2>2, PassIsReceiving DEF Next
    <2> QED
      BY <1>2, <2>1, <2>2 DEF ReceivingLoop
  <1>3. ASSUME NEW id \in DialogId \cup {NoDialog}, SequencerSetDialogRequestId(id) PROVE Next
    BY <1>3 DEF SequencerSetDialogRequestId, Next, Owner
  <1>4. CASE BeginDisable
    <2>1. UNCHANGED vars \/ SetDialogRequestId(NoDialog)
      BY <1>4 DEF BeginDisable
    <2> QED
      BY <2>1 DEF Next, Owner
  <1>5. CASE EndDisable \/ SequencerEnable
    BY <1>5 DEF EndDisable, SequencerEnable, DisableProcessor, Next, Owner
  <1>6. CASE StopReceiving
    BY <1>6 DEF StopReceiving
  <1>7. CASE ShutdownProceeds
    <2>1. ASSUME JoinReceiving \/ EndSequencerShutdown PROVE UNCHANGED vars
      BY <2>1 DEF JoinReceiving, EndSequencerShutdown
    <2>2. ASSUME StopProcessor PROVE Next
      BY <2>2 DEF StopProcessor, Next, Owner
    <2> QED
      BY <1>7, <2>1, <2>2 DEF ShutdownProceeds
  <1>8. CASE ProcessorSteps
    BY <1>8 DEF ProcessorSteps, Next
  <1>9. CASE UNCHANGED sequencerVars
    BY <1>9 DEF sequencerVars
  <1> QED
    BY <1>1, <1>2, <1>3, <1>4, <1>5, <1>6, <1>7, <1>8, <1>9 DEF SequencerNext

-----------------------------------------------------------------------------
(***************************************************************************)
(* What the steps of the processor leave alone.                            *)
(***************************************************************************)
\* Only onDirective() moves the receiving thread, and only the owner's calls
\* move `owner`.
LEMMA ProcessorStepFrame ==
    ASSUME ProcessingThread \/ SpuriousWakeup \/ \E d \in Directive : Handler(d)
    PROVE  UNCHANGED <<receiving, owner>>
  <1>1. CASE ProcessingThread \/ SpuriousWakeup
    BY <1>1 DEF ProcessingThread, EvaluateWake, TakeCancelingQueue, CancelDirective,
                AllCancelled, TakeDirective, HandleDirective, HandleSucceeded,
                HandleRejected, EndPass, SpuriousWakeup
  <1>2. CASE \E d \in Directive : Handler(d)
    BY <1>2 DEF Handler, SetCompleted, SetFailed, IgnoreReport
  <1> QED
    BY <1>1, <1>2

LEMMA ReceivingThreadFrame ==
    ASSUME ReceivingThread
    PROVE  UNCHANGED owner
  BY DEF ReceivingThread, RefuseDirective, DropDirective, AcceptDirective,
         PreHandleDirective, AbandonDirective, EnqueueDirective

\* The processing thread does not come back once it has exited.
LEMMA ExitIsFinal ==
    ASSUME TypeOK, [Next]_vars, pc = "exited"
    PROVE  pc' = "exited"
  <1>1. CASE ProcessingThread \/ SpuriousWakeup
    BY <1>1 DEF ProcessingThread, EvaluateWake, TakeCancelingQueue, CancelDirective,
                AllCancelled, TakeDirective, HandleDirective, HandleSucceeded,
                HandleRejected, EndPass, SpuriousWakeup
  <1>2. CASE ReceivingThread
    BY <1>2 DEF ReceivingThread, RefuseDirective, DropDirective, AcceptDirective,
                PreHandleDirective, AbandonDirective, EnqueueDirective, NotifyIf, thread
  <1>3. ASSUME NEW d \in Directive, Handler(d) PROVE pc' = "exited"
    BY <1>3 DEF Handler, SetCompleted, SetFailed, IgnoreReport, NotifyIf, thread
  <1>4. CASE Owner
    BY <1>4 DEF Owner, SetDialogRequestId, Disable, Enable, Unregister, BeginShutdown,
                Join, NotifyIf, thread
  <1>5. CASE UNCHANGED vars
    BY <1>5 DEF vars, thread
  <1> QED
    BY <1>1, <1>2, <1>3, <1>4, <1>5 DEF Next

-----------------------------------------------------------------------------
(***************************************************************************)
(* The invariant of the sequencer, one lemma per part of it.               *)
(***************************************************************************)
LEMMA ReceivingStep ==
    ASSUME SequencerTypeOK, OnlyTheLoopReceives, [SequencerNext]_sequencerVars
    PROVE  OnlyTheLoopReceives'
  <1> USE DEF OnlyTheLoopReceives, sequencer
  <1>1. ASSUME UNCHANGED <<receiving, taken>>, loop' = LoopNotified PROVE OnlyTheLoopReceives'
    BY <1>1 DEF LoopNotified
  <1>2. ASSUME UNCHANGED <<receiving, taken, loop>> PROVE OnlyTheLoopReceives'
    BY <1>2
  <1>3. ASSUME NEW d \in Directive, ReceiveDirective(d) PROVE OnlyTheLoopReceives'
    BY <1>1, <1>3 DEF ReceiveDirective, vars
  <1>4. CASE EvaluateReceiving
    <2>1. UNCHANGED receiving /\ loop = "wait"
      BY <1>4 DEF EvaluateReceiving, vars
    <2>2. CASE loop' = "taken"
      <3>1. receivingQueue # <<>> /\ taken' = Head(receivingQueue)
        BY <1>4, <2>2 DEF EvaluateReceiving, WakeReceiving
      <3>2. taken' \in Directive
        BY <3>1 DEF SequencerTypeOK
      <3> QED
        BY <2>1, <2>2, <3>2
    <2>3. CASE loop' # "taken"
      BY <1>4, <2>1, <2>3 DEF EvaluateReceiving
    <2> QED
      BY <2>2, <2>3
  <1>5. CASE PassDirective
    BY <1>5 DEF PassDirective, RefuseDirective, DropDirective, AcceptDirective, Offer,
                PreHandleDirective, AbandonDirective, EnqueueDirective, AfterPassing
  <1>6. CASE SendException \/ SpuriousReceiving
    BY <1>6 DEF SendException, SpuriousReceiving, vars
  <1>7. ASSUME NEW id \in DialogId \cup {NoDialog}, SequencerSetDialogRequestId(id)
        PROVE  OnlyTheLoopReceives'
    BY <1>2, <1>7 DEF SequencerSetDialogRequestId, SetDialogRequestId
  <1>8. CASE BeginDisable
    BY <1>2, <1>8 DEF BeginDisable, SetDialogRequestId, vars
  <1>9. CASE EndDisable \/ SequencerEnable
    BY <1>1, <1>9 DEF EndDisable, SequencerEnable, DisableProcessor, Disable, Enable
  <1>10. CASE StopReceiving
    BY <1>1, <1>10 DEF StopReceiving, vars
  <1>11. CASE ShutdownProceeds
    BY <1>2, <1>11 DEF ShutdownProceeds, JoinReceiving, StopProcessor, EndSequencerShutdown,
                       Unregister, BeginShutdown, Join, vars
  <1>12. CASE ProcessorSteps
    BY <1>2, <1>12, ProcessorStepFrame DEF ProcessorSteps
  <1>13. CASE UNCHANGED sequencerVars
    BY <1>2, <1>13 DEF sequencerVars, vars
  <1> QED
    BY <1>3, <1>4, <1>5, <1>6, <1>7, <1>8, <1>9, <1>10, <1>11, <1>12, <1>13
    DEF SequencerNext, ReceivingLoop

LEMMA SequencerTypeStep ==
    ASSUME StopInv, SequencerTypeOK, OnlyTheLoopReceives, [SequencerNext]_sequencerVars
    PROVE  SequencerTypeOK'
  <1> USE DEF SequencerTypeOK, sequencer
  <1>1. TypeOK'
    BY SequencerStepImplements, StopStep DEF StopInv
  <1>2. ASSUME UNCHANGED <<receivingQueue, accepted, taken, excepted, dropped>>,
               sequencerEnabled' \in BOOLEAN, sequencerStopping' \in BOOLEAN,
               disabling' \in BOOLEAN, loop' \in {loop, LoopNotified},
               shutdownStage' \in {"none", "joining", "processor", "router", "done"}
        PROVE  SequencerTypeOK'
    BY <1>1, <1>2 DEF LoopNotified
  <1>3. ASSUME NEW d \in Directive, ReceiveDirective(d) PROVE SequencerTypeOK'
    BY <1>1, <1>3 DEF ReceiveDirective, Pushed, LoopNotified
  <1>4. CASE EvaluateReceiving
    BY <1>1, <1>4 DEF EvaluateReceiving, WakeReceiving
  <1>5. CASE PassDirective
    BY <1>1, <1>5 DEF PassDirective, AfterPassing, OnlyTheLoopReceives
  <1>6. CASE SendException
    BY <1>1, <1>6 DEF SendException, OnlyTheLoopReceives
  <1>7. CASE SpuriousReceiving
    BY <1>1, <1>7 DEF SpuriousReceiving
  <1>8. ASSUME NEW id \in DialogId \cup {NoDialog}, SequencerSetDialogRequestId(id)
        PROVE  SequencerTypeOK'
    BY <1>2, <1>8 DEF SequencerSetDialogRequestId
  <1>9. CASE BeginDisable \/ EndDisable \/ SequencerEnable
    BY <1>2, <1>9 DEF BeginDisable, EndDisable, SequencerEnable
  <1>10. CASE StopReceiving \/ ShutdownProceeds
    BY <1>2, <1>10 DEF StopReceiving, ShutdownProceeds, JoinReceiving, StopProcessor,
                       EndSequencerShutdown
  <1>11. CASE ProcessorSteps
    BY <1>2, <1>11 DEF ProcessorSteps
  <1>12. CASE UNCHANGED sequencerVars
    BY <1>2, <1>12 DEF sequencerVars
  <1> QED
    BY <1>3, <1>4, <1>5, <1>6, <1>7, <1>8, <1>9, <1>10, <1>11, <1>12
    DEF SequencerNext, ReceivingLoop

\* The loop falls asleep only on a false predicate, and whatever makes the
\* predicate true wakes it.
LEMMA ReceivingWakeStep ==
    ASSUME SequencerTypeOK, NoReceivingLost, [SequencerNext]_sequencerVars
    PROVE  NoReceivingLost'
  <1> USE DEF NoReceivingLost, WakeReceiving, sequencer
  <1>1. ASSUME UNCHANGED <<receivingQueue, sequencerStopping, loop>> PROVE NoReceivingLost'
    BY <1>1
  <1>2. ASSUME loop' = LoopNotified PROVE loop' # "asleep"
    BY <1>2 DEF LoopNotified
  <1>3. ASSUME NEW d \in Directive, ReceiveDirective(d) PROVE NoReceivingLost'
    BY <1>2, <1>3 DEF ReceiveDirective
  <1>4. CASE EvaluateReceiving
    BY <1>4 DEF EvaluateReceiving
  <1>5. CASE PassDirective
    BY <1>5 DEF PassDirective, AfterPassing
  <1>6. CASE SendException \/ SpuriousReceiving
    BY <1>6 DEF SendException, SpuriousReceiving
  <1>7. ASSUME NEW id \in DialogId \cup {NoDialog}, SequencerSetDialogRequestId(id)
        PROVE  NoReceivingLost'
    BY <1>1, <1>7 DEF SequencerSetDialogRequestId
  <1>8. CASE BeginDisable \/ ShutdownProceeds \/ ProcessorSteps
    BY <1>1, <1>8 DEF BeginDisable, ShutdownProceeds, JoinReceiving, StopProcessor,
                      EndSequencerShutdown, ProcessorSteps
  <1>9. CASE EndDisable \/ SequencerEnable \/ StopReceiving
    BY <1>2, <1>9 DEF EndDisable, SequencerEnable, StopReceiving
  <1>10. CASE UNCHANGED sequencerVars
    BY <1>1, <1>10 DEF sequencerVars
  <1> QED
    BY <1>3, <1>4, <1>5, <1>6, <1>7, <1>8, <1>9, <1>10 DEF SequencerNext, ReceivingLoop

\* The two flags differ only inside disable().
LEMMA EnabledStep ==
    ASSUME SequencerTypeOK, OnlyTheLoopReceives, EnabledTogether,
           disabling => ~sequencerEnabled,
           [SequencerNext]_sequencerVars
    PROVE  EnabledTogether' /\ (disabling' => ~sequencerEnabled')
  <1> USE DEF EnabledTogether, sequencer
  <1> DEFINE Kept == UNCHANGED <<sequencerEnabled, isEnabled, disabling>>
             Goal == EnabledTogether' /\ (disabling' => ~sequencerEnabled')
  <1>1. ASSUME Kept PROVE Goal
    BY <1>1
  <1>2. ASSUME NEW d \in Directive, ReceiveDirective(d) PROVE Kept
    BY <1>2 DEF ReceiveDirective, vars, owner
  <1>3. CASE ReceivingLoop \/ SpuriousReceiving
    <2>1. ASSUME EvaluateReceiving \/ SendException \/ SpuriousReceiving PROVE Kept
      BY <2>1 DEF EvaluateReceiving, SendException, SpuriousReceiving, vars, owner
    <2>2. ASSUME PassDirective PROVE Kept
      BY <2>2, PassIsReceiving, ReceivingThreadFrame DEF PassDirective, owner
    <2> QED
      BY <1>3, <2>1, <2>2 DEF ReceivingLoop
  <1>4. ASSUME NEW id \in DialogId \cup {NoDialog}, SequencerSetDialogRequestId(id) PROVE Kept
    BY <1>4 DEF SequencerSetDialogRequestId, SetDialogRequestId, owner
  <1>5. CASE BeginDisable
    BY <1>5 DEF BeginDisable
  <1>6. CASE EndDisable
    BY <1>6 DEF EndDisable, DisableProcessor, Disable, SequencerTypeOK
  <1>7. CASE SequencerEnable
    BY <1>7 DEF SequencerEnable, Enable
  <1>8. CASE StopReceiving
    BY <1>8 DEF StopReceiving, vars, owner
  <1>9. ASSUME ShutdownProceeds PROVE Kept
    BY <1>9 DEF ShutdownProceeds, JoinReceiving, StopProcessor, EndSequencerShutdown,
                Unregister, BeginShutdown, Join, vars, owner
  <1>10. CASE ProcessorSteps
    BY <1>10, ProcessorStepFrame DEF ProcessorSteps, owner
  <1>11. CASE UNCHANGED sequencerVars
    BY <1>11 DEF sequencerVars, vars, owner
  <1> QED
    BY <1>1, <1>2, <1>3, <1>4, <1>5, <1>6, <1>7, <1>8, <1>9, <1>10, <1>11 DEF SequencerNext

\* doShutdown() goes on only when what it waits for has happened for good.
LEMMA StageStep ==
    ASSUME StopInv, OnlyTheLoopReceives, StageInv, [SequencerNext]_sequencerVars
    PROVE  StageInv'
  <1> USE DEF StageInv, sequencer
  <1>1. ASSUME UNCHANGED <<joined, shutdownStage>>, loop = "exited" => loop' = "exited"
        PROVE  StageInv'
    <2>1. pc = "exited" => pc' = "exited"
      BY SequencerStepImplements, ExitIsFinal DEF StopInv
    <2> QED
      BY <1>1, <2>1
  <1>2. ASSUME NEW d \in Directive, ReceiveDirective(d) PROVE StageInv'
    BY <1>1, <1>2 DEF ReceiveDirective, LoopNotified, vars, owner
  <1>3. CASE ReceivingLoop \/ SpuriousReceiving
    <2>1. ASSUME EvaluateReceiving \/ SendException \/ SpuriousReceiving PROVE StageInv'
      BY <1>1, <2>1 DEF EvaluateReceiving, SendException, SpuriousReceiving, vars, owner
    <2>2. ASSUME PassDirective PROVE StageInv'
      <3>1. UNCHANGED <<joined, shutdownStage>> /\ loop # "exited"
        BY <2>2, PassIsReceiving, ReceivingThreadFrame DEF PassDirective, owner
      <3> QED
        BY <1>1, <3>1
    <2> QED
      BY <1>3, <2>1, <2>2 DEF ReceivingLoop
  <1>4. ASSUME NEW id \in DialogId \cup {NoDialog}, SequencerSetDialogRequestId(id)
        PROVE  StageInv'
    BY <1>1, <1>4 DEF SequencerSetDialogRequestId, SetDialogRequestId, owner
  <1>5. CASE BeginDisable
    BY <1>1, <1>5 DEF BeginDisable, SetDialogRequestId, vars, owner
  <1>6. CASE EndDisable \/ SequencerEnable
    BY <1>1, <1>6 DEF EndDisable, DisableProcessor, Disable, SequencerEnable, Enable,
                      LoopNotified
  <1>7. CASE StopReceiving
    <2>1. UNCHANGED <<joined, pc>> /\ shutdownStage' = "joining"
      BY <1>7 DEF StopReceiving, vars, owner, thread
    <2> QED
      BY <2>1
  <1>8. CASE JoinReceiving
    BY <1>8 DEF JoinReceiving, ReceivingEnded, vars, owner, thread
  <1>9. CASE StopProcessor
    <2>1. ASSUME Unregister \/ BeginShutdown PROVE UNCHANGED joined
      BY <2>1 DEF Unregister, BeginShutdown
    <2>2. pc = "exited" => pc' = "exited"
      BY SequencerStepImplements, ExitIsFinal DEF StopInv
    <2>3. ASSUME Join PROVE pc = "exited"
      BY <2>3 DEF Join
    <2> QED
      BY <1>9, <2>1, <2>2, <2>3 DEF StopProcessor
  <1>10. CASE EndSequencerShutdown
    BY <1>10 DEF EndSequencerShutdown, vars, owner, thread
  <1>11. CASE ProcessorSteps
    BY <1>1, <1>11, ProcessorStepFrame DEF ProcessorSteps, owner
  <1>12. CASE UNCHANGED sequencerVars
    BY <1>1, <1>12 DEF sequencerVars, vars, owner
  <1> QED
    BY <1>2, <1>3, <1>4, <1>5, <1>6, <1>7, <1>8, <1>9, <1>10, <1>11, <1>12
    DEF SequencerNext, ShutdownProceeds

LEMMA SequencerInvInit == SequencerInit => SequencerInv
  <1> SUFFICES ASSUME SequencerInit PROVE SequencerInv
    OBVIOUS
  <1>1. StopInv
    BY StopInit DEF SequencerInit
  <1>2. receivingQueue \in Seq(Directive) /\ accepted \in Seq(Directive)
    BY EmptySeq DEF SequencerInit
  <1>3. SequencerTypeOK
    BY <1>1, <1>2 DEF SequencerInit, SequencerTypeOK, StopInv
  <1>4. OnlyTheLoopReceives /\ NoReceivingLost
    BY DEF SequencerInit, Init, OnlyTheLoopReceives, NoReceivingLost
  <1>5. EnabledTogether /\ (disabling => ~sequencerEnabled) /\ StageInv
    BY DEF SequencerInit, Init, EnabledTogether, StageInv
  <1> QED
    BY <1>1, <1>3, <1>4, <1>5 DEF SequencerInv

LEMMA SequencerInvStep == SequencerInv /\ [SequencerNext]_sequencerVars => SequencerInv'
  <1> SUFFICES ASSUME SequencerInv, [SequencerNext]_sequencerVars PROVE SequencerInv'
    OBVIOUS
  <1>1. StopInv'
    BY SequencerStepImplements, StopStep DEF SequencerInv
  <1>2. SequencerTypeOK' /\ OnlyTheLoopReceives'
    BY SequencerTypeStep, ReceivingStep DEF SequencerInv
  <1>3. NoReceivingLost' /\ StageInv'
    BY ReceivingWakeStep, StageStep DEF SequencerInv
  <1>4. EnabledTogether' /\ (disabling' => ~sequencerEnabled')
    BY EnabledStep DEF SequencerInv
  <1> QED
    BY <1>1, <1>2, <1>3, <1>4 DEF SequencerInv

LEMMA SequencerInvariance == SequencerSpec => []SequencerInv
  BY SequencerInvInit, SequencerInvStep, PTL DEF SequencerSpec

-----------------------------------------------------------------------------
\* Every behaviour of the sequencer is one of the processor: nothing that the
\* receiving thread, disable() or doShutdown() does takes the processor outside
\* what is proved of it alone.
THEOREM SequencerImplementsProcessor == SequencerSpec => Spec
  <1>1. SequencerInit => Init
    BY DEF SequencerInit
  <1>2. SequencerInv /\ [SequencerNext]_sequencerVars => [Next]_vars
    BY SequencerStepImplements DEF SequencerInv
  <1> QED
    BY <1>1, <1>2, SequencerInvariance, PTL DEF SequencerSpec, Spec

\* Every variable of the sequencer keeps to its type.
THEOREM SequencerTypeCorrect == SequencerSpec => []SequencerTypeOK
  <1>1. SequencerInv => SequencerTypeOK
    BY DEF SequencerInv
  <1> QED
    BY <1>1, SequencerInvariance, PTL

\* The receiving thread never sleeps while it has something to do
\* (m_wakeReceivingLoop).
THEOREM NoReceivingIsLost == SequencerSpec => []NoReceivingLost
  <1>1. SequencerInv => NoReceivingLost
    BY DEF SequencerInv
  <1> QED
    BY <1>1, SequencerInvariance, PTL

\* disable() and enable() leave both flags alike.
THEOREM FlagsAgree == SequencerSpec => []EnabledTogether
  <1>1. SequencerInv => EnabledTogether
    BY DEF SequencerInv
  <1> QED
    BY <1>1, SequencerInvariance, PTL

\* When doShutdown() comes to the router and m_exceptionSender, both threads
\* have ended and the processor is empty: that both joins precede them, and
\* that a stopped processor is quiet (StopIsQuiet), is why.
THEOREM ShutdownIsOrderly == SequencerSpec => []ShutdownLeavesNobody
  <1>1. SequencerInv => ShutdownLeavesNobody
    <2> SUFFICES ASSUME SequencerInv, shutdownStage \in {"router", "done"}
                 PROVE  /\ loop = "exited" /\ pc = "exited" /\ receiving = Idle
                        /\ handlingQueue = {} /\ cancelingQueue = <<>>
      BY DEF ShutdownLeavesNobody
    <2>1. loop = "exited" /\ pc = "exited"
      BY DEF SequencerInv, StageInv
    <2>2. receiving = Idle
      BY <2>1 DEF SequencerInv, OnlyTheLoopReceives
    <2>3. handlingQueue = {} /\ cancelingQueue = <<>>
      BY <2>1 DEF SequencerInv, StopInv, StoppedIsQuiet, IsAccepting
    <2> QED
      BY <2>1, <2>2, <2>3
  <1> QED
    BY <1>1, SequencerInvariance, PTL

-----------------------------------------------------------------------------
(***************************************************************************)
(* What the receiving thread alone does: onDirective() calls, and so what  *)
(* is offered, queued and pre-handled.                                     *)
(***************************************************************************)
LEMMA OthersDoNotReceive ==
    ASSUME [SequencerNext]_sequencerVars, ~PassDirective, TypeOK
    PROVE  UNCHANGED <<receiving, offered, arrived>> /\ ~PreHandleDirective
  <1> USE DEF sequencer
  <1>1. UNCHANGED <<receiving, offered, arrived>>
    <2>1. CASE UNCHANGED vars
      BY <2>1 DEF vars, history
    <2>2. ASSUME NEW id, SetDialogRequestId(id) PROVE UNCHANGED <<receiving, offered, arrived>>
      BY <2>2 DEF SetDialogRequestId, history
    <2>3. CASE Disable \/ Enable \/ Unregister \/ BeginShutdown \/ Join
      BY <2>3 DEF Disable, Enable, Unregister, BeginShutdown, Join, history
    <2>4. CASE ProcessorSteps
      <3>1. CASE \E d \in Directive : Handler(d)
        BY <3>1 DEF Handler, SetCompleted, SetFailed, IgnoreReport, history
      <3>2. CASE ProcessingThread \/ SpuriousWakeup
        BY <3>2 DEF ProcessingThread, EvaluateWake, TakeCancelingQueue, CancelDirective,
                    AllCancelled, TakeDirective, HandleDirective, HandleSucceeded,
                    HandleRejected, EndPass, SpuriousWakeup, history
      <3> QED
        BY <2>4, <3>1, <3>2 DEF ProcessorSteps
    <2> QED
      BY <2>1, <2>2, <2>3, <2>4
      DEF SequencerNext, ReceiveDirective, ReceivingLoop, EvaluateReceiving, SendException,
          SpuriousReceiving, SequencerSetDialogRequestId, BeginDisable, EndDisable,
          DisableProcessor, SequencerEnable, StopReceiving, ShutdownProceeds, JoinReceiving,
          StopProcessor, EndSequencerShutdown, sequencerVars
  <1>2. PreHandleDirective => receiving' # receiving
    BY DEF PreHandleDirective, TypeOK, Idle
  <1> QED
    BY <1>1, <1>2

\* The states of the receiving thread, in the steps that are not its own.
LEMMA LoopOfOthers ==
    ASSUME [SequencerNext]_sequencerVars, ~ReceivingLoop
    PROVE  /\ UNCHANGED <<taken, excepted, dropped>>
           /\ loop' # loop => loop = "asleep" /\ loop' = "wait"
           /\ \/ UNCHANGED <<receivingQueue, accepted>>
              \/ \E d \in Directive : ReceiveDirective(d)
  BY DEF SequencerNext, ReceiveDirective, SpuriousReceiving, SequencerSetDialogRequestId,
         BeginDisable, EndDisable, SequencerEnable, StopReceiving, ShutdownProceeds,
         JoinReceiving, StopProcessor, EndSequencerShutdown, ProcessorSteps, sequencerVars,
         sequencer, LoopNotified

LEMMA PassingLoop ==
    ASSUME PassDirective
    PROVE  /\ loop \in {"taken", "receiving"}
           /\ UNCHANGED <<taken, excepted, receivingQueue, accepted>>
  BY DEF PassDirective

-----------------------------------------------------------------------------
(***************************************************************************)
(* The order of acceptance.                                                *)
(***************************************************************************)
\* The directives dequeued so far are the first ones of those accepted.
Passed == Len(accepted) - Len(receivingQueue)

OrderOfQueue ==
    /\ Passed \in Nat
    /\ \A i \in DOMAIN receivingQueue : receivingQueue[i] = accepted[Passed + i]
    /\ loop \in {"taken", "receiving"} => Passed # 0 /\ taken = accepted[Passed]
    /\ loop = "receiving" => receiving.directive = taken
    /\ \A i \in DOMAIN arrived : \E k \in DOMAIN accepted :
           /\ accepted[k] = arrived[i].directive
           /\ k <= Passed
           /\ loop \in {"taken", "receiving"} => k # Passed

QueueInv == SequencerInv /\ ServiceInv /\ OrderOfQueue /\ QueuedInOrder

LEMMA ReceivedIsTakenStep ==
    ASSUME QueueInv, [SequencerNext]_sequencerVars, loop' = "receiving"
    PROVE  receiving'.directive = taken'
  <1>1. TypeOK /\ SequencerTypeOK /\ OnlyTheLoopReceives
    BY DEF QueueInv, SequencerInv, SequencerTypeOK
  <1>2. CASE PassDirective
    <2>1. loop = "taken" => AcceptDirective(taken)
      BY <1>2 DEF PassDirective, AfterPassing
    <2>2. loop = "receiving" => PreHandleDirective
      BY <1>2 DEF PassDirective, AfterPassing
    <2> QED
      BY <1>1, <1>2, <2>1, <2>2, PassingLoop
      DEF AcceptDirective, PreHandleDirective, QueueInv, OrderOfQueue, TypeOK, Idle
  <1>3. CASE ~PassDirective
    <2>1. UNCHANGED receiving
      BY <1>1, <1>3, OthersDoNotReceive
    <2>2. ~ReceivingLoop
      BY <1>3 DEF ReceivingLoop, EvaluateReceiving, SendException
    <2>3. loop = "receiving" /\ UNCHANGED taken
      BY <2>2, LoopOfOthers
    <2> QED
      BY <2>1, <2>3 DEF QueueInv, OrderOfQueue
  <1> QED
    BY <1>2, <1>3

LEMMA OrderOfQueueStep ==
    ASSUME QueueInv, [SequencerNext]_sequencerVars
    PROVE  OrderOfQueue' /\ QueuedInOrder'
  <1> DEFINE atWork == loop \in {"taken", "receiving"}
             Same == UNCHANGED <<receivingQueue, accepted, taken>> /\ (atWork' => atWork)
  <1>1. /\ receivingQueue \in Seq(Directive) /\ accepted \in Seq(Directive)
        /\ Len(receivingQueue) \in Nat /\ Len(accepted) \in Nat
        /\ DOMAIN receivingQueue = 1..Len(receivingQueue) /\ DOMAIN accepted = 1..Len(accepted)
        /\ TypeOK /\ ItemInv /\ OnlyTheLoopReceives
        /\ Passed \in Nat
    BY LenProperties DEF QueueInv, SequencerInv, SequencerTypeOK, ServiceInv, OrderOfQueue
  <1>0. /\ Passed = Len(accepted) - Len(receivingQueue)
        /\ Passed' = Len(accepted') - Len(receivingQueue')
    BY DEF Passed
  <1>2. loop' = "receiving" => receiving'.directive = taken'
    BY ReceivedIsTakenStep
  <1>3. ASSUME UNCHANGED arrived, Same PROVE OrderOfQueue' /\ QueuedInOrder'
    BY <1>2, <1>3 DEF QueueInv, OrderOfQueue, QueuedInOrder, Passed
  <1>4. ASSUME NEW d \in Directive, ReceiveDirective(d) PROVE OrderOfQueue' /\ QueuedInOrder'
    <2>1. /\ receivingQueue' = Append(receivingQueue, d) /\ accepted' = Append(accepted, d)
          /\ UNCHANGED <<arrived, taken>> /\ (atWork' => atWork)
      BY <1>4 DEF ReceiveDirective, Pushed, LoopNotified, vars, history
    <2> HIDE DEF atWork
    <2>2. /\ Len(receivingQueue') = Len(receivingQueue) + 1
          /\ Len(accepted') = Len(accepted) + 1
          /\ DOMAIN receivingQueue' = 1..(Len(receivingQueue) + 1)
          /\ DOMAIN accepted' = 1..(Len(accepted) + 1)
          /\ \A i \in 1..Len(receivingQueue) : receivingQueue'[i] = receivingQueue[i]
          /\ receivingQueue'[Len(receivingQueue) + 1] = d
          /\ \A i \in 1..Len(accepted) : accepted'[i] = accepted[i]
          /\ accepted'[Len(accepted) + 1] = d
      BY <1>1, <2>1, AppendProperties, LenProperties
    <2>3. Passed' = Passed /\ Passed \in 0..Len(accepted)
      BY <1>0, <1>1, <2>2
    <2>4. \A k \in DOMAIN accepted : k \in DOMAIN accepted' /\ accepted'[k] = accepted[k]
      BY <1>1, <2>2
    <2>5. ASSUME NEW i \in DOMAIN receivingQueue'
          PROVE  receivingQueue'[i] = accepted'[Passed + i]
      <3>1. CASE i = Len(receivingQueue) + 1
        <4>1. Passed + i = Len(accepted) + 1
          BY <1>0, <1>1, <3>1
        <4> QED
          BY <2>2, <3>1, <4>1
      <3>2. CASE i \in DOMAIN receivingQueue
        <4>1. Passed + i \in DOMAIN accepted
          BY <1>0, <1>1, <2>3, <3>2
        <4> QED
          BY <1>1, <2>2, <2>4, <3>2, <4>1 DEF QueueInv, OrderOfQueue
      <3> QED
        BY <1>1, <2>2, <3>1, <3>2
    <2>6. atWork => Passed # 0 /\ taken = accepted[Passed]
      BY DEF atWork, QueueInv, OrderOfQueue
    <2>7. atWork' => Passed' # 0 /\ taken' = accepted'[Passed']
      BY <1>1, <2>1, <2>3, <2>4, <2>6
    <2>8. \A i \in DOMAIN arrived : \E k \in DOMAIN accepted' :
              /\ accepted'[k] = arrived[i].directive /\ k <= Passed' /\ (atWork' => k # Passed')
      BY <2>1, <2>3, <2>4 DEF QueueInv, OrderOfQueue, atWork
    <2>9. OrderOfQueue'
      BY <1>2, <2>1, <2>3, <2>5, <2>7, <2>8 DEF OrderOfQueue, QueueInv, atWork
    <2>10. QueuedInOrder'
      BY <2>1, <2>4 DEF QueueInv, QueuedInOrder
    <2> QED
      BY <2>9, <2>10
  <1>5. CASE EvaluateReceiving /\ loop' = "taken"
    <2>1. /\ receivingQueue # <<>> /\ receivingQueue' = Tail(receivingQueue)
          /\ taken' = Head(receivingQueue) /\ loop = "wait" /\ UNCHANGED <<arrived, accepted>>
      BY <1>5 DEF EvaluateReceiving, WakeReceiving, vars, history
    <2>2. /\ Len(receivingQueue') = Len(receivingQueue) - 1 /\ Len(receivingQueue) # 0
          /\ \A i \in 1..Len(receivingQueue') : receivingQueue'[i] = receivingQueue[i + 1]
          /\ DOMAIN receivingQueue' = 1..Len(receivingQueue')
          /\ taken' = receivingQueue[1]
      BY <1>1, <2>1, HeadTailProperties, EmptySeq, LenProperties
    <2>3. Passed' = Passed + 1 /\ Passed \in Nat
      BY <1>0, <1>1, <2>1, <2>2
    <2>4. taken' = accepted'[Passed'] /\ Passed' # 0 /\ Passed' \in Nat
      BY <1>1, <2>1, <2>2, <2>3 DEF QueueInv, OrderOfQueue
    <2>5. ASSUME NEW i \in DOMAIN receivingQueue'
          PROVE  receivingQueue'[i] = accepted'[Passed' + i]
      <3>1. i + 1 \in DOMAIN receivingQueue /\ Passed' + i = Passed + (i + 1)
        BY <1>1, <2>1, <2>2, <2>3
      <3> QED
        BY <2>1, <2>2, <2>5, <3>1 DEF QueueInv, OrderOfQueue
    <2>6. \A i \in DOMAIN arrived : \E k \in DOMAIN accepted :
              accepted[k] = arrived[i].directive /\ k <= Passed' /\ k # Passed'
      BY <1>1, <2>3 DEF QueueInv, OrderOfQueue
    <2>7. OrderOfQueue'
      BY <1>2, <2>1, <2>4, <2>5, <2>6 DEF OrderOfQueue
    <2> QED
      BY <2>1, <2>7 DEF QueueInv, QueuedInOrder
  <1>6. CASE EvaluateReceiving /\ loop' # "taken"
    BY <1>3, <1>6 DEF EvaluateReceiving, vars, history
  <1>7. CASE SendException
    BY <1>3, <1>7 DEF SendException, vars, history
  <1>8. CASE PassDirective /\ ~EnqueueDirective
    <2>1. UNCHANGED arrived
      BY <1>8 DEF PassDirective, RefuseDirective, DropDirective, AcceptDirective,
                  PreHandleDirective, AbandonDirective, history
    <2> QED
      BY <1>3, <1>8, <2>1, PassingLoop
  <1>9. CASE PassDirective /\ EnqueueDirective
    <2>1. /\ receiving.stage = "preHandling" /\ loop = "receiving"
          /\ loop' = "wait" /\ UNCHANGED <<receivingQueue, accepted, taken>>
      <3>1. receiving # Idle
        BY <1>9 DEF EnqueueDirective, Idle
      <3>2. loop = "receiving"
        BY <1>1, <3>1 DEF OnlyTheLoopReceives
      <3>3. loop' = "wait"
        BY <1>9, <3>2 DEF PassDirective, AfterPassing, PreHandleDirective, AbandonDirective,
                          EnqueueDirective
      <3> QED
        BY <1>9, <3>2, <3>3, PassingLoop DEF EnqueueDirective
    <2> DEFINE last == Len(arrived) + 1
    <2>2. /\ DOMAIN arrived' = DOMAIN arrived \cup {last} /\ last \notin DOMAIN arrived
          /\ \A i \in DOMAIN arrived : arrived'[i] = arrived[i] /\ i < last
          /\ arrived'[last].directive = receiving.directive
      BY <1>1, <1>9, NewItem
    <2>3. last \in Nat /\ \A i \in DOMAIN arrived : i \in Nat
      BY <1>1, LenProperties DEF TypeOK
    <2> HIDE DEF last
    <2>4. /\ Passed \in DOMAIN accepted /\ accepted[Passed] = arrived'[last].directive
          /\ Passed' = Passed
      <3>1. Passed # 0 /\ taken = accepted[Passed] /\ receiving.directive = taken
        BY <2>1 DEF QueueInv, OrderOfQueue
      <3>2. Passed \in DOMAIN accepted
        <4> DEFINE n == Len(accepted)
                   r == Len(receivingQueue)
        <4>1. n \in Nat /\ r \in Nat /\ Passed = n - r /\ Passed \in Nat /\ DOMAIN accepted = 1..n
          BY <1>0, <1>1
        <4> HIDE DEF n, r
        <4> QED
          BY <3>1, <4>1
      <3> QED
        BY <1>0, <2>1, <2>2, <3>1, <3>2
    <2>5. \A i \in DOMAIN arrived : \E k \in DOMAIN accepted :
              accepted[k] = arrived[i].directive /\ k <= Passed /\ k # Passed
      BY <2>1 DEF QueueInv, OrderOfQueue
    <2>6. \A i \in DOMAIN arrived' : \E k \in DOMAIN accepted :
              accepted[k] = arrived'[i].directive /\ k <= Passed
      BY <1>1, <2>2, <2>4, <2>5
    <2>7. OrderOfQueue'
      BY <2>1, <2>4, <2>6 DEF QueueInv, OrderOfQueue
    <2>8. ASSUME NEW i \in DOMAIN arrived', NEW j \in DOMAIN arrived', i < j
          PROVE  \E k, l \in DOMAIN accepted : /\ k < l
                                               /\ accepted[k] = arrived'[i].directive
                                               /\ accepted[l] = arrived'[j].directive
      <3>1. CASE j \in DOMAIN arrived
        <4>1. i \in DOMAIN arrived
          BY <2>2, <2>3, <2>8, <3>1
        <4> QED
          BY <2>2, <2>8, <3>1, <4>1 DEF QueueInv, QueuedInOrder
      <3>2. CASE j = last
        <4>1. i \in DOMAIN arrived
          BY <2>2, <2>3, <2>8, <3>2
        <4>2. PICK k \in DOMAIN accepted :
                  accepted[k] = arrived[i].directive /\ k <= Passed /\ k # Passed
          BY <2>5, <4>1
        <4>3. k < Passed
          BY <1>1, <2>4, <4>2
        <4> QED
          BY <2>2, <2>4, <3>2, <4>1, <4>2, <4>3
      <3> QED
        BY <2>2, <3>1, <3>2
    <2>9. QueuedInOrder'
      BY <2>1, <2>8 DEF QueuedInOrder
    <2> QED
      BY <2>7, <2>9
  <1>10. CASE ~ReceivingLoop /\ ~\E d \in Directive : ReceiveDirective(d)
    <2>1. UNCHANGED arrived
      BY <1>1, <1>10, OthersDoNotReceive DEF ReceivingLoop
    <2>2. Same
      BY <1>10, LoopOfOthers
    <2> QED
      BY <1>3, <2>1, <2>2
  <1> QED
    BY <1>4, <1>5, <1>6, <1>7, <1>8, <1>9, <1>10 DEF ReceivingLoop

LEMMA QueueInit == SequencerInit => QueueInv
  <1> SUFFICES ASSUME SequencerInit PROVE QueueInv
    OBVIOUS
  <1>1. SequencerInv /\ ServiceInv
    BY SequencerInvInit, ServiceInit DEF SequencerInit
  <1>2. /\ Len(<<>>) = 0 /\ DOMAIN <<>> = {}
        /\ receivingQueue = <<>> /\ accepted = <<>> /\ arrived = <<>> /\ loop = "wait"
    BY DEF SequencerInit, Init
  <1>3. Passed = 0
    BY <1>2 DEF Passed
  <1> QED
    BY <1>1, <1>2, <1>3 DEF QueueInv, OrderOfQueue, QueuedInOrder

LEMMA QueueStep == QueueInv /\ [SequencerNext]_sequencerVars => QueueInv'
  <1> SUFFICES ASSUME QueueInv, [SequencerNext]_sequencerVars PROVE QueueInv'
    OBVIOUS
  <1>1. SequencerInv'
    BY SequencerInvStep DEF QueueInv
  <1>2. ServiceInv'
    BY SequencerStepImplements, ServiceStep DEF QueueInv, SequencerInv
  <1> QED
    BY <1>1, <1>2, OrderOfQueueStep DEF QueueInv

-----------------------------------------------------------------------------
(***************************************************************************)
(* The answers.  A directive without a result was never taken by a handler *)
(* and never queued.                                                       *)
(***************************************************************************)
LEMMA ResultIsGiven ==
    ASSUME TypeOK, [Next]_vars, NEW d \in Directive
    PROVE  /\ result[d] # "none" => result'[d] # "none"
           /\ result'[d] # "none" => result[d] # "none" \/ (PreHandleDirective /\ d = receiving.directive)
  <1> DEFINE Goal == /\ result[d] # "none" => result'[d] # "none"
                     /\ result'[d] # "none" =>
                            result[d] # "none" \/ (PreHandleDirective /\ d = receiving.directive)
  <1>1. CASE UNCHANGED result
    BY <1>1
  <1>2. CASE PreHandleDirective
    BY <1>2 DEF PreHandleDirective, TypeOK
  <1>3. ASSUME NEW e \in Directive, Handler(e) PROVE Goal
    <2>1. /\ result[e] = "open"
          /\ \E outcome \in {"completed", "failed"} : result' = [result EXCEPT ![e] = outcome]
      BY <1>3 DEF Handler, SetCompleted, SetFailed, IgnoreReport, Report
    <2> QED
      BY <2>1 DEF TypeOK
  <1>4. CASE ReceivingThread /\ ~PreHandleDirective
    BY <1>1, <1>4 DEF ReceivingThread, RefuseDirective, DropDirective, AcceptDirective,
                      AbandonDirective, EnqueueDirective
  <1>5. CASE SpuriousWakeup \/ ProcessingThread
    BY <1>1, <1>5 DEF SpuriousWakeup, ProcessingThread, EvaluateWake, TakeCancelingQueue,
                      CancelDirective, AllCancelled, TakeDirective, HandleDirective,
                      HandleSucceeded, HandleRejected, EndPass
  <1>6. CASE Owner
    BY <1>1, <1>6 DEF Owner, SetDialogRequestId, Disable, Enable, Unregister, BeginShutdown, Join
  <1>7. CASE UNCHANGED vars
    BY <1>1, <1>7 DEF vars
  <1> QED
    BY <1>2, <1>3, <1>4, <1>5, <1>6, <1>7 DEF Next

\* The directives that are answered, or about to be.
BeingAnswered(d) == loop = "refused" /\ taken = d

AnswerInv ==
    /\ \A i \in DOMAIN arrived : result[arrived[i].directive] # "none"
    /\ \A d \in Directive : d \in excepted \/ BeingAnswered(d) =>
           result[d] = "none" /\ d \in offered /\ d # receiving.directive
    /\ dropped \subseteq offered /\ receiving.directive \notin dropped
    /\ \A d \in offered : result[d] = "none" /\ receiving.directive # d =>
           (d \notin dropped <=> d \in excepted \/ BeingAnswered(d))

AnsweredInv == QueueInv /\ LifeInv /\ AnswerInv

LEMMA AnswerStep ==
    ASSUME AnsweredInv, [SequencerNext]_sequencerVars
    PROVE  AnswerInv'
  <1>1. /\ TypeOK /\ ItemInv /\ SequencerTypeOK /\ OnlyTheLoopReceives /\ [Next]_vars /\ OrderOfQueue
        /\ None \notin Directive
    BY SequencerStepImplements, ProcessorAssumption
    DEF AnsweredInv, QueueInv, SequencerInv, ServiceInv
  <1>2. \A i \in DOMAIN arrived' : result'[arrived'[i].directive] # "none"
    <2> TAKE i \in DOMAIN arrived'
    <2>1. CASE i \in DOMAIN arrived
      <3>1. arrived'[i] = arrived[i] /\ arrived[i].directive \in Directive
        BY <1>1, <2>1, ArrivedGrows, ItemsAreItems
      <3> QED
        BY <1>1, <2>1, <3>1, ResultIsGiven DEF AnsweredInv, AnswerInv
    <2>2. CASE i \notin DOMAIN arrived
      <3>1. EnqueueDirective
        BY <1>1, <2>2, ArrivedGrows
      <3>2. arrived'[i].directive = receiving.directive
        BY <1>1, <2>2, <3>1, NewItem
      <3> QED
        BY <3>1, <3>2 DEF EnqueueDirective, PreHandled
    <2> QED
      BY <2>1, <2>2
  <1> DEFINE Excepts ==
                 \A d \in Directive : (d \in excepted \/ BeingAnswered(d))' =>
                     result'[d] = "none" /\ d \in offered' /\ d # receiving'.directive
             Drops ==
                 /\ dropped' \subseteq offered' /\ receiving'.directive \notin dropped'
                 /\ \A d \in offered' : result'[d] = "none" /\ receiving'.directive # d =>
                        (d \notin dropped' <=> (d \in excepted \/ BeingAnswered(d))')
  <1>0. /\ offered \subseteq Directive /\ excepted \subseteq Directive
        /\ dropped \subseteq Directive
    BY <1>1 DEF TypeOK, SequencerTypeOK
  <1>3. ASSUME UNCHANGED <<receiving, offered, dropped>>, ~PreHandleDirective,
               \A d \in Directive : (d \in excepted \/ BeingAnswered(d))' <=>
                                        d \in excepted \/ BeingAnswered(d)
        PROVE  Excepts /\ Drops
    <2>1. \A d \in Directive : result'[d] = "none" <=> result[d] = "none"
      BY <1>1, <1>3, ResultIsGiven
    <2>2. Excepts
      BY <1>3, <2>1 DEF AnsweredInv, AnswerInv
    <2>3. Drops
      BY <1>0, <1>3, <2>1 DEF AnsweredInv, AnswerInv
    <2> QED
      BY <2>2, <2>3
  <1>4. ASSUME EvaluateReceiving PROVE Excepts /\ Drops
    <2>1. /\ UNCHANGED <<excepted, dropped>> /\ loop # "refused" /\ loop' # "refused"
          /\ ~PassDirective
      BY <1>4 DEF EvaluateReceiving, PassDirective
    <2> QED
      BY <1>1, <1>3, <2>1, OthersDoNotReceive DEF BeingAnswered
  <1>5. ASSUME SendException PROVE Excepts /\ Drops
    <2>1. /\ loop = "refused" /\ loop' = "wait" /\ excepted' = excepted \cup {taken}
          /\ UNCHANGED dropped /\ ~PassDirective
      BY <1>5 DEF SendException, PassDirective
    <2> QED
      BY <1>1, <1>3, <2>1, OthersDoNotReceive DEF BeingAnswered
  <1>6. ASSUME ~ReceivingLoop PROVE Excepts /\ Drops
    <2>1. UNCHANGED <<excepted, dropped, taken>> /\ (loop = "refused" <=> loop' = "refused")
      BY <1>6, LoopOfOthers
    <2> QED
      BY <1>1, <1>3, <1>6, <2>1, OthersDoNotReceive DEF BeingAnswered, ReceivingLoop
  <1>7. ASSUME PassDirective PROVE Excepts /\ Drops
    <2>1. loop \in {"taken", "receiving"} /\ UNCHANGED <<taken, excepted>> /\ taken \in Directive
      BY <1>1, <1>7, PassingLoop DEF OnlyTheLoopReceives
    <2>2. ASSUME RefuseDirective(taken), loop' = "refused", UNCHANGED dropped PROVE Excepts /\ Drops
      <3>1. /\ receiving = Idle /\ UNCHANGED <<receiving, result>>
            /\ taken \notin offered /\ offered' = offered \cup {taken}
        BY <2>2 DEF RefuseDirective, Offer
      <3>2. result[taken] = "none"
        BY <2>1, <3>1 DEF AnsweredInv, LifeInv
      <3> QED
        BY <1>0, <1>1, <2>1, <2>2, <3>1, <3>2 DEF AnsweredInv, AnswerInv, BeingAnswered, Idle
    <2>3. ASSUME DropDirective(taken), loop' # "refused", dropped' = dropped \cup {taken}
          PROVE  Excepts /\ Drops
      <3>1. /\ receiving = Idle /\ UNCHANGED <<receiving, result>>
            /\ taken \notin offered /\ offered' = offered \cup {taken}
        BY <2>3 DEF DropDirective, Offer
      <3> QED
        BY <1>0, <1>1, <2>1, <2>3, <3>1 DEF AnsweredInv, AnswerInv, BeingAnswered, Idle
    <2>4. ASSUME AcceptDirective(taken), loop' # "refused", UNCHANGED dropped PROVE Excepts /\ Drops
      <3>1. /\ UNCHANGED result /\ offered' = offered \cup {taken} /\ taken \notin offered
            /\ receiving = Idle /\ receiving'.directive = taken
        BY <2>4 DEF AcceptDirective, Offer
      <3> QED
        BY <1>0, <1>1, <2>1, <2>4, <3>1 DEF AnsweredInv, AnswerInv, BeingAnswered, Idle
    <2>5. ASSUME PreHandleDirective, loop' # "refused", UNCHANGED dropped PROVE Excepts /\ Drops
      <3>1. receiving'.directive = receiving.directive /\ UNCHANGED offered
        BY <1>1, <2>5 DEF PreHandleDirective, TypeOK, Idle
      <3>2. \A d \in Directive : /\ result'[d] = "none" => result[d] = "none"
                                 /\ d # receiving.directive /\ result[d] = "none" => result'[d] = "none"
        BY <1>1, ResultIsGiven
      <3> QED
        BY <1>0, <1>1, <2>1, <2>5, <3>1, <3>2 DEF AnsweredInv, AnswerInv, BeingAnswered
    <2>6. ASSUME AbandonDirective, loop = "receiving", loop' = AfterPassing(PreHandled),
                 UNCHANGED dropped
          PROVE  Excepts /\ Drops
      <3>1. /\ receiving.directive = taken /\ receiving' = Idle /\ UNCHANGED <<result, offered>>
        BY <1>1, <2>6 DEF AbandonDirective, OrderOfQueue, history
      <3>2. taken \in offered
        BY <1>1, <2>1, <3>1 DEF ItemInv
      <3>3. loop' = "refused" <=> result[taken] = "none"
        BY <2>6, <3>1 DEF AfterPassing, PreHandled
      <3>4. taken \notin dropped /\ Idle.directive = None
        BY <3>1 DEF AnsweredInv, AnswerInv, Idle
      <3> QED
        BY <1>0, <1>1, <2>1, <2>6, <3>1, <3>2, <3>3, <3>4 DEF AnsweredInv, AnswerInv, BeingAnswered
    <2>7. ASSUME EnqueueDirective, loop = "receiving", loop' # "refused", UNCHANGED dropped
          PROVE  Excepts /\ Drops
      <3>1. /\ receiving.directive = taken /\ receiving' = Idle /\ UNCHANGED <<result, offered>>
            /\ result[taken] # "none"
        BY <1>1, <2>7 DEF EnqueueDirective, OrderOfQueue, PreHandled
      <3> QED
        BY <1>0, <1>1, <2>1, <2>7, <3>1 DEF AnsweredInv, AnswerInv, BeingAnswered, Idle
    <2> QED
      BY <1>7, <2>1, <2>2, <2>3, <2>4, <2>5, <2>6, <2>7 DEF PassDirective, AfterPassing
  <1>8. Excepts /\ Drops
    BY <1>4, <1>5, <1>6, <1>7 DEF ReceivingLoop
  <1> QED
    BY <1>2, <1>8 DEF AnswerInv

LEMMA AnsweredInit == SequencerInit => AnsweredInv
  <1> SUFFICES ASSUME SequencerInit PROVE AnsweredInv
    OBVIOUS
  <1>1. QueueInv /\ LifeInv
    BY QueueInit, LifeInit DEF SequencerInit
  <1>2. /\ DOMAIN arrived = {} /\ excepted = {} /\ dropped = {} /\ offered = {}
        /\ loop = "wait"
    BY DEF SequencerInit, Init
  <1> QED
    BY <1>1, <1>2 DEF AnsweredInv, AnswerInv, BeingAnswered

LEMMA AnsweredStep == AnsweredInv /\ [SequencerNext]_sequencerVars => AnsweredInv'
  <1> SUFFICES ASSUME AnsweredInv, [SequencerNext]_sequencerVars PROVE AnsweredInv'
    OBVIOUS
  <1>1. QueueInv'
    BY QueueStep DEF AnsweredInv
  <1>2. LifeInv'
    BY SequencerStepImplements, LifeStep DEF AnsweredInv, QueueInv, SequencerInv
  <1> QED
    BY <1>1, <1>2, AnswerStep DEF AnsweredInv

LEMMA AnsweredInvariance == SequencerSpec => []AnsweredInv
  BY AnsweredInit, AnsweredStep, PTL DEF SequencerSpec

\* Directives are queued for their handlers in the order in which onDirective()
\* accepted them, whatever becomes of those in between.
THEOREM QueueingIsInOrder == SequencerSpec => []QueuedInOrder
  <1>1. AnsweredInv => QueuedInOrder
    BY DEF AnsweredInv, QueueInv
  <1> QED
    BY <1>1, AnsweredInvariance, PTL

\* An exception goes to AVS only for a directive that no handler took: it has no
\* result, was never queued, and so is never handed over.
THEOREM ExceptionsAreUnhandled == SequencerSpec => []ExceptionMeansUnhandled
  <1>1. AnsweredInv => ExceptionMeansUnhandled
    <2> SUFFICES ASSUME AnsweredInv, NEW d \in excepted
                 PROVE  result[d] = "none" /\ ~HasBeen(d, "handle")
      BY DEF ExceptionMeansUnhandled
    <2>1. d \in Directive
      BY DEF AnsweredInv, QueueInv, SequencerInv, SequencerTypeOK
    <2>2. result[d] = "none"
      BY <2>1 DEF AnsweredInv, AnswerInv
    <2>3. ASSUME HasBeen(d, "handle") PROVE FALSE
      <3>1. PICK i \in DOMAIN arrived : arrived[i].directive = d
        BY <2>1, <2>3 DEF AnsweredInv, QueueInv, ServiceInv, ThreadInv
      <3> QED
        BY <2>2, <3>1 DEF AnsweredInv, AnswerInv
    <2> QED
      BY <2>2, <2>3
  <1> QED
    BY <1>1, AnsweredInvariance, PTL

\* Every directive that no handler took is answered, or about to be, once the processor
\* is done with it: but for those that it dropped as of an old dialog, which are not.
THEOREM EveryRefusalIsAnswered == SequencerSpec => []RefusalsAreAnswered
  <1>1. AnsweredInv => RefusalsAreAnswered
    BY DEF AnsweredInv, AnswerInv, BeingAnswered, RefusalsAreAnswered
  <1> QED
    BY <1>1, AnsweredInvariance, PTL
=============================================================================
