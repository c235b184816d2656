-------------------------- MODULE DirectiveSequencer --------------------------
(***************************************************************************)
(* The DirectiveSequencer of the ADSL component, composed with its         *)
(* DirectiveProcessor: directives that arrive from any thread wait in      *)
(* m_receivingQueue for the receiving thread, which passes them one at a   *)
(* time to the processor, and answers AVS with an exception when the       *)
(* processor refuses one.                                                  *)
(*                                                                         *)
(* The sequencer's m_mutex is held from one step to the next by disable()  *)
(* alone, between its two calls on the processor.                          *)
(***************************************************************************)
EXTENDS DirectiveProcessor

VARIABLES
    receivingQueue,     \* m_receivingQueue
    sequencerEnabled,   \* m_isEnabled
    sequencerStopping,  \* m_isShuttingDown
    disabling,          \* disable() is between its two calls
    loop,               \* where the receiving thread is
    taken,              \* the directive it has dequeued
    shutdownStage,      \* how far doShutdown() has come
    accepted,           \* history: directives in the order of acceptance
    excepted,           \* history: directives answered with an exception
    dropped             \* history: directives dropped as of an old dialog

sequencer == <<receivingQueue, sequencerEnabled, sequencerStopping, disabling, loop, taken,
               shutdownStage, accepted, excepted, dropped>>

sequencerVars == <<vars, sequencer>>

(***************************************************************************)
(* The receiving thread:                                                   *)
(*   wait       runnable, about to evaluate the wake predicate             *)
(*   asleep     blocked in m_wakeReceivingLoop.wait()                      *)
(*   taken      has dequeued a directive and released m_mutex              *)
(*   receiving  inside processor.onDirective()                             *)
(*   refused    about to call sendExceptionEncountered()                   *)
(*   exited     has left receivingLoop()                                   *)
(* doShutdown():  none, joining the receiving thread, stopping the         *)
(* processor, stopping the router, done.                                   *)
(***************************************************************************)
SequencerInit ==
    /\ Init
    /\ receivingQueue = <<>>
    /\ sequencerEnabled = TRUE
    /\ sequencerStopping = FALSE
    /\ disabling = FALSE
    /\ loop = "wait"
    /\ taken = None
    /\ shutdownStage = "none"
    /\ accepted = <<>>
    /\ excepted = {} /\ dropped = {}

\* Mutant: the receiving thread is not woken.
LoopLeft == loop

LoopNotified == IF loop = "asleep" THEN "wait" ELSE loop

-----------------------------------------------------------------------------
(***************************************************************************)
(* onDirective().  A directive that is refused leaves no trace.            *)
(***************************************************************************)
\* Mutant: the newest directive is pushed to the front.
PushedToFront(d) == <<d>> \o receivingQueue

Pushed(d) == Append(receivingQueue, d)

ReceiveDirective(d) ==
    /\ ~disabling
    /\ sequencerEnabled /\ ~sequencerStopping
    /\ d \notin Range(accepted)
    /\ receivingQueue' = Pushed(d)
    /\ accepted' = Append(accepted, d)
    /\ loop' = LoopNotified
    /\ UNCHANGED <<vars, sequencerEnabled, sequencerStopping, disabling, taken,
                   shutdownStage, excepted, dropped>>

-----------------------------------------------------------------------------
(***************************************************************************)
(* receivingLoop()                                                         *)
(***************************************************************************)
WakeReceiving == receivingQueue # <<>> \/ sequencerStopping

EvaluateReceiving ==
    /\ loop = "wait"
    /\ ~disabling
    /\ IF ~WakeReceiving
       THEN loop' = "asleep" /\ UNCHANGED <<taken, receivingQueue>>
       ELSE IF sequencerStopping
       THEN loop' = "exited" /\ UNCHANGED <<taken, receivingQueue>>
       ELSE /\ loop' = "taken"
            /\ taken' = Head(receivingQueue)
            /\ receivingQueue' = Tail(receivingQueue)
    /\ UNCHANGED <<vars, sequencerEnabled, sequencerStopping, disabling, shutdownStage,
                   accepted, excepted, dropped>>

SpuriousReceiving ==
    /\ loop = "asleep"
    /\ loop' = "wait"
    /\ UNCHANGED <<vars, receivingQueue, sequencerEnabled, sequencerStopping, disabling,
                   taken, shutdownStage, accepted, excepted, dropped>>

\* What the receiving thread does when onDirective() returns.
\* Mutant: the answer is looked at the wrong way round.
AfterPassingSwapped(handled) == IF handled THEN "refused" ELSE "wait"

AfterPassing(handled) == IF handled THEN "wait" ELSE "refused"

\* receiveDirectiveLocked(): processor.onDirective(), step by step.
PassDirective ==
    /\ \/ /\ loop = "taken"
          /\ \/ RefuseDirective(taken) /\ loop' = AfterPassing(FALSE) /\ UNCHANGED dropped
             \/ /\ DropDirective(taken)
                /\ loop' = AfterPassing(TRUE)
                /\ dropped' = dropped \cup {taken}
             \/ AcceptDirective(taken) /\ loop' = "receiving" /\ UNCHANGED dropped
       \/ /\ loop = "receiving"
          /\ \/ PreHandleDirective /\ UNCHANGED loop
             \/ AbandonDirective /\ loop' = AfterPassing(PreHandled)
             \/ EnqueueDirective /\ loop' = AfterPassing(TRUE)
          /\ UNCHANGED dropped
    /\ UNCHANGED <<receivingQueue, sequencerEnabled, sequencerStopping, disabling, taken,
                   shutdownStage, accepted, excepted>>

SendException ==
    /\ loop = "refused"
    /\ loop' = "wait"
    /\ excepted' = excepted \cup {taken}
    /\ UNCHANGED <<vars, receivingQueue, sequencerEnabled, sequencerStopping, disabling,
                   taken, shutdownStage, accepted, dropped>>

-----------------------------------------------------------------------------
(***************************************************************************)
(* The owner's calls.  setDialogRequestId() goes to the processor without  *)
(* the sequencer's mutex.                                                  *)
(***************************************************************************)
SequencerSetDialogRequestId(id) ==
    /\ shutdownStage # "done"
    /\ SetDialogRequestId(id)
    /\ UNCHANGED sequencer

BeginDisable ==
    /\ ~disabling /\ shutdownStage # "done"
    /\ sequencerEnabled' = FALSE
    /\ disabling' = TRUE
    /\ IF dialogRequestId = NoDialog THEN MutexFree /\ UNCHANGED vars
       ELSE SetDialogRequestId(NoDialog)
    /\ UNCHANGED <<receivingQueue, sequencerStopping, loop, taken, shutdownStage,
                   accepted, excepted, dropped>>

\* Mutant: the processor is not told.
DisableNothing == UNCHANGED vars

DisableProcessor == Disable

EndDisable ==
    /\ disabling
    /\ DisableProcessor
    /\ disabling' = FALSE
    /\ loop' = LoopNotified
    /\ UNCHANGED <<receivingQueue, sequencerEnabled, sequencerStopping, taken, shutdownStage,
                   accepted, excepted, dropped>>

SequencerEnable ==
    /\ ~disabling /\ shutdownStage # "done"
    /\ Enable
    /\ sequencerEnabled' = TRUE
    /\ loop' = LoopNotified
    /\ UNCHANGED <<receivingQueue, sequencerStopping, disabling, taken, shutdownStage,
                   accepted, excepted, dropped>>

-----------------------------------------------------------------------------
(***************************************************************************)
(* doShutdown()                                                            *)
(***************************************************************************)
StopReceiving ==
    /\ ~disabling
    /\ shutdownStage = "none"
    /\ sequencerStopping' = TRUE
    /\ loop' = LoopNotified
    /\ shutdownStage' = "joining"
    /\ UNCHANGED <<vars, receivingQueue, sequencerEnabled, disabling, taken, accepted, excepted,
                   dropped>>

\* Mutant: the receiving thread is not joined.
ReceivingLeft == TRUE

ReceivingEnded == loop = "exited"

JoinReceiving ==
    /\ shutdownStage = "joining"
    /\ ReceivingEnded
    /\ shutdownStage' = "processor"
    /\ UNCHANGED <<vars, receivingQueue, sequencerEnabled, sequencerStopping, disabling, loop,
                   taken, accepted, excepted, dropped>>

StopProcessor ==
    /\ shutdownStage = "processor"
    /\ Unregister \/ BeginShutdown \/ Join
    /\ shutdownStage' = IF joined' THEN "router" ELSE "processor"
    /\ UNCHANGED <<receivingQueue, sequencerEnabled, sequencerStopping, disabling, loop,
                   taken, accepted, excepted, dropped>>

\* The router is shut down and m_exceptionSender is reset.
EndSequencerShutdown ==
    /\ shutdownStage = "router"
    /\ shutdownStage' = "done"
    /\ UNCHANGED <<vars, receivingQueue, sequencerEnabled, sequencerStopping, disabling, loop,
                   taken, accepted, excepted, dropped>>

ShutdownProceeds == JoinReceiving \/ StopProcessor \/ EndSequencerShutdown

-----------------------------------------------------------------------------
ReceivingLoop == EvaluateReceiving \/ PassDirective \/ SendException

\* The processing thread and the handlers, as in DirectiveProcessor.
ProcessorSteps ==
    /\ ProcessingThread \/ SpuriousWakeup \/ \E d \in Directive : Handler(d)
    /\ UNCHANGED sequencer

SequencerNext ==
    \/ \E d \in Directive : ReceiveDirective(d)
    \/ ReceivingLoop \/ SpuriousReceiving
    \/ \E id \in DialogId \cup {NoDialog} : SequencerSetDialogRequestId(id)
    \/ BeginDisable \/ EndDisable \/ SequencerEnable
    \/ StopReceiving \/ ShutdownProceeds
    \/ ProcessorSteps

SequencerSpec == SequencerInit /\ [][SequencerNext]_sequencerVars

\* Threads run, the calls on the handlers return, the handlers report (as in
\* DirectiveProcessor), and the calls of the owner come to their end once they
\* have begun.
SequencerFairness ==
    /\ WF_sequencerVars(ReceivingLoop)
    /\ WF_sequencerVars(ProcessingThread /\ UNCHANGED sequencer)
    /\ \A d \in Directive : WF_sequencerVars(HandlerFinishes(d) /\ UNCHANGED sequencer)
    /\ WF_sequencerVars(EndDisable)
    /\ WF_sequencerVars(ShutdownProceeds)

FairSequencerSpec == SequencerSpec /\ SequencerFairness

-----------------------------------------------------------------------------
\* The values that each variable takes.
SequencerTypeOK ==
    /\ TypeOK
    /\ receivingQueue \in Seq(Directive) /\ accepted \in Seq(Directive)
    /\ sequencerEnabled \in BOOLEAN /\ sequencerStopping \in BOOLEAN /\ disabling \in BOOLEAN
    /\ loop \in {"wait", "asleep", "taken", "receiving", "refused", "exited"}
    /\ taken \in Directive \cup {None}
    /\ shutdownStage \in {"none", "joining", "processor", "router", "done"}
    /\ excepted \subseteq Directive /\ dropped \subseteq Directive

(***************************************************************************)
(* Safety.                                                                 *)
(***************************************************************************)
\* From end to end: the handling queue is filled in the order of acceptance,
\* whatever was dropped or refused in between (DirectiveSequencerInterface.h:
\* "processed in the order that they are received").
QueuedInOrder ==
    \A i, j \in DOMAIN arrived :
        i < j => \E k, l \in DOMAIN accepted :
                     /\ k < l
                     /\ accepted[k] = arrived[i].directive
                     /\ accepted[l] = arrived[j].directive

\* The receiving thread never sleeps while there is something to receive or a
\* shutdown waits for it.
NoReceivingLost == loop = "asleep" => ~WakeReceiving

\* Sequencer and processor agree on being enabled whenever m_mutex is free,
\* although anyone may change the processor's dialog in between.
EnabledTogether == ~disabling => sequencerEnabled = isEnabled

\* AVS is told that a directive is unsupported only if no handler was given it:
\* never one that a handler got, be it cancelled or failed by then.
ExceptionMeansUnhandled ==
    \A d \in excepted : result[d] = "none" /\ ~HasBeen(d, "handle")

\* The processor is done with a directive that no handler took: it was disabled or
\* stopping when the directive came, it found no handler, though perhaps only after
\* a cancellation, or the directive was of an old dialog.  Those of an old dialog are
\* dropped in silence, and no others: AVS gets an exception for each of these.
RefusalsAreAnswered ==
    \A d \in offered : result[d] = "none" /\ receiving.directive # d =>
        (d \notin dropped <=> d \in excepted \/ (loop = "refused" /\ taken = d))

\* While m_exceptionSender is reset, and the router shut down, no thread is on
\* its way to either: the two joins come first.
ShutdownLeavesNobody ==
    shutdownStage \in {"router", "done"} =>
        /\ loop = "exited" /\ pc = "exited" /\ receiving = Idle
        /\ handlingQueue = {} /\ cancelingQueue = <<>>

(***************************************************************************)
(* Liveness, under FairSequencerSpec.                                      *)
(***************************************************************************)
\* Every directive that onDirective() accepted reaches the processor, unless
\* the sequencer is shut down.
AcceptedIsPassedOn ==
    \A d \in Directive : d \in Range(accepted) ~> d \in offered \/ sequencerStopping

\* shutdown() of the sequencer returns.
SequencerShutdownEnds == sequencerStopping ~> shutdownStage = "done"
=============================================================================
