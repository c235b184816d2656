# Verification of the Alexa Voice Service Device SDK

The repository is a C++ SDK for devices that speak to the Alexa Voice Service
(AVS). AVS sends *directives*, the device sends *events*; the SDK routes the
directives to *capability agents*, arbitrates who may use the speaker and the
screen, keeps and reports device state, and maintains the connection. Nearly
every class has a mutex, a worker thread or an executor, and calls back into
its clients, so what goes wrong in it goes wrong between threads.

This directory holds TLA+ models of parts of it, the TLC configurations that
check them, and proofs that TLAPS checks. `PROJECT.json` maps every definition
to the lines it translates and lists the runs, the mutants, the hazards and the
theorems.

## 1. Inventory

Paths are relative to `src/`. *Modelled* components are described in section 3.

| Component | State | Operations and interactions | What is hard | What makes it correct |
|---|---|---|---|---|
| **DirectiveProcessor** (`ADSL/`) — modelled | current dialogRequestId, the directive being pre-handled, handling queue, holders of the mediums, canceling queue, enabled / stopping flags | `onDirective()` from the sequencer's receiving thread; `processingLoop()` on a thread of its own; results from the handlers' threads; `setDialogRequestId()`, `disable()`, `enable()`, `shutdown()` from the owner. Calls the router without its mutex | four parties, calls made between two critical sections, one condition variable | only the current dialog is worked on; order per medium; nothing is forgotten; a stopped processor is quiet |
| **DirectiveRouter** (`ADSL/`) — modelled | routing rules, reference count per handler, two mutexes | `addDirectiveHandler()`, `removeDirectiveHandler()`, four kinds of calls on handlers, `shutdown()` | a handler is removed while it is called; lock order | counts equal uses; all rules of a handler or none; most specific rule wins; `onDeregistered()` is the last call |
| **DirectiveSequencer** (`ADSL/`) — modelled | receiving queue, two flags, receiving thread | `onDirective()` from the network thread; forwards to processor and router; answers AVS with an exception | two condition variables and two mutexes in a row; orderly shutdown | order end to end; nothing is stuck; an exception only for what no handler got |
| MessageInterpreter (`ADSL/`) | none | parses a message, hands the directive to the sequencer | – | – |
| **Audio focus**: FocusManager, Channel (`AFML/`) — partly | active channels, activities per channel, patience timers | acquire / release / stop on any thread, executed on one executor; observers told of focus changes; patience timer callback | the executor's view against unlocked reads (`FocusManager.cpp:147,463`); a timer stopped under the mutex its callback takes (`Channel.cpp:260`) | one channel in the foreground, the highest active one; everybody is told where it stands; the second place ends |
| Activity trackers (`AFML/`), InterruptModel (`InterruptModel/`) | a list of updates; a configuration | told of focus changes; table look-up for the FocusManager | – | – |
| **CertifiedSender** (`CertifiedSender/`) — modelled | persisted queue, its copy in memory, the message being sent, connection state | callers enqueue through an executor; a thread sends one message at a time and retries; answers come from ACL | crash between acknowledgement and erasure; `clearData()` while a message is in flight | each message is sent at least once, in order, across restarts |
| **ContextManager** (`ContextManager/`) — modelled | cached states, pending requests with tokens and timers | requesters, state providers and timers on different threads | a late answer against the timeout; a provider removed meanwhile | every request is answered exactly once, with the states of this request |
| **ACL routing**: MessageRouter, MessageRequestQueue (`ACL/`) — modelled | transports, active transport, status, one queue of requests with one flag for the serialized ones | enable / disable / setAVSGateway / sendMessage / shutdown; transports call back; observer told on an executor | several transports alive at once; status changes reported in order; a grace period after a server-side disconnect | one transport takes messages; serialized messages one at a time; the observer knows the status; nothing is left at the end |
| **ACL transport**: HTTP2Transport — partly; MessageRequestHandler, PingHandler, DownchannelHandler, PostConnectSequencer (`ACL/`) | connection state, streams in flight | main loop on a thread of its own; callbacks of the HTTP/2 library | reconnect, time-outs, cancellation | every accepted request is completed; the state machine has a handler for every state |
| AVSConnectionManager (`ACL/`) | observers, enabled flag | passes its calls on to the MessageRouter and the status on to its observers | – | – |
| **Executor, TaskThread, TimerDelegate** (`AVSCommon/Utils/`) | task queue, thread, generation | `submit()`, `shutdown()`; timer start / stop / callback | the thread retires while a task is submitted; `stop()` from inside the callback | tasks in order, each once; nothing runs after `shutdown()` |
| **SharedDataStream** (`AVSCommon/Utils/include/AVSCommon/Utils/SDS/`) | ring buffer with cursors of one writer and several readers | read, write, seek, close | wrap-around, overrun, memory order | a reader never sees overwritten data as valid |
| AttachmentManager (`AVSCommon/AVS/`) | attachments and their readers / writers | create on demand, expire | created from two ends | – |
| SynchronizeStateSender, CapabilitiesDelegate, AVSGatewayManager | operations run after connecting | network thread, retries | abort while a retry waits | runs once per connection |
| Capability agents (`CapabilityAgents/`, `capabilities/`) | one state machine each, on one executor | directives and focus in, events out | focus changes out of step with directives | per agent |
| Endpoints, Settings, Storage, Authorization, Metrics, Diagnostics | bookkeeping | one executor each | I/O errors | – |
| Media players, Bluetooth, captions, playlist parser, speech encoder | bindings to libraries | – | – | – |
| Sample applications, `ThirdParty/`, build files | – | – | – | – |

How they interact on the way of a directive: transport → MessageRouter →
AVSConnectionManager → MessageInterpreter → **DirectiveSequencer** →
**DirectiveProcessor** → **DirectiveRouter** → capability agent, which acquires a
channel from the **FocusManager**, reads attachments, and reports the result back to
the DirectiveProcessor. On the way of an event: capability agent →
**CertifiedSender** or directly → **MessageRouter** → **transport**, with the context that
the **ContextManager** collects.

The hazards, each at its line and with the properties that cover it, are in
`PROJECT.json`.

## 2. Plan

| Step | Modules | Purpose | State |
|---|---|---|---|
| 1 | `DirectiveLifecycle` | what a processor promises for each directive: an abstract specification without threads or queues | done |
| 2 | `DirectiveProcessor`, `DirectiveProcessorProofs` | the processor; implements step 1 | done |
| 3 | `RoutingRules`, `DirectiveRouter`, `DirectiveRouterProofs` | the router | done |
| 4 | `DirectiveSequencer`, `DirectiveSequencerProofs` | composition: sequencer and processor | done |
| 5 | `FocusManager`, `FocusManagerProofs` | channels, activities, the executor's queue, patience timers | done but for `modifyContentType()` and the activity trackers |
| 6 | `CertifiedDelivery`, `CertifiedSender`, `CertifiedSenderProofs` | persisted queue with crash and restart; implements at-least-once delivery in order | done |
| 7 | `ContextManager`, `ContextManagerProofs` | requests, timeouts, late answers | done |
| 8 | `MessageRequestQueue`, `MessageRouter`, `HTTP2Transport`, `MessageRouterProofs` | composition: transports that come and go, the router, its observer and the queue they share | done |
| 9 | `TaskThread` / `Executor`, `TimerDelegate` | the substrate that steps 5 to 8 take as it is used: a sequence of tasks, a timer whose `stop()` waits for its callback | left |
| 10 | `SharedDataStream`, the states of `HTTP2Transport` up to POST_CONNECTING, `CapabilitiesDelegate` | see section 5 | left |

Each model has its parameters as `CONSTANTS` with a named assumption, one action
per critical section, and invariants that are conjunctions of named parts, so
that the same definitions are checked and proved about. `LeastNumbers` holds two
facts about sets of numbers that several proofs use.


## 3. What is modelled

A step is one critical section, one call made between two of them, or one event
from outside. Histories (variables no step depends on) are named as such in the
modules. Deadlock checking is off wherever the code may really come to rest: a
component that was shut down has stopped.

### 3.1 DirectiveProcessor

*Granularity.* A step is one critical section of `m_mutex`, one call on the
router made between two of them, or the return from such a call. The critical
sections that the processing thread holds over several steps (`pc` = `cancel` or
`handle`) exclude everybody else's by `MutexFree`. `m_onDirectiveMutex` is the
condition `receiving = Idle`.

| Model | Code |
|---|---|
| `handlingQueue`, a set; `arrived` gives its order | `m_handlingQueue`, a deque that grows at the back and loses items anywhere |
| `directivesBeingHandled`, function from mediums | `m_directivesBeingHandled`, a map; `None` is a missing key |
| `cancelingQueue`, `canceling` | `m_cancelingQueue`, and its swapped-out copy in `processCancelingQueueLocked()` |
| `receiving` | the local variables of `onDirective()` between its two critical sections |
| `registered` | whether `m_handle` is in `m_handleMap`: a result that comes later is ignored |
| `result` | the `DirectiveHandlerResult` of a directive, which reports once |
| `offered`, `arrived`, `trace` | history, for the properties |

The order in which a `std::set` of pointers is listed is arbitrary (`AnyOrder`).
`getPolicy()` and `preHandleDirective()` look the handler up separately, so each
may or may not find it. A spurious wake-up of `wait()` is a step. Directives are
distinct messages, each offered once, and a handler reports once on each result
object (`DirectiveHandlerResultInterface`): the model has no second report.

`DirectiveLifecycle` is the abstract view: every directive goes new →
pre-handling → queued → handling → gone, or is given up and owed a
cancellation; a dialog is given up as a whole, in one step; directives in handling have
disjoint mediums. `ImplementsLifecycle` maps the stage of a directive to the
queue that it is in.

| Run | Instance | Shows |
|---|---|---|
| `processor` | two blocking directives of one dialog, one on the audio medium and one on both, with every call of the owner at any point, and a non-blocking third one of no dialog that comes behind them while the processor is in service; two dialogs (1.26 million states) | `CurrentDialogOnly`, `NoLostWakeup`, `StoppedIsQuiet`, `CallsWellFormed`, `HandledInOrder`, `NoDirectiveForgotten`, and the refinement `ImplementsLifecycle` |

Bounds: two directives are enough for one to be at any stage while the other is
at any other; the third, on the second medium, is what order needs (one holds a
part, one waits for both, one might overtake it). Two dialogs distinguish
"another dialog" from "no dialog". The history `offered` bounds every behaviour,
since each directive is offered once. Liveness is checked in the composition
with the sequencer (3.3).

Where the code departs from its documentation:

- `cancelDirective()` may be called before `preHandleDirective()`, although the
  handler "should not expect to receive further calls" after it: a directive can
  be given up between the first critical section of `onDirective()` and its call
  (`CallsWellFormed` allows that order, and no other irregular one).
- A directive without a handler does not cancel the queued directives of its
  dialog, as `DirectiveProcessor.h` says it does: `onDirective()` returns false
  before anything is scrubbed.
- A directive that uses no medium is not cancelled by a new dialog while it is
  handled: `m_directivesBeingHandled` lists holders of mediums only.
- `DirectiveProcessor.h:110-111` says that `disable()` blocks until all
  processing has completed; it queues the cancellations and returns.

### 3.2 DirectiveRouter

`RoutingRules` is the pure part: a rule is a capability tag with wildcards,
`Matchers` the five lookups in their order, `IsFirstMatch` the loop over them.
`DirectiveRouter` adds the two mutexes (`m_mutex`, and `m_mutex` of
`RequiresShutdown`), each thread's position, the map `configuration` from rules
to handlers, and `referenceCount`. A call on a handler is three steps: look up
and count under the mutex, the call without it, uncount under it. Kinds of calls
(`preHandle`, `handle`, `handleDirectiveImmediately`, `cancel`) take the same path.

| Run | Instance | Shows |
|---|---|---|
| `router` | three handlers whose rules compete and cover all five kinds, two threads doing anything; fair (14,084 states) | `CountIsUse`, `AllRulesOrNone`, `LastWordIsDeregistered`, `RoutedByMostSpecific`, `NothingAddedAfterShutdown`, `ShutdownReleasesHandlers` |
| `router_shutdown_returns` | violation, fair | `addDirectiveHandler()` and `shutdown()` take the two mutexes in opposite orders and wait for each other (`DirectiveRouter.cpp:85`) |

Bounds: two threads, because each hazard is a race of two; three handlers so that
one can take a rule from another while the third is being called. *Fairness*: a
thread inside an operation goes on whenever it can again and again (a mutex is
handed to everybody some day); nothing is assumed of the beginning of operations.

Two remarks. A handler whose configuration is empty is accepted and never heard of
again (no rule, no count), so that `LastWordIsDeregistered` is proved for
handlers with at least one rule. And a handler removed between a thread's look-up
and its call is called after it has heard `onDeregistered()`, and hears it again
when that call ends: `onDeregistered()` is the last call a handler gets, but not
the only `onDeregistered()`.

### 3.3 DirectiveSequencer

Extends `DirectiveProcessor` and replaces its environment: directives come from
`receivingQueue` through the receiving thread (`PassDirective` performs the
processor's own actions), `disable()` is two calls on the processor with the
sequencer's mutex held in between (`disabling`), `doShutdown()` is a sequence of
stages. Only `setDialogRequestId()` reaches the processor without that mutex.
The default build is modelled (`DIALOG_REQUEST_ID_IN_ALL_RESPONSE_DIRECTIVES` is
not defined). The router's shutdown is one step here, since both threads have
ended by then (`ShutdownLeavesNobody`).

| Run | Instance | Shows |
|---|---|---|
| `sequencer` | two directives, one of a dialog and one of none, every call of the owner at any point (1.9 million states) | `QueuedInOrder`, `NoReceivingLost`, `EnabledTogether`, `ExceptionMeansUnhandled`, `RefusalsAreAnswered`, `ShutdownLeavesNobody` |
| `sequencer_live` | in service until it is shut down, the dialog changing before the first directive only; fair | `AcceptedIsPassedOn`, `ArrivalsAreServed`, `CancellationsAreDelivered`, `SequencerShutdownEnds` |

*Fairness* (`SequencerFairness`): both threads run; calls on a handler return
("MUST return quickly", `DirectiveHandlerInterface.h`); `disable()` and
`shutdown()` go on once they have begun; a handler whose `handleDirective()` was
called reports some day. The last is needed only by `ArrivalsAreServed`: a
handler that never reports blocks its medium for good, in the code as in the
model. Nothing is assumed of arriving directives or of the owner's other calls.

`RefusalsAreAnswered` is about every directive that the processor is done with and
no handler took: refused at once (disabled or stopping), pre-handled in vain, or
dropped as of an old dialog (`dropped`, a history variable). The last are silent, and
only they.

What the model made plain, and the documentation does not settle: a directive that
waits in the receiving queue when `disable()` is called is refused when it
reaches the processor, and AVS is told "Unsupported operation"; one that still waits at
`shutdown()` is dropped without a word.

### 3.4 CertifiedSender

`CertifiedDelivery` is the promise of `CertifiedSender.h` without threads,
storage or crashes: what was accepted is kept until it is answered for good or
the customer's data are cleared, and is sent in the order of acceptance, perhaps
more than once. `CertifiedSender` is the class with its `SQLiteMessageStorage`:
the rows (`storage`), the copy in memory (`queue`), the worker (`pc`), the
request in flight (`current`, `answer`), and the process itself, which crashes,
ends in good order or starts again at any step and keeps only `storage`.

The identifier of a row is chosen by the storage, the largest one plus one: once
the rows are gone an identifier comes back. That matters. `clearData()` empties
queue and storage while the worker waits for an answer; a message accepted
meanwhile gets the identifier of the one in flight, and is erased and popped in
its place when the answer comes (`CertifiedSender.cpp:301`). The run
`certified_clear_loses` finds that loss under `Spec`. `OrderlySpec` is the same
but for one assumption, that the data are cleared only while no message is in
flight; under it everything holds, and everything is proved (section 4).

| Run | Instance | Shows |
|---|---|---|
| `certified_sender` | `FairOrderlySpec`: four messages, one end of the process, one failing query, a hard limit of 3 and a database limit of 2 | `AcceptedIsKept`, `InFlightIsFirst`, `ImplementsDelivery`, `AcceptedIsHandled` |
| `certified_clear_loses` | violation, `Spec` | `AcceptedIsKept` is lost by `clearData()` with a message in flight |

Bounds: four messages reach both limits and let one come while another is erased;
one restart falls at every point of a message's life; one fault fails
each query once. *Fairness*: the worker runs, and takes a message if it can again
and again; the `MessageSender` answers every request and does not ask for a retry for
ever; the connection comes back; the application is started again.

Opening the storage erases the rows above an age and a number (`expired`): the
only messages that are given up. A remark: `init()` queues nothing at all when
the storage holds more messages than the hard limit (`CertifiedSender.cpp:187`);
by default the storage allows no more than that, and the model assumes so
(`SizeLimit \in 1..HardLimit`).

### 3.5 ContextManager

`info` is the map of states and providers of one endpoint, `pendingRequests` and
`pendingStates` the two maps of requests, `tasks` the executor's queue, `armed`
the tasks of the `MultiTimer`. The task of a request is two steps, since it arms
its timer (`arming`) before it locks `m_requestsMutex`. Providers answer late,
twice or never, legacy providers with every kind of refresh policy; `destroyed`
is the end of the manager with its executor.

| Run | Instance | Shows |
|---|---|---|
| `context_manager` | two requests, a legacy and a new provider, two replies and one change of the providers or reported change; timer tokens start at 0, as in the code; fair | `AnsweredIsForgotten`, `OnlyTimerZeroIsLost`, `ContextHoldsWhatWasAsked`, `EveryRequestIsAnswered` |
| `context_cancels_timer` | violation, of `PendingWillTimeOut` | a late task for one request cancels the timer of another one (`ContextManager.cpp:437`) |

Bounds: two requests are what it takes for one to disturb the other; two replies
let a provider answer both or one of them twice; one change falls
between any two steps. *Fairness*: the executor runs and timers fire. Providers need not reply, which
is what the timers are for.

The finding: `m_pendingRequests[token]` enters an empty tracker for a request that
was answered already, whose timer token is 0; cancelling that token cancels the
first timer ever made, which belongs to the first request. That request may then
wait for ever, if its providers are silent. `OnlyTimerZeroIsLost` and
`EveryRequestIsAnswered` except this case, the request whose timer has the token 0
and was cancelled (`HasLostTimer`), and no other. `FirstTimer` is a constant to tell
the cause: that no timer is lost when the tokens begin with another number is the
corollary `NoTimerIsLost`, which says nothing of the code as it is.

Remarks: `m_endpointsState` is written under its mutex and read without it
(`ContextManager.cpp:301`, `492`), which the model takes as atomic accesses; the
requester is called with `m_requestsMutex` held although the comment says "outside
the lock" (`417`); `~ContextManager()` leaves tasks with `this` in the
shared `MultiTimer`.

### 3.6 FocusManager

The executor runs one task at a time as a list of steps (`todo`): a critical
section of `Channel::m_mutex` or `FocusManager::m_mutex`, or one notification
of an observer. `told` is what each activity heard last. A patience timer is
waiting, or on its way to its callback, which removes the activity in second
place under the channel's mutex while the executor goes on.

| Run | Instance | Shows |
|---|---|---|
| `focus` | two channels, four activities (a dialog; music, and two patient ones of which one has the music's interface), each acquired and released once, one call that stops activities, patience running out at any time | `OneForegroundChannel`, `IdleIsSettled`, `LeftIsTold`, `SecondPlaceEnds`, `StoppedIsGone` |

Bounds: a channel above and one below are what a change of the foreground needs; on
the lower one three activities, one that is in possession, one that comes with patience and one
that comes while the first is in second place. The interrupt model is a constant table (`Mixing`). Deadlock checking is off:
the system stops, and see the first remark.

Remarks, each a behaviour of the model:

- The executor stops a patience timer with `Channel::m_mutex` held, and `stop()`
  joins the timer's thread, whose callback waits for that mutex
  (`Channel.cpp:260`, `322`, `346`; `TimerDelegate.cpp:133`): both wait for ever.
  In the model that is `stuck`, and the properties about a settled state say so.
- The timer may remove an activity between the copy that
  `notifyActivities()` makes and its calls, which then say BACKGROUND to an
  activity that was told NONE. `LeftIsTold` says how far this goes: such an
  activity (`late`, a history variable) hears that it is to pause, once, and is one
  that may have had the second place; all others that left heard NONE, and nothing
  since.
- The timer is active until its thread ends, so that the removal in its callback
  stops it, from its own thread (`Channel.cpp:258`, `TimerDelegate.cpp:85`), and
  clears initiator and receiver.
- When a patient activity is replaced by one of its own interface, the one in
  second place stays there without a timer (`WasReplaced` in `SecondPlaceEnds`).
- `stopAllActivities()` records one interface per channel, as its container is a
  `std::map` (`FocusManager.h:168`, `FocusManager.cpp:156`), and reads
  `m_activeChannels` without the mutex (`147`).
- With an interrupt model that answers UNDEFINED a new background activity
  is never told anything.
- `modifyContentType()` runs on its caller's thread (`FocusManager.cpp:452-475`);
  it is not modelled.

### 3.7 MessageRouter, its queue and its transports

`MessageRequestQueue` is the shared queue with its one flag for serialized
requests. `MessageRouter` has one operator per handler of the class, on a record
of what `m_connectionMutex` guards (`router`), each giving the record after the
call with the notifications it submits. `HTTP2Transport` composes it with the main loop of each transport from POST_CONNECTING
on, the network, the executor that runs the notifications (`reporter`), and the
grace timer. `disconnectAllTransportsLocked()` releases the mutex around each
`shutdown()`, so that it is several steps of its `caller`.

| Run | Instance | Shows |
|---|---|---|
| `message_router` | two callers, two calls, three transports that connect, fail and are disconnected at any time; two messages after one call, one when calls overlap, none with the third transport in use; symmetry in messages and callers (2.3 million states) | `ReportedIsCurrent`, `OnePuller`, `ShutdownLeavesNothing`, `SerializedOneAtATime` |
| `old_transport_cut` | violation | a transport that the server disconnects shuts down at once, with a message unfinished, although the router leaves it alive for a grace period |

Bounds: the second transport is the one that replaces the first, the third the
one that comes while the second is not connected yet; calls that overlap need
two callers and leave the queue alone, so that one message is enough there.

Assumptions: no call begins after `shutdown()` has; `setAVSGateway()` comes with a
new gateway; `createTransport()` may fail. Peeking at the queue and taking from
it, and taking and sending, are one step each, which `OnePuller` justifies. Left
out: `MAX_MESSAGE_HANDLERS`, the queue used while POST_CONNECTING, pings (their failures
are events), and `safelyReleaseTransport()`.

`OnePuller` and `SerializedOneAtATime` are about calls that do not overlap, and
messages whose flag no other transport has cleared (`overlapped`, `flagLost`);
the remarks say what happens otherwise.

- After a change of the gateway the status stays DISCONNECTED while the new transport connects; if
  that one is lost, `onDisconnected()` returns without creating another, though
  `MessageRouter.h:228` says that "any disconnect should automatically trigger a
  reconnect".
- An older grace period's task can cut a second one short.
- Overlapping calls of `setAVSGateway()` or `enable()` leave two transports that
  both take from the queue.
- `handleShutdown()` of an old transport, or a late answer on it, clears the
  flag that all transports share (`HTTP2Transport.cpp:812`, `585`), and a second
  serialized message is sent before the first is acknowledged, against
  `MessageRequest.h:156`. The proof found that case; it takes three messages.
- When the active transport is lost for good while an old one is still listed,
  the status stays CONNECTED or PENDING for ever (`MessageRouter.cpp:255-260`).
- `doShutdown()` shuts the executor down, which may drop the DISCONNECTED
  notification that `MessageRouterTest` expects.
- `disable()` leaves queued requests where they are.

## 4. What is proved

TLAPS checks these for any sets of directives, dialogs, policies, handlers,
rules, threads, messages, capabilities and transports, and any bounds, under the
assumption that each module names.

**Processor** (`DirectiveProcessorProofs`)

- `TypeCorrect`: `TypeOK` is inductive by itself. It includes that the handling
  queue is finite, which listing it for cancellation needs.
- `DialogSafety`: `CurrentDialogOnly`. The invariant adds `PreHandledIsReceived`
  (the directive being pre-handled is the one inside `onDirective()`), without which a
  directive could be queued that is not the one whose dialog was checked.
  The argument is one lemma, `LiveStep`: a live directive was live before the
  step, or has just been accepted; and what a scrub leaves is not of the
  scrubbed dialog.
- `NoWakeupIsLost`: `NoLostWakeup`. A step that makes the predicate true
  notifies. The case that takes work is a report: it notifies only when
  a queue is left non-empty, and one shows that otherwise the predicate is false.
- `StopIsQuiet`: `StoppedIsQuiet`. Needs `PassInv`: a pass that released the
  mutex is marked as having made progress, and one without progress has found the
  canceling queue empty and left it so; that is why the thread cannot exit with
  something left to cancel.
- `NothingIsForgotten` and `HandlingIsInOrder`: `NoDirectiveForgotten` and
  `HandledInOrder`. `ServiceInv` adds `ItemInv` (each directive is queued once)
  and `ThreadInv` (what the processing thread has in hand). An unsettled
  directive stays where it is in every step that does not take it or free its
  mediums; while `handleDirective()` lasts its directive alone holds
  its mediums; and an item is not taken while an earlier conflicting one is
  queued or holds a medium, which `OrderInv` carries on.
- `CallsAreWellFormed`: `CallsWellFormed`. `CallInv`: a directive is live in one
  way at a time; what is given up was live, is so no more, and is listed once;
  and the calls it has had tell where it is.
- `ProcessorImplementsLifecycle`: `ImplementsLifecycle`. `LifeInv` adds `HoldsAll`
  to `CallInv`: a directive that holds a medium holds all those of the policy it was
  queued with, and no other. Each directive is then in exactly the place that its
  stage names (`StageIsPlace`), and each operation is shown to be one step of
  `DirectiveLifecycle`, or none. The delicate ones are `setFailed()` and a
  rejection, which must give up the rest of the dialog in the very step in which
  they finish their own directive, and the report of a directive that is already
  being cancelled.

**Router** (`DirectiveRouterProofs`): `TypeCorrect`, `RoutingIsMostSpecific`,
`RegistrationIsAllOrNone`, `ShutdownIsFinal`, `CountsAreUses` and
`LastWordIsReported`. The core is `CountsAreUses`: a handler's count is the
number of its rules in the configuration plus the number of threads that are
calling it, which takes lemmas about the cardinality of these sets when one
rule or thread is added or removed. That a count never goes below zero follows,
and so does that the user who finds zero is the last.

**Sequencer** (`DirectiveSequencerProofs`): `SequencerImplementsProcessor`
(every behaviour of the sequencer is one of the processor, so that the theorems
above hold inside it), `SequencerTypeCorrect`, `NoReceivingIsLost`,
`FlagsAgree`, `ShutdownIsOrderly`, `QueueingIsInOrder`, `ExceptionsAreUnhandled`
and `EveryRefusalIsAnswered`. `ShutdownIsOrderly` combines both joins with
`StopIsQuiet`: `StageInv` says what each stage of `doShutdown()` has waited for
and that it stays so. `OrderOfQueue` ties the three sequences together: the
receiving queue is what is left of the accepted directives, the one inside
`processor.onDirective()` is the last that was dequeued, and what is queued for
handling was dequeued before it. `AnswerInv` says that a queued directive has had a
result object and an answered one has not, that neither changes, and that a directive
without a result that the processor is done with is answered or dropped, not both.

**CertifiedSender** (`CertifiedSenderProofs`), all under `OrderlySpec`:
`SenderTypeCorrect`, `NoMessageIsLost`, `AnswersMatch`
and `SenderImplementsDelivery`, the refinement of `CertifiedDelivery`. The
invariant: identifiers and messages grow together in the storage; the queue
lists rows of the storage in their order; and the message in flight is the head
of the queue. It is the last one that
`clearData()` breaks when it comes at the wrong time.

**ContextManager** (`ContextManagerProofs`): `ContextTypeCorrect`,
`AnsweredOnceAndForgotten`, `TimeOutIsAhead` (`OnlyTimerZeroIsLost`, for every
`FirstTimer`) and `ContextIsComplete`. The lemma `Steps` says that every step is one of a few shapes
(a request is entered, settled, or answered, or one state is replaced), so that
each invariant is looked at once per shape. `RequestInv`: nothing is kept for a
request before it is entered, and a timer belongs to one request. `OwedInv`: a
state that is owed and no longer awaited is one that goes into the context.

**MessageRouter** (`MessageRouterProofs`): `ConnectionTypeCorrect`, `OnlyOnePulls`,
`NothingIsLeft`, `SerializedAreSentInTurn` and `ObserverIsUpToDate`, for the
composition of router, queue, transports and executor. `StructInv` says where
main loops, listed transports and callers may be, `MessageInv` on which
transport a message is and what the flag means for it. The argument about the observer
is that the last notification submitted carries the current status, and
the executor keeps their order.

**FocusManager** (`FocusManagerProofs`): `FocusTypeCorrect`,
`ForegroundIsOneChannel`, `RestIsSettled`, `WhoLeftIsTold`,
`SecondPlaceIsAPatience` and `StoppedAreGone`, from one invariant, `IInv`, for any
channels, activities, interfaces and interrupt model. The properties speak of an idle executor or of what the observers
know, and a task is a sequence of steps of varying length, so that nothing
holds step by step. `IInv` says of every state what the steps still to
do make up for:

- `Ordered`, `Phased`: the steps of a task come in the order of their ranks
  (notifications before all others, one at most of an activity, the foreground
  last), and those that may
  empty a channel are never mixed with those that follow an acquisition. This is
  what is known of the rest of a task when one of its steps is done.
- `Waiting`, `Known`: an activity that waits to be attached is on no channel and
  has heard nothing; one that was acquired waits, or is on a channel, or has heard.
- `Active`, `StepsAreRight`, `Settling`: the active channels are those with
  activities but for what a step will attach or deactivate; a step that sets a
  focus sets the right one for the channels as they are, although the timer's thread
  removes activities in between; a channel that no step will see to is settled.
- `SecondsPause`: those behind the first have been told to pause, or will be, or
  the first is so new that it has heard nothing. Without it, removing the first
  would leave an activity that was told something else.
- `ForegroundIsOne` adds to the property that the notification still to come names
  the channel of those who are in the foreground: it is by the ranks that the
  others have left it by then.
- `StopsFirst`, `StopsReach`: stops overtake what waits and nothing overtakes
  them, and an activity to be stopped is the first of its interface, so that
  `getActivity()` finds it and not one that came later.
- `Left`: one that left and was told something since is in `late`, off its channel, and
  no notification for it is still to come (`StepsAreRight`, and `Ordered`, which lets a
  task notify nobody twice).
- `Placed`, `Told`, `Patiently`, `SecondsMayWait`: who is on which channel, once, and whom
  a patience that runs is for.

TLC has found `IInv` to hold on the instance of the run `focus` before it was
proved. It found one thing that the proof needed: as first stated,
`IdleIsSettled` required of a background channel the behavior that it owes to
the present foreground activity, which two activities on the foreground channel
refute (see the remarks of 3.6). The proof has one lemma for each
action, named after it (`AttachActivityKeeps`, ...), on top of lemmas about the
operators (`WithoutIs`, `NthEnumerates`, `ToBackgroundIs`), about a
departure or an arrival on a channel (`Departure`, `Arrival`), and about the
state between two tasks (`BetweenTasks`).

`LeastNumbers` has two facts about sets of numbers that the proofs share.

**Only model-checked.** Liveness under fairness, which involves `ENABLED` and is
not within TLAPS's reach: `ShutdownReleasesHandlers`, `AcceptedIsPassedOn`,
`ArrivalsAreServed`, `CancellationsAreDelivered`, `SequencerShutdownEnds`,
`AcceptedIsHandled`, `EveryRequestIsAnswered`.

## 5. What is not modelled, and why

- *The substrate* (step 9): Executor, TaskThread, TimerDelegate and MultiTimer
  are taken as they are used: tasks in order, each once, one timer per token,
  and a `stop()` that waits for the callback.
- *SharedDataStream* (step 10): its correctness is a matter of memory order
  between two cursors of one ring buffer, below what TLA+ steps express
  without a model of the memory.
- *HTTP2Transport up to POST_CONNECTING*, pings, the handlers of a single stream,
  PostConnectSequencer, AVSGatewayManager, CapabilitiesDelegate: their failures
  reach the modelled part as events; the retries behind them are not
  modelled.
- *`modifyContentType()`* and the activity trackers.
- *Capability agents*, endpoints, settings, storage, authorization, metrics,
  diagnostics: clients of what is modelled. They make up most of the C++ code;
  each is a state machine of its own on one executor.
- *Formats and parsing* (MessageInterpreter, playlist parser, captions),
  *bindings* to libraries (GStreamer, BlueZ, libcurl, SQLite), logging and power
  resources, audio data, the sample applications and `ThirdParty/`.
- Inside the modelled components: null arguments, which are rejected without a
  trace, and the getters.

So the models cover the core in which threads meet, and a small share of the
repository's lines.

Mutants (`PROJECT.json`): each property is broken by a plausible bug in a
definition it depends on; the mutated forms stand next to the originals,
marked `Mutant`.
