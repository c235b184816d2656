------------------------------ MODULE FocusManager ------------------------------
(***************************************************************************)
(* The FocusManager and its Channels: who may be seen or heard.            *)
(*                                                                         *)
(* Calls put a task in the executor's queue; the executor runs one task at *)
(* a time, as a sequence of steps (todo).  A step is a critical section of *)
(* a mutex, or one notification, which is made outside of all of them but  *)
(* for the one of an activity that is removed.  A channel has at most one  *)
(* patience timer, whose thread removes an activity under the channel's    *)
(* mutex while the executor goes on.                                       *)
(*                                                                         *)
(* A channel is its priority, 1 being the highest.  The observer of an     *)
(* activity is one with its interface: a capability agent gives both.      *)
(***************************************************************************)
EXTENDS Naturals, SequencesExt

CONSTANTS
    Channel,        \* the priorities of the channels
    Activity,       \* the activities: each is acquired and released once
    ChannelOf,      \* the channel that an activity is acquired on
    InterfaceOf,    \* its interface
    Patient,        \* those that have a patience duration
    Mixing,         \* the interrupt model: of a lower and a higher activity
    None,           \* no activity
    MaxStops        \* bound: calls of the two functions that stop activities

Behavior == {"UNDEFINED", "PRIMARY", "MAY_DUCK", "MUST_PAUSE", "MUST_STOP"}

FocusState == {"FOREGROUND", "BACKGROUND", "NONE"}

ASSUME FocusAssumption ==
    /\ Channel \subseteq Nat /\ IsFiniteSet(Channel)
    /\ ChannelOf \in [Activity -> Channel]
    /\ InterfaceOf \in [Activity -> STRING]
    /\ Patient \subseteq Activity
    /\ Mixing \in [Activity \X Activity -> {"MAY_DUCK", "MUST_PAUSE"}]
    /\ None \notin Activity
    /\ MaxStops \in Nat

VARIABLES
    tasks,              \* the executor's queue
    todo,               \* the steps left of the task that it runs
    activeChannels,     \* m_activeChannels
    activities,         \* m_activities of each channel, the primary one first
    focus,              \* m_state.focusState of each channel
    told,               \* what each activity's observer was last told
    timer,              \* m_patienceTimer: waiting, or on its way to the callback
    initiator,          \* m_patienceInitiator of each channel
    receiver,           \* m_patienceReceiver, and what the timer will remove
    stuck,              \* the executor waits for this channel's timer thread
    late,               \* history: those that were told something when they had left
    acquired,           \* the activities that acquireChannel() was called for
    released,           \* the activities that releaseChannel() was called for
    stopped,            \* those that came first when all were to be stopped
    stops               \* number of stops

executor == <<tasks, todo>>
patience == <<timer, initiator, receiver>>
channels == <<activities, focus, patience>>
clients  == <<acquired, released, stopped, stops>>

observers == <<told, late>>

vars == <<executor, activeChannels, channels, observers, stuck, clients>>

Untold == [focus |-> "NONE", behavior |-> "UNDEFINED"]

Init ==
    /\ tasks = <<>> /\ todo = <<>>
    /\ activeChannels = {}
    /\ activities = [c \in Channel |-> <<>>]
    /\ focus = [c \in Channel |-> "NONE"]
    /\ told = [a \in Activity |-> Untold]
    /\ timer = [c \in Channel |-> "off"]
    /\ initiator = [c \in Channel |-> None]
    /\ receiver = [c \in Channel |-> None]
    /\ stuck = {} /\ late = {}
    /\ acquired = {} /\ released = {} /\ stopped = {} /\ stops = 0

\* The k-th smallest number of a set.
Nth(S, k) == CHOOSE m \in S : Cardinality({x \in S : x < m}) = k - 1

OnChannels == UNION {Range(activities[c]) : c \in Channel}

\* getHighestPriorityActiveChannelLocked()
Highest == Min(activeChannels)

Interfaces(c) == [i \in DOMAIN activities[c] |-> InterfaceOf[activities[c][i]]]

\* m_state.interfaceName
Interface(c) == IF activities[c] = <<>> THEN "" ELSE Head(Interfaces(c))

-----------------------------------------------------------------------------
(***************************************************************************)
(* Calls.                                                                  *)
(***************************************************************************)
AcquireChannel(a) ==
    /\ a \notin acquired
    /\ acquired' = acquired \cup {a}
    /\ tasks' = Append(tasks, [op |-> "acquire", activity |-> a])
    /\ UNCHANGED <<todo, activeChannels, channels, observers, stuck, released, stopped, stops>>

ReleaseChannel(a) ==
    /\ a \in acquired \ released
    /\ released' = released \cup {a}
    /\ tasks' = Append(tasks, [op |-> "release", channel |-> ChannelOf[a],
                               interface |-> InterfaceOf[a]])
    /\ UNCHANGED <<todo, activeChannels, channels, observers, stuck, acquired, stopped, stops>>

\* The two stops overtake the tasks that wait.
Stop(task) ==
    /\ stops < MaxStops
    /\ activeChannels # {}
    /\ stuck = {}
    /\ stops' = stops + 1
    /\ tasks' = <<task>> \o tasks
    /\ UNCHANGED <<todo, activeChannels, channels, observers, stuck, acquired, released>>

StopForegroundActivity ==
    /\ Stop([op |-> "stop", channel |-> Highest, interface |-> Interface(Highest)])
    /\ UNCHANGED stopped

\* channelOwnersCapture is a std::map: insert() keeps one interface of a channel.
\* Mutant: the one that is inserted last.
LastCaptured(c) == Interfaces(c)[Len(activities[c])]

Captured(c) == Head(Interfaces(c))

Owned == {c \in activeChannels : activities[c] # <<>>}

StopAllActivities ==
    /\ Stop([op |-> "stopAll", owners |-> [c \in Owned |-> Captured(c)]])
    /\ stopped' = stopped \cup {Head(activities[c]) : c \in Owned}

-----------------------------------------------------------------------------
(***************************************************************************)
(* Channel: the activities on it and the patience timer.                   *)
(***************************************************************************)
\* Stopping a timer means to wait for its thread.  If that is past the wait,
\* it needs the mutex that the executor holds.
StopsTimer(c, removed) ==
    timer[c] # "off" /\ (initiator[c] \in removed \/ receiver[c] \in removed)

GetStuck(c) ==
    /\ stuck' = stuck \cup {c}
    /\ UNCHANGED <<tasks, todo, activeChannels, channels, observers, clients>>

\* The others on the channel, in their order.
Without(c, removed) ==
    LET kept == {i \in DOMAIN activities[c] : activities[c][i] \notin removed}
    IN  [k \in 1..Cardinality(kept) |-> activities[c][Nth(kept, k)]]

Gone == [focus |-> "NONE", behavior |-> "MUST_STOP"]

\* Mutant: the observer of an activity that is removed is not told.
ToldNothing(c, removed) == told

\* What the observers were told when these activities are removed.
ToldGone(c, removed) ==
    [a \in Activity |-> IF a \in removed \cap Range(activities[c]) THEN Gone ELSE told[a]]

\* removeActivityHelperLocked(), but for a timer that makes the executor stuck.
RemoveAll(c, removed) ==
    /\ activities' = [activities EXCEPT ![c] = Without(c, removed)]
    /\ told' = ToldGone(c, removed)
    /\ IF StopsTimer(c, removed)
       THEN /\ timer' = [timer EXCEPT ![c] = "off"]
            /\ initiator' = [initiator EXCEPT ![c] = None]
            /\ receiver' = [receiver EXCEPT ![c] = None]
       ELSE UNCHANGED patience

\* The first activity of an interface on a channel, as a set.
First(c, interface) ==
    LET at == {i \in DOMAIN activities[c] : Interfaces(c)[i] = interface}
    IN  IF at = {} THEN {} ELSE {activities[c][Min(at)]}

\* releaseActivity(), followed by the given steps, which depend on its success.
Release(c, interface, then, otherwise) ==
    LET removed == First(c, interface)
    IN  IF StopsTimer(c, removed) /\ timer[c] = "firing"
        THEN GetStuck(c)
        ELSE /\ RemoveAll(c, removed)
             /\ todo' = IF removed = {} THEN otherwise ELSE then
             /\ UNCHANGED <<activeChannels, focus, late, stuck, clients>>

\* processPolicyLocked(): the activities that must go when a arrives.
\* Mutant: an ongoing patience does not end.
KickedButReceiver(a, c) ==
    LET current == Head(activities[c])
    IN  IF InterfaceOf[a] = InterfaceOf[current] THEN {current}
        ELSE IF a \in Patient THEN {} ELSE {initiator[c], current}

Kicked(a, c) ==
    LET current == Head(activities[c])
    IN  IF InterfaceOf[a] = InterfaceOf[current] THEN {current}
        ELSE (IF timer[c] # "off" THEN {receiver[c]} ELSE {})
             \cup (IF a \in Patient THEN {} ELSE {initiator[c], current})

\* What the policy makes of the timer.
Patience(a, c) ==
    LET current == Head(activities[c])
    IN  IF InterfaceOf[a] = InterfaceOf[current]
        THEN [timer     |-> IF StopsTimer(c, {current}) THEN "off" ELSE timer[c],
              initiator |-> IF StopsTimer(c, {current}) THEN None ELSE initiator[c],
              receiver  |-> IF StopsTimer(c, {current}) THEN None ELSE receiver[c]]
        ELSE IF a \in Patient
        THEN [timer |-> "waiting", initiator |-> a, receiver |-> current]
        ELSE [timer |-> "off", initiator |-> None,
              receiver |-> IF timer[c] # "off" THEN None ELSE receiver[c]]

\* setPrimaryActivity()
Attach(a, c) ==
    IF activities[c] = <<>>
    THEN /\ activities' = [activities EXCEPT ![c] = <<a>>]
         /\ UNCHANGED <<told, patience>>
    ELSE /\ activities' = [activities EXCEPT ![c] = <<a>> \o Without(c, Kicked(a, c))]
         /\ told' = ToldGone(c, Kicked(a, c))
         /\ timer' = [timer EXCEPT ![c] = Patience(a, c).timer]
         /\ initiator' = [initiator EXCEPT ![c] = Patience(a, c).initiator]
         /\ receiver' = [receiver EXCEPT ![c] = Patience(a, c).receiver]

\* The policy stops the timer: of the same interface for its sake, of another
\* in any case.
AttachStopsTimer(a, c) ==
    /\ activities[c] # <<>>
    /\ timer[c] = "firing"
    /\ InterfaceOf[a] = Interface(c) => StopsTimer(c, {Head(activities[c])})

TimerExpires(c) ==
    /\ timer[c] = "waiting"
    /\ timer' = [timer EXCEPT ![c] = "firing"]
    /\ UNCHANGED <<executor, activeChannels, activities, focus, initiator, receiver,
                   observers, stuck, clients>>

\* patienceTimerCallback().  The timer is active until its thread ends: it is
\* stopped, by its own thread, for the sake of the receiver.  What is left of the
\* thread's run is of no effect.
PatienceIsOver(c) ==
    /\ timer[c] = "firing"
    /\ c \notin stuck
    /\ RemoveAll(c, {receiver[c]})
    /\ UNCHANGED <<executor, activeChannels, focus, late, stuck, clients>>

-----------------------------------------------------------------------------
(***************************************************************************)
(* Tasks and their steps.                                                  *)
(***************************************************************************)
SetFocus(c, state, behavior, force) ==
    [op |-> "focus", channel |-> c, focus |-> state, behavior |-> behavior, force |-> force]

ToForeground(c) == SetFocus(c, "FOREGROUND", "PRIMARY", FALSE)

\* setBackgroundChannelMixingBehavior(): the active channels below c, in order.
ToBackground(c, all) ==
    LET below == {d \in all : d > c}
    IN  [i \in 1..Cardinality(below) |->
            [op |-> "background", above |-> c, channel |-> Nth(below, i)]]

\* What acquireChannelHelper() does once the activity is attached.
\* Mutant: the channel comes to the foreground before the others leave it.
ForegroundFirst(c) ==
    IF activeChannels = {} THEN <<ToForeground(c)>>
    ELSE IF Highest = c THEN <<SetFocus(c, "FOREGROUND", "PRIMARY", TRUE)>>
    ELSE IF c < Highest THEN <<ToForeground(c)>> \o ToBackground(c, activeChannels)
    ELSE <<[op |-> "background", above |-> Highest, channel |-> c]>>

AfterAttaching(c) ==
    IF activeChannels = {} THEN <<ToForeground(c)>>
    ELSE IF Highest = c THEN <<SetFocus(c, "FOREGROUND", "PRIMARY", TRUE)>>
    ELSE IF c < Highest THEN Append(ToBackground(c, activeChannels), ToForeground(c))
    ELSE <<[op |-> "background", above |-> Highest, channel |-> c]>>

Deactivate(c) == [op |-> "deactivate", channel |-> c]

Foreground == [op |-> "foreground"]

\* The executor takes the next task.
Takes(op) == todo = <<>> /\ stuck = {} /\ tasks # <<>> /\ Head(tasks).op = op

\* acquireChannelHelper(), under m_mutex.
RunAcquire ==
    LET a == Head(tasks).activity
        c == ChannelOf[a]
    IN  /\ Takes("acquire")
        /\ tasks' = Tail(tasks)
        /\ activeChannels' = activeChannels \cup {c}
        /\ todo' = <<[op |-> "attach", activity |-> a]>> \o AfterAttaching(c)
        /\ UNCHANGED <<channels, observers, stuck, clients>>

\* releaseChannelHelper(): nothing more if there is no such activity.
RunRelease ==
    LET task == Head(tasks)
        c    == task.channel
    IN  /\ Takes("release")
        /\ Release(c, task.interface, <<Deactivate(c), Foreground>>, <<>>)
        /\ tasks' = IF c \in stuck' THEN tasks ELSE Tail(tasks)

\* stopForegroundActivityHelper(): nothing if the interface has changed.
RunStop ==
    LET task == Head(tasks)
        c    == task.channel
        then == <<Deactivate(c), Foreground>>
    IN  /\ Takes("stop")
        /\ IF task.interface = Interface(c)
           THEN Release(c, task.interface, then, then)
           ELSE UNCHANGED <<todo, activeChannels, channels, observers, stuck, clients>>
        /\ tasks' = IF c \in stuck' THEN tasks ELSE Tail(tasks)

\* stopAllActivitiesHelper(): first all are released, then the channels cleared,
\* in the order of the pointers to them.
RunStopAll ==
    LET owners == Head(tasks).owners
    IN  /\ Takes("stopAll")
        /\ tasks' = Tail(tasks)
        /\ \E order \in SetToSeqs(DOMAIN owners) :
               todo' = [i \in DOMAIN order |-> [op |-> "remove", channel |-> order[i],
                                               interface |-> owners[order[i]]]]
                       \o [i \in DOMAIN order |-> Deactivate(order[i])]
                       \o <<Foreground>>
        /\ UNCHANGED <<activeChannels, channels, observers, stuck, clients>>

\* The executor goes on with its task.
Does(op) == todo # <<>> /\ stuck = {} /\ Head(todo).op = op

AttachActivity ==
    LET a == Head(todo).activity
        c == ChannelOf[a]
    IN  /\ Does("attach")
        /\ IF AttachStopsTimer(a, c)
           THEN GetStuck(c)
           ELSE /\ Attach(a, c)
                /\ todo' = Tail(todo)
                /\ UNCHANGED <<tasks, activeChannels, focus, late, stuck, clients>>

RemoveActivity ==
    /\ Does("remove")
    /\ Release(Head(todo).channel, Head(todo).interface, Tail(todo), Tail(todo))
    /\ UNCHANGED tasks

\* A channel without activities is not active any longer.
DeactivateChannel ==
    LET c == Head(todo).channel
    IN  /\ Does("deactivate")
        /\ IF activities[c] = <<>>
           THEN /\ activeChannels' = activeChannels \ {c}
                /\ todo' = <<SetFocus(c, "NONE", "MUST_STOP", FALSE)>> \o Tail(todo)
           ELSE /\ todo' = Tail(todo)
                /\ UNCHANGED activeChannels
        /\ UNCHANGED <<tasks, channels, observers, stuck, clients>>

\* foregroundHighestPriorityActiveChannel()
ForegroundHighest ==
    /\ Does("foreground")
    /\ todo' = (IF activeChannels = {} THEN <<>>
                ELSE Append(ToBackground(Highest, activeChannels), ToForeground(Highest)))
               \o Tail(todo)
    /\ UNCHANGED <<tasks, activeChannels, channels, observers, stuck, clients>>

\* getMixingBehavior() of two channels, which takes their primary activities.
BackgroundChannel ==
    LET step == Head(todo)
        mix  == Mixing[Head(activities[step.channel]), Head(activities[step.above])]
    IN  /\ Does("background")
        /\ todo' = <<SetFocus(step.channel, "BACKGROUND", mix, FALSE)>> \o Tail(todo)
        /\ UNCHANGED <<tasks, activeChannels, channels, observers, stuck, clients>>

\* notifyActivities(): the primary activity, then the others, of a copy.
Notifications(c, state, behavior) ==
    [i \in DOMAIN activities[c] |->
        [op |-> "notify", activity |-> activities[c][i],
         focus |-> IF i = 1 THEN state ELSE "BACKGROUND",
         behavior |-> IF i = 1 THEN behavior ELSE "MUST_PAUSE"]]

\* Channel::setFocus(): what makes it tell the activities.
\* Mutant: the behavior that the primary activity has does not matter.
FocusChanges(step) == step.force \/ focus[step.channel] # step.focus

Changes(step) ==
    \/ step.force
    \/ focus[step.channel] # step.focus
    \/ /\ activities[step.channel] # <<>>
       /\ told[Head(activities[step.channel])].behavior # step.behavior

ChangeFocus ==
    LET step == Head(todo)
    IN  /\ Does("focus")
        /\ IF Changes(step)
           THEN /\ focus' = [focus EXCEPT ![step.channel] = step.focus]
                /\ todo' = Notifications(step.channel, step.focus, step.behavior) \o Tail(todo)
           ELSE /\ todo' = Tail(todo)
                /\ UNCHANGED focus
        /\ UNCHANGED <<tasks, activeChannels, activities, patience, observers, stuck, clients>>

\* Activity::notifyObserver(): who is paused is not made to duck.
NotifyActivity ==
    LET step   == Head(todo)
        paused == told[step.activity].behavior = "MUST_PAUSE"
    IN  /\ Does("notify")
        /\ told' = [told EXCEPT ![step.activity] =
                [focus |-> step.focus,
                 behavior |-> IF paused /\ step.behavior = "MAY_DUCK" THEN "MUST_PAUSE"
                              ELSE step.behavior]]
        /\ late' = late \cup ({step.activity} \ OnChannels)
        /\ todo' = Tail(todo)
        /\ UNCHANGED <<tasks, activeChannels, channels, stuck, clients>>

-----------------------------------------------------------------------------
Executor ==
    \/ RunAcquire \/ RunRelease \/ RunStop \/ RunStopAll
    \/ AttachActivity \/ RemoveActivity \/ DeactivateChannel \/ ForegroundHighest
    \/ BackgroundChannel \/ ChangeFocus \/ NotifyActivity

Next ==
    \/ \E a \in Activity : AcquireChannel(a) \/ ReleaseChannel(a)
    \/ StopForegroundActivity \/ StopAllActivities
    \/ Executor
    \/ \E c \in Channel : TimerExpires(c) \/ PatienceIsOver(c)

Spec == Init /\ [][Next]_vars

-----------------------------------------------------------------------------
\* The values that each variable takes.
TypeOK ==
    /\ activeChannels \subseteq Channel
    /\ activities \in [Channel -> Seq(Activity)]
    /\ focus \in [Channel -> FocusState]
    /\ told \in [Activity -> [focus : FocusState, behavior : Behavior]]
    /\ timer \in [Channel -> {"off", "waiting", "firing"}]
    /\ initiator \in [Channel -> Activity \cup {None}]
    /\ receiver \in [Channel -> Activity \cup {None}]
    /\ stuck \subseteq Channel /\ late \subseteq Activity
    /\ acquired \subseteq Activity /\ released \subseteq Activity /\ stopped \subseteq Activity
    /\ stops \in 0..MaxStops

(***************************************************************************)
(* Safety.                                                                 *)
(***************************************************************************)
Foregrounded == {a \in Activity : told[a].focus = "FOREGROUND"}

\* FocusManagerInterface.h: "the invariant that there can only be one Foreground
\* Channel".  It holds of what the observers know, at any time: those who were
\* last told that they are in the foreground are on one channel.
OneForegroundChannel ==
    \A a, b \in Foregrounded : ChannelOf[a] = ChannelOf[b]

Idle == todo = <<>> /\ tasks = <<>> /\ stuck = {}

\* What an activity on a channel should be told.  A channel in the background is
\* told of the interrupt model when another comes to the foreground, and not when
\* the activity that is there changes: it may go by any of that channel.
IsRight(notice, a, c) ==
    IF a # Head(activities[c])
    THEN notice.focus = "BACKGROUND" /\ notice.behavior = "MUST_PAUSE"
    ELSE IF c = Highest
    THEN notice.focus = "FOREGROUND" /\ notice.behavior = "PRIMARY"
    ELSE /\ notice.focus = "BACKGROUND"
         /\ \/ notice.behavior = "MUST_PAUSE"
            \/ \E b \in acquired : ChannelOf[b] = Highest /\ notice.behavior = Mixing[a, b]

\* When there is nothing left to do, the active channels are those that have
\* activities, the highest one is in the foreground and the others are not, each
\* activity on them knows, and all that were acquired have been told something:
\* whichever were released, stopped, run out of patience or came back since.
IdleIsSettled ==
    Idle =>
        /\ activeChannels = {c \in Channel : activities[c] # <<>>}
        /\ \A c \in Channel :
               /\ focus[c] = IF c \notin activeChannels THEN "NONE"
                             ELSE IF c = Highest THEN "FOREGROUND" ELSE "BACKGROUND"
               /\ \A a \in Range(activities[c]) : IsRight(told[a], a, c)
        /\ \A a \in acquired : told[a] # Untold

\* Who may lose its place to one that has a patience duration.
MayWait(a) == \E b \in Patient \ {a} : ChannelOf[b] = ChannelOf[a]

\* Acquired, and not on its channel yet.
IsComing(a) ==
    \/ \E i \in DOMAIN tasks : tasks[i].op = "acquire" /\ tasks[i].activity = a
    \/ \E i \in DOMAIN todo : todo[i].op = "attach" /\ todo[i].activity = a

Paused == [focus |-> "BACKGROUND", behavior |-> "MUST_PAUSE"]

\* Whoever leaves its channel, by whatever way, is told so in the same step, and
\* hears nothing else from then on.  But if the timer removes it after the copy that
\* notifyActivities() makes and before its calls, it hears once, and only, that it
\* is to pause in the background: it had the second place.
LeftIsTold ==
    /\ \A a \in acquired \ OnChannels :
           \/ told[a] = Gone /\ a \notin late
           \/ told[a] = Paused /\ a \in late /\ MayWait(a)
           \/ told[a] = Untold /\ IsComing(a)
    /\ late \cap OnChannels = {}
    /\ \A i \in DOMAIN todo : todo[i].op = "notify" => todo[i].activity \notin late

\* A patient activity that c had was replaced by one of its own interface.
WasReplaced(c) ==
    \E a \in (acquired \cap Patient) \ OnChannels :
        /\ ChannelOf[a] = c /\ told[a] # Untold
        /\ \E b \in acquired \ {a} : ChannelOf[b] = c /\ InterfaceOf[b] = InterfaceOf[a]

\* An activity keeps the second place on its channel no longer than the patience
\* lasts that it owes it to, and there is no third place.  (The replacement of a
\* patient activity by one of its interface stops the timer and leaves the second
\* place taken: more may then be held, and for ever.)
SecondPlaceEnds ==
    \A c \in Channel : Len(activities[c]) > 1 =>
        \/ timer[c] # "off" /\ activities[c] = <<initiator[c], receiver[c]>>
        \/ WasReplaced(c)

\* What had the first place on a channel when all were to be stopped is gone, once
\* the executor is idle, though it may have lost that place or the channel since.
\* (What had the second place is not captured, and may come back.)
StoppedIsGone == Idle => stopped \cap OnChannels = {}
=============================================================================
