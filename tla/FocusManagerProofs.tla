--------------------------- MODULE FocusManagerProofs ---------------------------
(***************************************************************************)
(* The FocusManager's safety, for any channels, activities, interfaces and *)
(* interrupt model: one channel in the foreground, a settled state that    *)
(* all know of, and activities that leave when they should.                *)
(*                                                                         *)
(* The properties speak of what is so when the executor is idle, or of     *)
(* what the observers know.  In between, the steps that the executor has   *)
(* still to do must make up for what is not so yet: the invariant relates  *)
(* the state to the set of these steps, and orders them by their rank.     *)
(***************************************************************************)
EXTENDS FocusManager, LeastNumbers, SequenceTheorems, FiniteSetTheorems, FunctionTheorems, TLAPS

Steps == Range(todo)

\* The interfaces, and that of a channel without activities.
Names == {InterfaceOf[a] : a \in Activity} \cup {""}

Step ==
    [op : {"attach"}, activity : Activity]
    \cup [op : {"remove"}, channel : Channel, interface : Names]
    \cup [op : {"deactivate"}, channel : Channel]
    \cup [op : {"foreground"}]
    \cup [op : {"background"}, above : Channel, channel : Channel]
    \cup [op : {"focus"}, channel : Channel, focus : FocusState, behavior : Behavior,
          force : BOOLEAN]
    \cup [op : {"notify"}, activity : Activity, focus : FocusState, behavior : Behavior]

Task ==
    [op : {"acquire"}, activity : Activity]
    \cup [op : {"release", "stop"}, channel : Channel, interface : Names]
    \cup [op : {"stopAll"}, owners : UNION {[S -> Names] : S \in SUBSET Channel}]

TasksOK == tasks \in Seq(Task) /\ todo \in Seq(Step)

-----------------------------------------------------------------------------
(***************************************************************************)
(* The steps of a task come in the order of their ranks, one at most of    *)
(* the ranks 1 and 4, and one notification at most of an activity.         *)
(***************************************************************************)
Rank(s) ==
    CASE s.op = "notify" -> 0
      [] s.op = "attach" -> 1
      [] s.op = "focus" -> IF s.focus = "FOREGROUND" THEN 4 ELSE 1
      [] s.op = "remove" -> 2
      [] s.op \in {"background", "deactivate"} -> 3
      [] s.op = "foreground" -> 4

Before(s, t) ==
    \/ Rank(s) < Rank(t)
    \/ /\ Rank(s) = Rank(t) /\ Rank(s) \notin {1, 4}
       /\ Rank(s) = 0 => s.activity # t.activity

InOrder(steps) == \A i, j \in DOMAIN steps : i < j => Before(steps[i], steps[j])

Ordered == InOrder(todo)

\* The steps of a task that may have emptied channels.
Leaving(s) == s.op \in {"remove", "deactivate", "foreground"} \/ (s.op = "focus" /\ s.focus = "NONE")

Leaves == \E s \in Steps : s.op = "foreground"

Phased ==
    /\ Leaves => \A s \in Steps : Leaving(s)
    /\ ~Leaves => \A s \in Steps : ~Leaving(s)

-----------------------------------------------------------------------------
(***************************************************************************)
(* The activities.                                                         *)
(***************************************************************************)
\* Each activity is on its own channel, once.
Placed ==
    \A c \in Channel :
        /\ \A a \in Range(activities[c]) : ChannelOf[a] = c /\ a \in acquired
        /\ \A i, j \in DOMAIN activities[c] : i # j => activities[c][i] # activities[c][j]

Unborn(a) == a \in acquired /\ a \notin OnChannels /\ told[a] = Untold

Awaits(i) == tasks[i].op = "acquire"

\* Those that wait to be attached.
Waiting ==
    /\ \A i \in DOMAIN tasks : Awaits(i) =>
           /\ Unborn(tasks[i].activity)
           /\ \A s \in Steps : s.op = "attach" => s.activity # tasks[i].activity
           /\ \A j \in DOMAIN tasks \ {i} : Awaits(j) => tasks[j].activity # tasks[i].activity
    /\ \A s \in Steps : s.op = "attach" => Unborn(s.activity)
    /\ \A a \in Activity \ acquired : told[a] = Untold

\* What has been acquired waits, or is on a channel, or has been told something.
Known ==
    \A a \in acquired :
        \/ told[a] # Untold
        \/ a \in OnChannels
        \/ \E i \in DOMAIN tasks : Awaits(i) /\ tasks[i].activity = a
        \/ \E s \in Steps : s.op = "attach" /\ s.activity = a

\* What was told makes sense.
Told ==
    \A a \in Activity :
        \/ told[a] \in {Untold, Gone, [focus |-> "FOREGROUND", behavior |-> "PRIMARY"]}
        \/ told[a].focus = "BACKGROUND" /\ told[a].behavior \in {"MAY_DUCK", "MUST_PAUSE"}

\* Those that are not on their channels were told so, or have heard of their pause
\* since then.
Left ==
    /\ \A a \in acquired \ OnChannels : told[a].focus = "NONE" \/ a \in late
    /\ \A a \in late : a \in acquired \ OnChannels /\ told[a] = Paused /\ MayWait(a)

\* A patience that runs is that of the first for the second.
Patiently ==
    \A c \in Channel : timer[c] # "off" =>
        /\ Len(activities[c]) >= 2
        /\ activities[c][1] = initiator[c] /\ activities[c][2] = receiver[c]
        /\ initiator[c] \in Patient

\* Only those that may wait are behind another.
SecondsMayWait ==
    \A c \in Channel : \A i \in DOMAIN activities[c] : i >= 2 => MayWait(activities[c][i])

-----------------------------------------------------------------------------
(***************************************************************************)
(* The channels.                                                           *)
(***************************************************************************)
\* The active channels are those with activities, but for the one that waits for
\* its first activity and those that wait to be deactivated.
Active ==
    \A c \in Channel :
        /\ activities[c] # <<>> => c \in activeChannels
        /\ c \in activeChannels /\ activities[c] = <<>> =>
               \E s \in Steps : \/ s.op = "deactivate" /\ s.channel = c
                                \/ s.op = "attach" /\ ChannelOf[s.activity] = c
        /\ c \notin activeChannels /\ focus[c] # "NONE" =>
               \E s \in Steps : s.op = "focus" /\ s.focus = "NONE" /\ s.channel = c

Pending(c) == \E s \in Steps : s.op \in {"background", "focus"} /\ s.channel = c

WillHear(a) == \E s \in Steps : s.op = "notify" /\ s.activity = a

\* What a step says is right.
AttachIsRight(s) == s.op = "attach" =>
    ChannelOf[s.activity] \in activeChannels /\ Pending(ChannelOf[s.activity])

RemoveIsRight(s) == s.op = "remove" => \E t \in Steps : t.op = "deactivate" /\ t.channel = s.channel

BackgroundIsRight(s) == s.op = "background" =>
    /\ s.channel \in activeChannels /\ s.above \in activeChannels
    /\ s.above = Highest /\ s.channel > s.above

FocusIsRight(s) == s.op = "focus" =>
    /\ s.focus = "NONE" => s.channel \notin activeChannels /\ activities[s.channel] = <<>>
    /\ s.focus = "FOREGROUND" =>
           s.channel \in activeChannels /\ s.channel = Highest /\ s.behavior = "PRIMARY"
    /\ s.focus = "BACKGROUND" =>
           /\ s.channel \in activeChannels /\ s.channel # Highest
           /\ IsRight(s, Head(activities[s.channel]), s.channel)

NoticeIsRight(s) == s.op = "notify" =>
    \/ s.activity \in OnChannels /\ IsRight(s, s.activity, ChannelOf[s.activity])
    \/ /\ s.activity \notin OnChannels
       /\ s.focus = "BACKGROUND" /\ s.behavior = "MUST_PAUSE"
       /\ told[s.activity] # Untold /\ MayWait(s.activity)
       /\ s.activity \notin late

StepIsRight(s) ==
    AttachIsRight(s) /\ RemoveIsRight(s) /\ BackgroundIsRight(s) /\ FocusIsRight(s) /\ NoticeIsRight(s)

StepsAreRight == \A s \in Steps : StepIsRight(s)

Settled(c) ==
    /\ focus[c] = IF c = Highest THEN "FOREGROUND" ELSE "BACKGROUND"
    /\ \A a \in Range(activities[c]) : WillHear(a) \/ IsRight(told[a], a, c)

\* Unless channels may have become empty, an active channel is settled or a step
\* will see to it.
Settling == ~Leaves => \A c \in activeChannels : Pending(c) \/ Settled(c)

\* The first activity of a channel has just been attached.
Fresh(c) ==
    /\ activities[c] # <<>>
    /\ told[Head(activities[c])] = Untold
    /\ ~WillHear(Head(activities[c]))

\* The activities behind the first are told to pause, with or after the first.
SecondsPause ==
    /\ \A c \in Channel : \A i \in DOMAIN activities[c] : i >= 2 =>
           \/ told[activities[c][i]] = [focus |-> "BACKGROUND", behavior |-> "MUST_PAUSE"]
           \/ WillHear(activities[c][i])
           \/ Fresh(c)
    /\ Leaves => \A c \in Channel : ~Fresh(c)

\* Who will be told of the foreground is on the channel of those who were.
ForegroundIsOne ==
    /\ OneForegroundChannel
    /\ \A s \in Steps : s.op = "notify" /\ s.focus = "FOREGROUND" =>
           \A b \in Foregrounded : ChannelOf[b] = ChannelOf[s.activity]

-----------------------------------------------------------------------------
(***************************************************************************)
(* The stops.                                                              *)
(***************************************************************************)
IsStop(task) == task.op \in {"stop", "stopAll"}

StopsFirst == \A i, j \in DOMAIN tasks : i < j /\ IsStop(tasks[j]) => IsStop(tasks[i])

\* A task or a step will remove the first activity of a's interface on its channel.
WillStop(a) ==
    \/ \E i \in DOMAIN tasks :
           /\ tasks[i].op = "stopAll"
           /\ ChannelOf[a] \in DOMAIN tasks[i].owners
           /\ tasks[i].owners[ChannelOf[a]] = InterfaceOf[a]
    \/ \E s \in Steps :
           s.op = "remove" /\ s.channel = ChannelOf[a] /\ s.interface = InterfaceOf[a]

\* That is a itself.
IsFirst(a) ==
    \A c \in Channel : \A i, j \in DOMAIN activities[c] :
        activities[c][j] = a /\ i < j => InterfaceOf[activities[c][i]] # InterfaceOf[a]

StopsReach ==
    /\ \A a \in stopped : a \in OnChannels \/ told[a] # Untold
    /\ \A a \in stopped \cap OnChannels :
           /\ WillStop(a) /\ IsFirst(a)
           /\ \A s \in Steps : s.op = "attach" /\ ChannelOf[s.activity] = ChannelOf[a] =>
                  a = Head(activities[ChannelOf[a]])

IInv ==
    /\ TypeOK /\ TasksOK
    /\ Ordered /\ Phased
    /\ Placed /\ Waiting /\ Known /\ Told /\ Patiently /\ SecondsMayWait
    /\ Active /\ StepsAreRight /\ Settling /\ SecondsPause /\ ForegroundIsOne
    /\ StopsFirst /\ StopsReach
    /\ Left /\ SecondPlaceEnds

-----------------------------------------------------------------------------
(***************************************************************************)
(* The numbers of a set in their order.                                    *)
(***************************************************************************)
\* The least member of a set of naturals is Min of it.
LEMMA MinIsLeast ==
    ASSUME NEW S \in SUBSET Nat, S # {}
    PROVE  Min(S) \in S /\ \A x \in S : Min(S) <= x
  <1>1. \E m \in S : \A x \in S : m <= x
    BY NonemptyHasLeast
  <1> QED
    BY <1>1 DEF Min

LEMMA MinIs ==
    ASSUME NEW S \in SUBSET Nat, NEW m \in S, \A x \in S : m <= x
    PROVE  Min(S) = m
  <1>1. Min(S) \in S /\ \A x \in S : Min(S) <= x
    BY MinIsLeast
  <1>2. Min(S) <= m /\ m <= Min(S) /\ m \in Nat /\ Min(S) \in Nat
    BY <1>1
  <1> QED
    BY <1>2

\* Each member of a finite set has a number of members below it of its own.
LEMMA BelowGrows ==
    ASSUME NEW S \in SUBSET Nat, IsFiniteSet(S), NEW m \in S, NEW n \in S, m < n
    PROVE  Cardinality({x \in S : x < m}) < Cardinality({x \in S : x < n})
  <1> DEFINE A == {x \in S : x < m}
             B == {x \in S : x < n}
  <1>1. IsFiniteSet(A) /\ IsFiniteSet(B) /\ Cardinality(A) \in Nat /\ Cardinality(B) \in Nat
    BY FS_Subset, FS_CardinalityType
  <1>2. A \subseteq B /\ m \in B /\ m \notin A
    <2>1. m \in Nat /\ n \in Nat /\ ~(m < m)
      OBVIOUS
    <2>2. ASSUME NEW x \in A PROVE x \in B
      <3>1. x \in S /\ x \in Nat /\ x < m
        OBVIOUS
      <3>2. x < n
        BY <2>1, <3>1
      <3> QED
        BY <3>1, <3>2
    <2> QED
      BY <2>1, <2>2
  <1>3. Cardinality(A) <= Cardinality(B) /\ Cardinality(A) # Cardinality(B)
    <2>1. A \in SUBSET B /\ A # B
      BY <1>2
    <2> HIDE DEF A, B
    <2>2. Cardinality(A) <= Cardinality(B) /\ (Cardinality(B) = Cardinality(A) => B = A)
      BY <1>1, <2>1, FS_Subset
    <2> QED
      BY <2>1, <2>2
  <1> QED
    BY <1>1, <1>3

\* Nth enumerates a finite set.
LEMMA NthEnumerates ==
    ASSUME NEW S \in SUBSET Nat, IsFiniteSet(S)
    PROVE  /\ Cardinality(S) \in Nat
           /\ \A k \in 1..Cardinality(S) :
                  Nth(S, k) \in S /\ Cardinality({x \in S : x < Nth(S, k)}) = k - 1
           /\ \A m \in S : \E k \in 1..Cardinality(S) : Nth(S, k) = m
           /\ \A j, k \in 1..Cardinality(S) : j < k => Nth(S, j) < Nth(S, k)
  <1> DEFINE n == Cardinality(S)
             Below(m) == {x \in S : x < m}
             f == [m \in S |-> Cardinality(Below(m)) + 1]
  <1>1. n \in Nat
    BY FS_CardinalityType
  <1>2. \A m \in S : Cardinality(Below(m)) + 1 \in 1..n
    <2>1. SUFFICES ASSUME NEW m \in S PROVE Cardinality(Below(m)) + 1 \in 1..n
      OBVIOUS
    <2>2. IsFiniteSet(Below(m)) /\ Cardinality(Below(m)) \in Nat /\ Cardinality(Below(m)) <= n
      BY FS_Subset, FS_CardinalityType
    <2>3. m \notin Below(m) /\ m \in S
      BY <2>1
    <2>4. Cardinality(Below(m)) # n
      <3>1. Below(m) \in SUBSET S
        OBVIOUS
      <3> HIDE DEF Below, n
      <3> QED
        BY <2>2, <2>3, <3>1, FS_Subset DEF n
    <2> QED
      BY <1>1, <2>2, <2>4
  <1>3. f \in [S -> 1..n]
    BY <1>2
  <1>4. \A a, b \in S : f[a] = f[b] => a = b
    <2>1. SUFFICES ASSUME NEW a \in S, NEW b \in S, f[a] = f[b] PROVE a = b
      OBVIOUS
    <2>2. Cardinality(Below(a)) \in Nat /\ Cardinality(Below(b)) \in Nat
      BY FS_Subset, FS_CardinalityType
    <2>3. Cardinality(Below(a)) = Cardinality(Below(b))
      BY <2>1, <2>2
    <2>4. ~(a < b) /\ ~(b < a)
      BY <2>2, <2>3, BelowGrows
    <2>5. a \in Nat /\ b \in Nat
      OBVIOUS
    <2> QED
      BY <2>4, <2>5
  <1>5. f \in Injection(S, 1..n)
    BY <1>3, <1>4 DEF Injection, IsInjective
  <1>6. f \in Surjection(S, 1..n)
    <2>1. IsFiniteSet(1..n) /\ Cardinality(1..n) = n
      BY <1>1, FS_Interval
    <2> HIDE DEF f
    <2> QED
      BY <1>5, <2>1, FS_Injection
  <1>7. \A k \in 1..n : \E m \in S : Cardinality(Below(m)) = k - 1
    <2>1. SUFFICES ASSUME NEW k \in 1..n PROVE \E m \in S : Cardinality(Below(m)) = k - 1
      OBVIOUS
    <2>2. PICK m \in S : f[m] = k
      BY <1>6 DEF Surjection
    <2>3. Cardinality(Below(m)) \in Nat /\ f[m] = Cardinality(Below(m)) + 1
      BY FS_Subset, FS_CardinalityType
    <2>4. Cardinality(Below(m)) = k - 1
      <3> HIDE DEF f, Below
      <3> QED
        BY <2>2, <2>3
    <2> QED
      BY <2>4
  <1>8. \A k \in 1..n : Nth(S, k) \in S /\ Cardinality(Below(Nth(S, k))) = k - 1
    BY <1>7 DEF Nth
  <1>9. \A m \in S : \E k \in 1..n : Nth(S, k) = m
    <2>1. SUFFICES ASSUME NEW m \in S PROVE \E k \in 1..n : Nth(S, k) = m
      OBVIOUS
    <2>2. f[m] \in 1..n /\ f[m] = Cardinality(Below(m)) + 1 /\ Cardinality(Below(m)) \in Nat
      BY <1>3, FS_Subset, FS_CardinalityType
    <2>3. Nth(S, f[m]) \in S /\ Cardinality(Below(Nth(S, f[m]))) = f[m] - 1
      BY <1>8, <2>2
    <2>4. f[Nth(S, f[m])] = f[m]
      BY <2>2, <2>3
    <2> HIDE DEF f
    <2> QED
      BY <1>4, <2>2, <2>3, <2>4
  <1>10. \A j, k \in 1..n : j < k => Nth(S, j) < Nth(S, k)
    <2>1. SUFFICES ASSUME NEW j \in 1..n, NEW k \in 1..n, j < k PROVE Nth(S, j) < Nth(S, k)
      OBVIOUS
    <2>2. /\ Nth(S, j) \in S /\ Cardinality(Below(Nth(S, j))) = j - 1
          /\ Nth(S, k) \in S /\ Cardinality(Below(Nth(S, k))) = k - 1
      BY <1>8
    <2>3. ~(Nth(S, k) < Nth(S, j))
      <3>1. SUFFICES ASSUME Nth(S, k) < Nth(S, j) PROVE FALSE
        OBVIOUS
      <3>2. Cardinality(Below(Nth(S, k))) < Cardinality(Below(Nth(S, j)))
        BY <2>2, <3>1, BelowGrows
      <3> QED
        BY <1>1, <2>1, <2>2, <3>2
    <2>4. Nth(S, k) # Nth(S, j)
      <3> HIDE DEF Below
      <3>1. j - 1 # k - 1
        BY <1>1, <2>1
      <3> QED
        BY <2>2, <3>1, Zenon
    <2>5. Nth(S, k) \in Nat /\ Nth(S, j) \in Nat
      BY <2>2
    <2> QED
      BY <2>3, <2>4, <2>5
  <1> QED
    BY <1>1, <1>8, <1>9, <1>10

-----------------------------------------------------------------------------
(***************************************************************************)
(* What is left of a channel's activities when some of them go.            *)
(***************************************************************************)
LEMMA CountingTo ==
    ASSUME NEW n \in Nat
    PROVE  IsFiniteSet(1..n) /\ Cardinality(1..n) = n
  <1>1. 1 \in Int /\ n \in Int
    OBVIOUS
  <1>2. IsFiniteSet(1..n) /\ Cardinality(1..n) = IF 1 > n THEN 0 ELSE n - 1 + 1
    BY <1>1, FS_Interval
  <1> QED
    BY <1>2

\* The others are left, in their order.
LEMMA WithoutIs ==
    ASSUME NEW c, NEW removed, activities[c] \in Seq(Activity)
    PROVE  /\ Without(c, removed) \in Seq(Activity)
           /\ Range(Without(c, removed)) = Range(activities[c]) \ removed
           /\ Len(Without(c, removed)) <= Len(activities[c])
           /\ \A i, j \in DOMAIN Without(c, removed) : i < j =>
                  \E k, l \in DOMAIN activities[c] :
                      /\ k < l /\ i <= k /\ j <= l
                      /\ Without(c, removed)[i] = activities[c][k]
                      /\ Without(c, removed)[j] = activities[c][l]
  <1> DEFINE act == activities[c]
             kept == {i \in DOMAIN act : act[i] \notin removed}
             n == Cardinality(kept)
             w == [k \in 1..n |-> act[Nth(kept, k)]]
  <1>1. /\ Len(act) \in Nat /\ DOMAIN act = 1..Len(act)
        /\ \A i \in DOMAIN act : act[i] \in Activity
    OBVIOUS
  <1>2. kept \in SUBSET Nat /\ IsFiniteSet(kept) /\ n <= Len(act) /\ kept \subseteq DOMAIN act
    <2>1. kept \in SUBSET (1..Len(act)) /\ 1..Len(act) \in SUBSET Nat
      BY <1>1
    <2>2. IsFiniteSet(1..Len(act)) /\ Cardinality(1..Len(act)) = Len(act)
      BY <1>1, CountingTo
    <2> QED
      BY <1>1, <2>1, <2>2, FS_Subset
  <1>3. /\ n \in Nat
        /\ \A k \in 1..n : Nth(kept, k) \in kept
        /\ \A m \in kept : \E k \in 1..n : Nth(kept, k) = m
        /\ \A j, k \in 1..n : j < k => Nth(kept, j) < Nth(kept, k)
    BY <1>2, NthEnumerates
  <1>4. \A k \in 1..n : k <= Nth(kept, k)
    <2>1. SUFFICES ASSUME NEW k \in 1..n PROVE k <= Nth(kept, k)
      OBVIOUS
    <2>2. Nth(kept, k) \in 1..Len(act) /\ Cardinality({x \in kept : x < Nth(kept, k)}) = k - 1
      BY <1>1, <1>2, <1>3, NthEnumerates
    <2> DEFINE m == Nth(kept, k)
               below == {x \in kept : x < m}
    <2>3. below \in SUBSET (1..(m - 1))
      <3> HIDE DEF m
      <3>1. ASSUME NEW x \in kept, x < m PROVE x \in 1..(m - 1)
        <4>1. x \in 1..Len(act) /\ m \in 1..Len(act)
          BY <1>1, <1>2, <2>2 DEF m
        <4> QED
          BY <1>1, <3>1, <4>1
      <3> QED
        BY <3>1
    <2>4. IsFiniteSet(1..(m - 1)) /\ Cardinality(1..(m - 1)) = m - 1
      <3>1. m - 1 \in Nat
        BY <1>1, <2>2
      <3> HIDE DEF m
      <3> QED
        BY <3>1, CountingTo
    <2>5. Cardinality(below) <= m - 1
      <3> HIDE DEF below, m
      <3> QED
        BY <2>3, <2>4, FS_Subset
    <2>6. k - 1 <= m - 1 /\ m \in Int /\ k \in Int
      BY <1>1, <1>3, <2>2, <2>5
    <2> QED
      BY <2>6
  <1>5. Without(c, removed) = w
    BY DEF Without
  <1>6. \A k \in 1..n : w[k] = act[Nth(kept, k)] /\ w[k] \in Activity
    BY <1>1, <1>3
  <1>7. w \in Seq(Activity) /\ Len(w) = n /\ DOMAIN w = 1..n
    <2>1. w \in [1..n -> Activity]
      BY <1>6
    <2> HIDE DEF w, n
    <2> QED
      BY <1>3, <2>1, SeqDef
  <1>8. Range(w) = Range(act) \ removed
    <2>1. ASSUME NEW a \in Range(w) PROVE a \in Range(act) \ removed
      <3>1. PICK k \in 1..n : a = w[k]
        BY <1>7 DEF Range
      <3>2. Nth(kept, k) \in kept /\ a = act[Nth(kept, k)]
        BY <1>3, <1>6, <3>1
      <3> QED
        BY <3>2 DEF Range
    <2>2. ASSUME NEW a \in Range(act) \ removed PROVE a \in Range(w)
      <3>1. PICK i \in DOMAIN act : a = act[i]
        BY DEF Range
      <3>2. i \in kept
        BY <3>1
      <3>3. PICK k \in 1..n : Nth(kept, k) = i
        BY <1>3, <3>2
      <3>4. w[k] = a
        BY <1>6, <3>1, <3>3
      <3> QED
        BY <1>7, <3>4 DEF Range
    <2> QED
      BY <2>1, <2>2
  <1>9. \A i, j \in 1..n : i < j =>
            \E k, l \in DOMAIN act : k < l /\ i <= k /\ j <= l /\ w[i] = act[k] /\ w[j] = act[l]
    <2>1. SUFFICES ASSUME NEW i \in 1..n, NEW j \in 1..n, i < j
                   PROVE  \E k, l \in DOMAIN act :
                              k < l /\ i <= k /\ j <= l /\ w[i] = act[k] /\ w[j] = act[l]
      OBVIOUS
    <2>2. /\ Nth(kept, i) \in DOMAIN act /\ Nth(kept, j) \in DOMAIN act
          /\ Nth(kept, i) < Nth(kept, j)
          /\ i <= Nth(kept, i) /\ j <= Nth(kept, j)
          /\ w[i] = act[Nth(kept, i)] /\ w[j] = act[Nth(kept, j)]
      BY <1>2, <1>3, <1>4, <1>6, <2>1
    <2> QED
      BY <2>2
  <1>10. Len(w) <= Len(act)
    BY <1>2, <1>7
  <1> HIDE DEF w, n, act
  <1>11. \A i, j \in DOMAIN w : i < j =>
            \E k, l \in DOMAIN act : k < l /\ i <= k /\ j <= l /\ w[i] = act[k] /\ w[j] = act[l]
    BY <1>7, <1>9
  <1> QED
    BY <1>5, <1>7, <1>8, <1>10, <1>11 DEF act

\* The first stays the first, and the second the second.
LEMMA WithoutKeepsFirst ==
    ASSUME NEW c, NEW removed, activities[c] \in Seq(Activity),
           activities[c] # <<>>, Head(activities[c]) \notin removed,
           \A i, j \in DOMAIN activities[c] : i # j => activities[c][i] # activities[c][j]
    PROVE  /\ Without(c, removed) # <<>>
           /\ Head(Without(c, removed)) = Head(activities[c])
           /\ Len(activities[c]) >= 2 /\ activities[c][2] \notin removed =>
                  Len(Without(c, removed)) >= 2 /\ Without(c, removed)[2] = activities[c][2]
  <1> DEFINE act == activities[c]
             w == Without(c, removed)
  <1>1. /\ w \in Seq(Activity) /\ Range(w) = Range(act) \ removed
        /\ \A i, j \in DOMAIN w : i < j =>
               \E k, l \in DOMAIN act : k < l /\ i <= k /\ j <= l /\ w[i] = act[k] /\ w[j] = act[l]
    BY WithoutIs
  <1> HIDE DEF w
  <1>2. Len(act) \in Nat /\ DOMAIN act = 1..Len(act) /\ Len(act) >= 1 /\ Head(act) = act[1]
    OBVIOUS
  <1>3. Len(w) \in Nat /\ DOMAIN w = 1..Len(w)
    BY <1>1
  <1>4. act[1] \in Range(w)
    BY <1>1, <1>2 DEF Range
  <1>5. PICK i \in 1..Len(w) : w[i] = act[1]
    BY <1>3, <1>4 DEF Range
  <1>6. i = 1
    <2>1. SUFFICES ASSUME i # 1 PROVE FALSE
      OBVIOUS
    <2>2. 1 \in DOMAIN w /\ i \in DOMAIN w /\ 1 < i
      BY <1>3, <1>5, <2>1
    <2>3. PICK k \in DOMAIN act, l \in DOMAIN act : k < l /\ w[i] = act[l]
      BY <1>1, <2>2
    <2>4. l # 1 /\ 1 \in DOMAIN act
      BY <1>2, <2>3
    <2> QED
      BY <1>5, <2>3, <2>4
  <1>7. w # <<>> /\ Head(w) = act[1]
    BY <1>1, <1>3, <1>5, <1>6
  <1>8. ASSUME Len(act) >= 2, act[2] \notin removed
        PROVE  Len(w) >= 2 /\ w[2] = act[2]
    <2>1. 1 \in DOMAIN act /\ 2 \in DOMAIN act /\ act[1] # act[2]
      BY <1>2, <1>8
    <2>2. act[2] \in Range(w)
      BY <1>1, <1>8, <2>1 DEF Range
    <2>3. PICK j \in 1..Len(w) : w[j] = act[2]
      BY <1>3, <2>2 DEF Range
    <2>4. j # 1
      BY <1>5, <1>6, <2>1, <2>3
    <2>5. j = 2
      <3>1. SUFFICES ASSUME j # 2 PROVE FALSE
        OBVIOUS
      <3>2. 2 \in DOMAIN w /\ j \in DOMAIN w /\ 2 < j
        BY <1>3, <2>3, <2>4, <3>1
      <3>3. PICK k \in DOMAIN act, l \in DOMAIN act : k < l /\ 2 <= k /\ w[j] = act[l]
        BY <1>1, <3>2
      <3>4. l # 2
        BY <1>2, <3>3
      <3> QED
        BY <2>1, <2>3, <3>3, <3>4
    <2> QED
      BY <1>3, <2>3, <2>5
  <1> QED
    BY <1>2, <1>7, <1>8 DEF w

\* If none go, nothing changes.
LEMMA WithoutNone ==
    ASSUME NEW c, NEW removed, activities[c] \in Seq(Activity),
           Range(activities[c]) \cap removed = {}
    PROVE  Without(c, removed) = activities[c]
  <1> DEFINE act == activities[c]
             n == Len(act)
             w == Without(c, removed)
             kept == {i \in DOMAIN act : act[i] \notin removed}
  <1>1. n \in Nat /\ DOMAIN act = 1..n
    OBVIOUS
  <1>2. kept = 1..n
    BY <1>1 DEF Range
  <1>3. IsFiniteSet(1..n) /\ Cardinality(1..n) = n
    BY <1>1, CountingTo
  <1>4. w = [k \in 1..n |-> act[Nth(1..n, k)]]
    BY <1>2, <1>3 DEF Without
  <1>5. \A k \in 1..n : Nth(1..n, k) = k
    <2>1. SUFFICES ASSUME NEW k \in 1..n PROVE Nth(1..n, k) = k
      OBVIOUS
    <2> DEFINE m == Nth(1..n, k)
    <2>2. m \in 1..n /\ Cardinality({x \in 1..n : x < m}) = k - 1
      <3>1. 1..n \in SUBSET Nat
        BY <1>1
      <3> QED
        BY <1>3, <3>1, NthEnumerates
    <2> HIDE DEF m
    <2>3. {x \in 1..n : x < m} = 1..(m - 1)
      BY <1>1, <2>2
    <2>4. Cardinality(1..(m - 1)) = m - 1
      <3>1. m - 1 \in Nat
        BY <1>1, <2>2
      <3> QED
        BY <3>1, CountingTo
    <2>5. k - 1 = m - 1
      BY <2>2, <2>3, <2>4
    <2>6. k \in Int /\ m \in Int
      BY <1>1, <2>2
    <2> QED
      BY <2>5, <2>6 DEF m
  <1>6. \A k \in 1..n : act[Nth(1..n, k)] = act[k]
    BY <1>5
  <1>7. w = [k \in 1..n |-> act[k]]
    BY <1>4, <1>6
  <1>8. act = [k \in 1..n |-> act[k]]
    BY <1>1
  <1> QED
    BY <1>7, <1>8

-----------------------------------------------------------------------------
(***************************************************************************)
(* Sequences of steps.                                                     *)
(***************************************************************************)
\* What a step of each kind has.
LEMMA StepKinds ==
    ASSUME NEW s \in Step
    PROVE  /\ s.op \in {"attach", "remove", "deactivate", "foreground", "background", "focus",
                        "notify"}
           /\ s.op \in {"attach", "notify"} => s.activity \in Activity
           /\ s.op \in {"remove", "deactivate", "background", "focus"} => s.channel \in Channel
           /\ s.op = "background" => s.above \in Channel
           /\ s.op \in {"focus", "notify"} => s.focus \in FocusState /\ s.behavior \in Behavior
  BY DEF Step

LEMMA RankOfKind ==
    ASSUME NEW s \in Step
    PROVE  /\ s.op = "notify" => Rank(s) = 0
           /\ s.op = "attach" => Rank(s) = 1
           /\ s.op = "focus" /\ s.focus # "FOREGROUND" => Rank(s) = 1
           /\ s.op = "remove" => Rank(s) = 2
           /\ s.op \in {"background", "deactivate"} => Rank(s) = 3
           /\ s.op = "focus" /\ s.focus = "FOREGROUND" => Rank(s) = 4
           /\ s.op = "foreground" => Rank(s) = 4
           /\ Rank(s) \in 0..4
  <1>1. s.op \in {"attach", "remove", "deactivate", "foreground", "background", "focus", "notify"}
    BY StepKinds
  <1> QED
    BY <1>1 DEF Rank

\* The first step comes before the others.
LEMMA OrderOfTail ==
    ASSUME NEW steps \in Seq(Step), steps # <<>>
    PROVE  /\ Head(steps) \in Step /\ Tail(steps) \in Seq(Step)
           /\ Range(steps) = {Head(steps)} \cup Range(Tail(steps))
           /\ InOrder(steps) => /\ InOrder(Tail(steps))
                                /\ \A t \in Range(Tail(steps)) : Before(Head(steps), t)
  <1> DEFINE n == Len(steps)
             tail == Tail(steps)
  <1>1. n \in Nat /\ n >= 1 /\ DOMAIN steps = 1..n /\ \A i \in 1..n : steps[i] \in Step
    OBVIOUS
  <1>2. /\ tail \in Seq(Step) /\ Len(tail) = n - 1
        /\ \A i \in 1..(n - 1) : tail[i] = steps[i + 1]
    OBVIOUS
  <1>3. Head(steps) = steps[1] /\ Head(steps) \in Step
    BY <1>1
  <1>4. DOMAIN tail = 1..(n - 1)
    BY <1>2
  <1> HIDE DEF tail
  <1>5. Range(steps) = {Head(steps)} \cup Range(tail)
    <2>1. ASSUME NEW s \in Range(steps) PROVE s \in {Head(steps)} \cup Range(tail)
      <3>1. PICK i \in 1..n : s = steps[i]
        BY <1>1 DEF Range
      <3>2. CASE i = 1
        BY <1>3, <3>1, <3>2
      <3>3. CASE i # 1
        <4>1. i - 1 \in 1..(n - 1) /\ (i - 1) + 1 = i
          BY <1>1, <3>3
        <4>2. tail[i - 1] = s
          BY <1>2, <3>1, <4>1
        <4> QED
          BY <1>4, <4>1, <4>2 DEF Range
      <3> QED
        BY <3>2, <3>3
    <2>2. ASSUME NEW s \in Range(tail) PROVE s \in Range(steps)
      <3>1. PICK i \in 1..(n - 1) : s = tail[i]
        BY <1>4 DEF Range
      <3>2. s = steps[i + 1] /\ i + 1 \in 1..n
        BY <1>1, <1>2, <3>1
      <3> QED
        BY <1>1, <3>2 DEF Range
    <2>3. Head(steps) \in Range(steps)
      BY <1>1, <1>3 DEF Range
    <2> QED
      BY <2>1, <2>2, <2>3
  <1>6. ASSUME InOrder(steps)
        PROVE  InOrder(tail) /\ \A t \in Range(tail) : Before(Head(steps), t)
    <2>1. ASSUME NEW i \in DOMAIN tail, NEW j \in DOMAIN tail, i < j
          PROVE  Before(tail[i], tail[j])
      <3>1. i + 1 \in DOMAIN steps /\ j + 1 \in DOMAIN steps /\ i + 1 < j + 1
        BY <1>1, <1>4, <2>1
      <3>2. Before(steps[i + 1], steps[j + 1])
        BY <1>6, <3>1 DEF InOrder
      <3> QED
        BY <1>2, <1>4, <3>2
    <2>2. ASSUME NEW t \in Range(tail) PROVE Before(Head(steps), t)
      <3>1. PICK i \in 1..(n - 1) : t = tail[i]
        BY <1>4 DEF Range
      <3>2. 1 \in DOMAIN steps /\ i + 1 \in DOMAIN steps /\ 1 < i + 1 /\ t = steps[i + 1]
        BY <1>1, <1>2, <3>1
      <3>3. Before(steps[1], steps[i + 1])
        BY <1>6, <3>2 DEF InOrder
      <3> QED
        BY <1>3, <3>2, <3>3
    <2> QED
      BY <2>1, <2>2 DEF InOrder
  <1> QED
    BY <1>2, <1>3, <1>5, <1>6 DEF tail

LEMMA OrderOfConcat ==
    ASSUME NEW s \in Seq(Step), NEW t \in Seq(Step), InOrder(s), InOrder(t),
           \A x \in Range(s), y \in Range(t) : Before(x, y)
    PROVE  s \o t \in Seq(Step) /\ Range(s \o t) = Range(s) \cup Range(t) /\ InOrder(s \o t)
  <1> DEFINE u == s \o t
             m == Len(s)
             n == Len(t)
  <1>1. /\ m \in Nat /\ n \in Nat /\ DOMAIN s = 1..m /\ DOMAIN t = 1..n
        /\ u \in Seq(Step) /\ Len(u) = m + n /\ DOMAIN u = 1..(m + n)
        /\ \A i \in 1..(m + n) : u[i] = IF i <= m THEN s[i] ELSE t[i - m]
    BY ConcatProperties
  <1>2. Range(u) = Range(s) \cup Range(t)
    BY RangeConcatenation
  <1> HIDE DEF u, m, n
  <1>3. ASSUME NEW i \in DOMAIN u, NEW j \in DOMAIN u, i < j
        PROVE  Before(u[i], u[j])
    <2>1. i \in 1..(m + n) /\ j \in 1..(m + n)
      BY <1>1
    <2>2. CASE j <= m
      <3>1. i \in DOMAIN s /\ j \in DOMAIN s /\ u[i] = s[i] /\ u[j] = s[j]
        BY <1>1, <1>3, <2>1, <2>2
      <3> QED
        BY <1>3, <3>1 DEF InOrder
    <2>3. CASE m < i
      <3>1. /\ i - m \in DOMAIN t /\ j - m \in DOMAIN t /\ i - m < j - m
            /\ u[i] = t[i - m] /\ u[j] = t[j - m]
        BY <1>1, <1>3, <2>1, <2>3
      <3> QED
        BY <3>1 DEF InOrder
    <2>4. CASE i <= m /\ m < j
      <3>1. i \in DOMAIN s /\ j - m \in DOMAIN t /\ u[i] = s[i] /\ u[j] = t[j - m]
        BY <1>1, <2>1, <2>4
      <3>2. u[i] \in Range(s) /\ u[j] \in Range(t)
        BY <3>1 DEF Range
      <3> QED
        BY <3>2
    <2> QED
      BY <1>1, <2>1, <2>2, <2>3, <2>4
  <1> QED
    BY <1>1, <1>2, <1>3 DEF InOrder, u

LEMMA OrderOfOne ==
    ASSUME NEW x \in Step
    PROVE  <<x>> \in Seq(Step) /\ Range(<<x>>) = {x} /\ InOrder(<<x>>)
  <1>1. DOMAIN <<x>> = {1} /\ <<x>>[1] = x
    OBVIOUS
  <1>2. Range(<<x>>) = {x}
    BY <1>1 DEF Range
  <1>3. InOrder(<<x>>)
    BY <1>1 DEF InOrder
  <1> QED
    BY <1>2, <1>3

LEMMA OrderOfNone == <<>> \in Seq(Step) /\ Range(<<>>) = {} /\ InOrder(<<>>)
  BY DEF Range, InOrder

LEMMA OrderOfCons ==
    ASSUME NEW x \in Step, NEW t \in Seq(Step), InOrder(t), \A y \in Range(t) : Before(x, y)
    PROVE  <<x>> \o t \in Seq(Step) /\ Range(<<x>> \o t) = {x} \cup Range(t) /\ InOrder(<<x>> \o t)
  <1>1. <<x>> \in Seq(Step) /\ Range(<<x>>) = {x} /\ InOrder(<<x>>)
    BY OrderOfOne
  <1>2. \A z \in Range(<<x>>), y \in Range(t) : Before(z, y)
    BY <1>1
  <1> QED
    BY <1>1, <1>2, OrderOfConcat

LEMMA OrderOfAppend ==
    ASSUME NEW s \in Seq(Step), NEW y \in Step, InOrder(s), \A x \in Range(s) : Before(x, y)
    PROVE  Append(s, y) \in Seq(Step) /\ Range(Append(s, y)) = Range(s) \cup {y} /\ InOrder(Append(s, y))
  <1>1. <<y>> \in Seq(Step) /\ Range(<<y>>) = {y} /\ InOrder(<<y>>)
    BY OrderOfOne
  <1>2. \A x \in Range(s), z \in Range(<<y>>) : Before(x, z)
    BY <1>1
  <1>3. Append(s, y) = s \o <<y>>
    BY AppendIsConcat
  <1> QED
    BY <1>1, <1>2, <1>3, OrderOfConcat

\* Steps of a rank that may come more than once are in any order.
LEMMA OrderOfEqualRanks ==
    ASSUME NEW s \in Seq(Step), NEW r \in {2, 3}, \A x \in Range(s) : Rank(x) = r
    PROVE  InOrder(s)
  <1>1. \A i \in DOMAIN s : Rank(s[i]) = r
    BY DEF Range
  <1> QED
    BY <1>1 DEF InOrder, Before

LEMMA StepsOfFunction ==
    ASSUME NEW n \in Nat, NEW s \in [1..n -> Step]
    PROVE  s \in Seq(Step) /\ Range(s) = {s[i] : i \in 1..n}
  BY SeqDef DEF Range

\* One step for each active channel below c.
LEMMA ToBackgroundIs ==
    ASSUME NEW c \in Channel, NEW all \in SUBSET Channel
    PROVE  LET steps == ToBackground(c, all)
           IN  /\ steps \in Seq(Step) /\ InOrder(steps)
               /\ \A s \in Range(steps) : /\ s.op = "background" /\ s.above = c
                                          /\ s.channel \in all /\ s.channel > c
               /\ \A d \in all : d > c => \E s \in Range(steps) : s.op = "background" /\ s.channel = d
  <1> DEFINE below == {d \in all : d > c}
             n == Cardinality(below)
             s == [i \in 1..n |-> [op |-> "background", above |-> c, channel |-> Nth(below, i)]]
  <1>1. below \in SUBSET Nat /\ IsFiniteSet(below) /\ below \subseteq Channel
    <2>1. Channel \subseteq Nat /\ IsFiniteSet(Channel) /\ below \in SUBSET Channel
      BY FocusAssumption
    <2> QED
      BY <2>1, FS_Subset
  <1>2. /\ n \in Nat
        /\ \A i \in 1..n : Nth(below, i) \in below
        /\ \A d \in below : \E i \in 1..n : Nth(below, i) = d
    BY <1>1, NthEnumerates
  <1>3. ToBackground(c, all) = s
    BY DEF ToBackground
  <1>4. \A i \in 1..n : s[i] \in Step
    BY <1>1, <1>2 DEF Step
  <1>5. s \in Seq(Step) /\ Range(s) = {s[i] : i \in 1..n}
    <2>1. s \in [1..n -> Step]
      BY <1>4
    <2> HIDE DEF s, n
    <2> QED
      BY <1>2, <2>1, StepsOfFunction
  <1>6. \A x \in Range(s) : x.op = "background" /\ x.above = c /\ x.channel \in all /\ x.channel > c
    <2>1. SUFFICES ASSUME NEW i \in 1..n
                   PROVE  /\ s[i].op = "background" /\ s[i].above = c
                          /\ s[i].channel \in all /\ s[i].channel > c
      BY <1>5
    <2> QED
      BY <1>2
  <1>7. \A d \in all : d > c => \E x \in Range(s) : x.op = "background" /\ x.channel = d
    <2>1. SUFFICES ASSUME NEW d \in all, d > c
                   PROVE  \E x \in Range(s) : x.op = "background" /\ x.channel = d
      OBVIOUS
    <2>2. PICK i \in 1..n : Nth(below, i) = d
      BY <1>2, <2>1
    <2>3. s[i] \in Range(s) /\ s[i].op = "background" /\ s[i].channel = d
      BY <1>5, <2>2
    <2> QED
      BY <2>3
  <1>8. InOrder(s)
    <2>1. \A x \in Range(s) : x \in Step
      BY <1>5, <1>4
    <2> HIDE DEF s
    <2>2. \A x \in Range(s) : Rank(x) = 3
      BY <1>6, <2>1, RankOfKind
    <2> QED
      BY <1>5, <2>2, OrderOfEqualRanks
  <1> QED
    BY <1>3, <1>5, <1>6, <1>7, <1>8

\* One notification of each activity on c.
LEMMA NotificationsAre ==
    ASSUME NEW c \in Channel, activities[c] \in Seq(Activity),
           \A i, j \in DOMAIN activities[c] : i # j => activities[c][i] # activities[c][j],
           NEW state \in FocusState, NEW behavior \in Behavior
    PROVE  LET steps == Notifications(c, state, behavior)
           IN  /\ steps \in Seq(Step) /\ InOrder(steps)
               /\ \A s \in Range(steps) :
                      /\ s.op = "notify"
                      /\ \E i \in DOMAIN activities[c] :
                             /\ s.activity = activities[c][i]
                             /\ s.focus = IF i = 1 THEN state ELSE "BACKGROUND"
                             /\ s.behavior = IF i = 1 THEN behavior ELSE "MUST_PAUSE"
               /\ \A a \in Range(activities[c]) :
                      \E s \in Range(steps) : s.op = "notify" /\ s.activity = a
  <1> DEFINE act == activities[c]
             n == Len(act)
             Notice(i) == [op |-> "notify", activity |-> act[i],
                           focus |-> IF i = 1 THEN state ELSE "BACKGROUND",
                           behavior |-> IF i = 1 THEN behavior ELSE "MUST_PAUSE"]
             s == [i \in 1..n |-> Notice(i)]
  <1>1. n \in Nat /\ DOMAIN act = 1..n /\ \A i \in 1..n : act[i] \in Activity
    OBVIOUS
  <1>2. Notifications(c, state, behavior) = s
    BY <1>1 DEF Notifications
  <1>3. \A i \in 1..n : s[i] = Notice(i) /\ Notice(i) \in Step
    <2>1. "BACKGROUND" \in FocusState /\ "MUST_PAUSE" \in Behavior
      BY DEF FocusState, Behavior
    <2> QED
      BY <1>1, <2>1 DEF Step
  <1>4. s \in Seq(Step) /\ Range(s) = {s[i] : i \in 1..n}
    <2>1. s \in [1..n -> Step]
      BY <1>3
    <2> HIDE DEF s, n
    <2> QED
      BY <1>1, <2>1, StepsOfFunction
  <1>5. \A x \in Range(s) :
            /\ x.op = "notify"
            /\ \E i \in DOMAIN act :
                   /\ x.activity = act[i]
                   /\ x.focus = IF i = 1 THEN state ELSE "BACKGROUND"
                   /\ x.behavior = IF i = 1 THEN behavior ELSE "MUST_PAUSE"
    <2>1. SUFFICES ASSUME NEW i \in 1..n
                   PROVE  /\ s[i].op = "notify"
                          /\ s[i].activity = act[i]
                          /\ s[i].focus = IF i = 1 THEN state ELSE "BACKGROUND"
                          /\ s[i].behavior = IF i = 1 THEN behavior ELSE "MUST_PAUSE"
      BY <1>1, <1>4
    <2> QED
      BY <1>3
  <1>6. \A a \in Range(act) : \E x \in Range(s) : x.op = "notify" /\ x.activity = a
    <2>1. SUFFICES ASSUME NEW a \in Range(act)
                   PROVE  \E x \in Range(s) : x.op = "notify" /\ x.activity = a
      OBVIOUS
    <2>2. PICK i \in 1..n : act[i] = a
      BY <1>1 DEF Range
    <2>3. s[i] \in Range(s) /\ s[i].op = "notify" /\ s[i].activity = a
      BY <1>3, <1>4, <2>2
    <2> QED
      BY <2>3
  <1>7. InOrder(s)
    <2>1. \A i \in 1..n : s[i] \in Step /\ s[i].op = "notify" /\ s[i].activity = act[i]
      BY <1>3
    <2>2. DOMAIN s = 1..n
      OBVIOUS
    <2> HIDE DEF s, n
    <2>3. \A i \in 1..n : Rank(s[i]) = 0
      BY <2>1, RankOfKind
    <2>4. ASSUME NEW i \in 1..n, NEW j \in 1..n, i < j PROVE Before(s[i], s[j])
      <3>1. i # j /\ s[i].activity # s[j].activity
        BY <1>1, <2>1, <2>4
      <3> QED
        BY <2>3, <3>1 DEF Before
    <2> QED
      BY <2>2, <2>4 DEF InOrder
  <1> QED
    BY <1>2, <1>4, <1>5, <1>6, <1>7

\* The elements of a set in any order.
LEMMA OrderOfSet ==
    ASSUME NEW S, IsFiniteSet(S), NEW order \in SetToSeqs(S)
    PROVE  /\ Cardinality(S) \in Nat /\ order \in [1..Cardinality(S) -> S]
           /\ \A x \in S : \E i \in 1..Cardinality(S) : order[i] = x
  <1> DEFINE n == Cardinality(S)
  <1>1. n \in Nat
    BY FS_CardinalityType
  <1>2. order \in [1..n -> S] /\ \A i, j \in 1..n : i # j => order[i] # order[j]
    BY DEF SetToSeqs
  <1>3. order \in Injection(1..n, S)
    BY <1>2 DEF Injection, IsInjective
  <1>4. IsFiniteSet(1..n) /\ Cardinality(1..n) = n
    BY <1>1, CountingTo
  <1>5. order \in Surjection(1..n, S)
    BY <1>3, <1>4, FS_Injection
  <1> QED
    BY <1>1, <1>2, <1>5 DEF Surjection

\* The steps of a stop of all.
Stopping(owners, order) ==
    [i \in DOMAIN order |-> [op |-> "remove", channel |-> order[i],
                             interface |-> owners[order[i]]]]
    \o [i \in DOMAIN order |-> Deactivate(order[i])]
    \o <<Foreground>>

LEMMA StoppingIs ==
    ASSUME NEW S \in SUBSET Channel, NEW owners \in [S -> Names], NEW order \in SetToSeqs(S)
    PROVE  LET steps == Stopping(owners, order)
           IN  /\ steps \in Seq(Step) /\ InOrder(steps)
               /\ \A s \in Range(steps) : \/ s = Foreground
                                          \/ s.op = "deactivate"
                                          \/ s.op = "remove" /\ s.channel \in S
               /\ Foreground \in Range(steps)
               /\ \A d \in S : /\ Deactivate(d) \in Range(steps)
                               /\ \E s \in Range(steps) : /\ s.op = "remove" /\ s.channel = d
                                                          /\ s.interface = owners[d]
  <1> DEFINE n == Cardinality(S)
             Removing(d) == [op |-> "remove", channel |-> d, interface |-> owners[d]]
             r == [i \in 1..n |-> Removing(order[i])]
             e == [i \in 1..n |-> Deactivate(order[i])]
             f == <<Foreground>>
  <1>1. IsFiniteSet(S)
    BY FocusAssumption, FS_Subset
  <1>2. /\ n \in Nat /\ order \in [1..n -> S] /\ DOMAIN order = 1..n
        /\ \A d \in S : \E i \in 1..n : order[i] = d
    BY <1>1, OrderOfSet
  <1>3. \A i \in 1..n : order[i] \in S /\ order[i] \in Channel
    BY <1>2
  <1>4. \A d \in S : Removing(d) \in Step /\ Deactivate(d) \in Step
    BY DEF Step, Deactivate
  <1>5. Foreground \in Step /\ Foreground.op = "foreground"
    BY DEF Step, Foreground
  <1>6. r \in Seq(Step) /\ Range(r) = {r[i] : i \in 1..n}
    <2>1. r \in [1..n -> Step]
      BY <1>3, <1>4
    <2> HIDE DEF r, n
    <2> QED
      BY <1>2, <2>1, StepsOfFunction
  <1>7. e \in Seq(Step) /\ Range(e) = {e[i] : i \in 1..n}
    <2>1. e \in [1..n -> Step]
      BY <1>3, <1>4
    <2> HIDE DEF e, n
    <2> QED
      BY <1>2, <2>1, StepsOfFunction
  <1>8. f \in Seq(Step) /\ Range(f) = {Foreground} /\ InOrder(f)
    BY <1>5, OrderOfOne
  <1>9. \A s \in Range(r) : s.op = "remove" /\ s.channel \in S /\ s \in Step /\ Rank(s) = 2
    <2>1. SUFFICES ASSUME NEW i \in 1..n
                   PROVE  r[i].op = "remove" /\ r[i].channel \in S /\ r[i] \in Step /\ Rank(r[i]) = 2
      BY <1>6
    <2>2. r[i].op = "remove" /\ r[i].channel \in S /\ r[i] \in Step
      BY <1>3, <1>4
    <2> QED
      BY <2>2, RankOfKind
  <1>10. \A s \in Range(e) : s.op = "deactivate" /\ s \in Step /\ Rank(s) = 3
    <2>1. SUFFICES ASSUME NEW i \in 1..n
                   PROVE  e[i].op = "deactivate" /\ e[i] \in Step /\ Rank(e[i]) = 3
      BY <1>7
    <2>2. e[i].op = "deactivate" /\ e[i] \in Step
      BY <1>3, <1>4 DEF Deactivate
    <2> QED
      BY <2>2, RankOfKind
  <1>11. Rank(Foreground) = 4
    BY <1>5, RankOfKind
  <1>12. \A d \in S : Deactivate(d) \in Range(e) /\ Removing(d) \in Range(r)
    <2>1. SUFFICES ASSUME NEW d \in S PROVE Deactivate(d) \in Range(e) /\ Removing(d) \in Range(r)
      OBVIOUS
    <2>2. PICK i \in 1..n : order[i] = d
      BY <1>2
    <2>3. e[i] = Deactivate(d) /\ r[i] = Removing(d)
      BY <2>2
    <2> QED
      BY <1>6, <1>7, <2>3
  <1>13. Stopping(owners, order) = r \o e \o f
    BY <1>2 DEF Stopping
  <1> HIDE DEF r, e, f, n
  <1>14. InOrder(r) /\ InOrder(e)
    BY <1>6, <1>7, <1>9, <1>10, OrderOfEqualRanks
  <1>15. (r \o e) \in Seq(Step) /\ Range(r \o e) = Range(r) \cup Range(e) /\ InOrder(r \o e)
    <2>1. \A x \in Range(r), y \in Range(e) : Before(x, y)
      BY <1>9, <1>10 DEF Before
    <2> QED
      BY <1>6, <1>7, <1>14, <2>1, OrderOfConcat
  <1>16. /\ (r \o e) \o f \in Seq(Step) /\ InOrder((r \o e) \o f)
         /\ Range((r \o e) \o f) = Range(r) \cup Range(e) \cup {Foreground}
    <2>1. \A x \in Range(r \o e), y \in Range(f) : Before(x, y)
      BY <1>8, <1>9, <1>10, <1>11, <1>15 DEF Before
    <2> QED
      BY <1>8, <1>15, <2>1, OrderOfConcat
  <1>17. \A d \in S : \E s \in Range((r \o e) \o f) :
             s.op = "remove" /\ s.channel = d /\ s.interface = owners[d]
    <2>1. SUFFICES ASSUME NEW d \in S
                   PROVE  \E s \in Range((r \o e) \o f) :
                              s.op = "remove" /\ s.channel = d /\ s.interface = owners[d]
      OBVIOUS
    <2>2. Removing(d) \in Range((r \o e) \o f)
      BY <1>12, <1>16
    <2> QED
      BY <2>2
  <1>18. \A s \in Range((r \o e) \o f) :
            s = Foreground \/ s.op = "deactivate" \/ (s.op = "remove" /\ s.channel \in S)
    BY <1>9, <1>10, <1>16
  <1>19. Foreground \in Range((r \o e) \o f) /\ \A d \in S : Deactivate(d) \in Range((r \o e) \o f)
    BY <1>12, <1>16
  <1> QED
    BY <1>13, <1>16, <1>17, <1>18, <1>19

-----------------------------------------------------------------------------
(***************************************************************************)
(* The executor's queue and the steps of its task.                         *)
(***************************************************************************)
\* What the kind of the first step says of the others.
LEMMA FirstStep ==
    ASSUME TasksOK, Ordered, todo # <<>>
    PROVE  LET h    == Head(todo)
               rest == Range(Tail(todo))
           IN  /\ h \in Step /\ h \in Steps /\ Tail(todo) \in Seq(Step) /\ InOrder(Tail(todo))
               /\ Steps = {h} \cup rest /\ rest \subseteq Step
               /\ \A t \in rest : Before(h, t)
               /\ h.op # "notify" => \A t \in rest : t.op # "notify"
               /\ h.op = "attach" \/ (h.op = "focus" /\ h.focus # "FOREGROUND") =>
                      \A t \in rest : \/ t.op \in {"remove", "background", "deactivate", "foreground"}
                                      \/ t.op = "focus" /\ t.focus = "FOREGROUND"
               /\ h.op = "remove" =>
                      \A t \in rest : \/ t.op \in {"remove", "background", "deactivate", "foreground"}
                                      \/ t.op = "focus" /\ t.focus = "FOREGROUND"
               /\ h.op \in {"background", "deactivate"} =>
                      \A t \in rest : \/ t.op \in {"background", "deactivate", "foreground"}
                                      \/ t.op = "focus" /\ t.focus = "FOREGROUND"
               /\ h.op = "foreground" \/ (h.op = "focus" /\ h.focus = "FOREGROUND") =>
                      rest = {} /\ Tail(todo) = <<>>
  <1> DEFINE h == Head(todo)
             rest == Range(Tail(todo))
  <1>1. todo \in Seq(Step) /\ InOrder(todo)
    BY DEF TasksOK, Ordered
  <1>2. /\ h \in Step /\ Tail(todo) \in Seq(Step) /\ InOrder(Tail(todo))
        /\ Steps = {h} \cup rest /\ \A t \in rest : Before(h, t)
    BY <1>1, OrderOfTail DEF Steps
  <1>3. rest \subseteq Step
    BY <1>2, RangeOfSeq
  <1> HIDE DEF h, rest
  <1>4. ASSUME NEW t \in rest
        PROVE  /\ t \in Step /\ Rank(t) \in 0..4 /\ Rank(h) \in 0..4
               /\ Rank(h) <= Rank(t) /\ (Rank(h) \in {1, 4} => Rank(h) # Rank(t))
    <2>1. t \in Step /\ Before(h, t)
      BY <1>2, <1>3
    <2>2. Rank(t) \in 0..4 /\ Rank(h) \in 0..4
      BY <1>2, <2>1, RankOfKind
    <2> QED
      BY <2>1, <2>2 DEF Before
  <1>5. ASSUME NEW t \in rest
        PROVE  /\ t.op \in {"attach", "remove", "deactivate", "foreground", "background", "focus",
                        "notify"}
               /\ t.op = "notify" => Rank(t) = 0
               /\ t.op = "attach" => Rank(t) = 1
               /\ t.op = "focus" /\ t.focus # "FOREGROUND" => Rank(t) = 1
               /\ t.op = "remove" => Rank(t) = 2
    BY <1>4, RankOfKind, StepKinds
  <1>6. /\ h.op \in {"attach", "remove", "deactivate", "foreground", "background", "focus",
                     "notify"}
        /\ h.op = "attach" => Rank(h) = 1
        /\ h.op = "focus" /\ h.focus # "FOREGROUND" => Rank(h) = 1
        /\ h.op = "remove" => Rank(h) = 2
        /\ h.op \in {"background", "deactivate"} => Rank(h) = 3
        /\ h.op = "focus" /\ h.focus = "FOREGROUND" => Rank(h) = 4
        /\ h.op = "foreground" => Rank(h) = 4
    BY <1>2, RankOfKind, StepKinds
  <1>7. h.op # "notify" => Rank(h) >= 1
    BY <1>6
  <1>8. ASSUME h.op # "notify", NEW t \in rest PROVE t.op # "notify"
    BY <1>4, <1>5, <1>7, <1>8
  <1>9. ASSUME h.op = "attach" \/ (h.op = "focus" /\ h.focus # "FOREGROUND"), NEW t \in rest
        PROVE  \/ t.op \in {"remove", "background", "deactivate", "foreground"}
               \/ t.op = "focus" /\ t.focus = "FOREGROUND"
    <2>1. Rank(h) = 1
      BY <1>6, <1>9
    <2> QED
      BY <1>4, <1>5, <2>1
  <1>10. ASSUME h.op = "remove", NEW t \in rest
         PROVE  \/ t.op \in {"remove", "background", "deactivate", "foreground"}
                \/ t.op = "focus" /\ t.focus = "FOREGROUND"
    BY <1>4, <1>5, <1>6, <1>10
  <1>11. ASSUME h.op \in {"background", "deactivate"}, NEW t \in rest
         PROVE  \/ t.op \in {"background", "deactivate", "foreground"}
                \/ t.op = "focus" /\ t.focus = "FOREGROUND"
    BY <1>4, <1>5, <1>6, <1>11
  <1>12. ASSUME h.op = "foreground" \/ (h.op = "focus" /\ h.focus = "FOREGROUND")
         PROVE  rest = {} /\ Tail(todo) = <<>>
    <2>1. Rank(h) = 4
      BY <1>6, <1>12
    <2>2. rest = {}
      BY <1>4, <2>1
    <2>3. Tail(todo) = <<>>
      <3>1. SUFFICES ASSUME Tail(todo) # <<>> PROVE FALSE
        OBVIOUS
      <3>2. Head(Tail(todo)) \in rest
        BY <1>2, <3>1, OrderOfTail DEF rest
      <3> QED
        BY <2>2, <3>2
    <2> QED
      BY <2>2, <2>3
  <1> QED
    BY <1>2, <1>3, <1>8, <1>9, <1>10, <1>11, <1>12 DEF h, rest

LEMMA NoStepsLeft ==
    ASSUME TasksOK
    PROVE  todo = <<>> <=> Steps = {}
  <1>1. todo = <<>> => Steps = {}
    BY DEF Steps, Range
  <1>2. todo # <<>> => Head(todo) \in Steps
    BY OrderOfTail DEF TasksOK, Steps
  <1> QED
    BY <1>1, <1>2

\* A task that is appended, one that overtakes all, and one that is taken.
LEMMA TaskAppended ==
    ASSUME TasksOK, NEW task \in Task, tasks' = Append(tasks, task)
    PROVE  /\ tasks' \in Seq(Task) /\ Len(tasks) \in Nat /\ DOMAIN tasks = 1..Len(tasks)
           /\ DOMAIN tasks' = 1..(Len(tasks) + 1)
           /\ \A i \in 1..Len(tasks) : tasks'[i] = tasks[i]
           /\ tasks'[Len(tasks) + 1] = task
  <1>1. tasks \in Seq(Task)
    BY DEF TasksOK
  <1> QED
    BY <1>1, AppendProperties

LEMMA TaskPrepended ==
    ASSUME TasksOK, NEW task \in Task, tasks' = <<task>> \o tasks
    PROVE  /\ tasks' \in Seq(Task) /\ Len(tasks) \in Nat /\ DOMAIN tasks = 1..Len(tasks)
           /\ DOMAIN tasks' = 1..(Len(tasks) + 1)
           /\ \A i \in 1..Len(tasks) : tasks'[i + 1] = tasks[i]
           /\ tasks'[1] = task
  <1>1. tasks \in Seq(Task) /\ <<task>> \in Seq(Task) /\ Len(<<task>>) = 1 /\ <<task>>[1] = task
    BY DEF TasksOK
  <1>2. Len(tasks) \in Nat /\ DOMAIN tasks = 1..Len(tasks)
    BY <1>1
  <1>3. /\ tasks' \in Seq(Task) /\ Len(tasks') = 1 + Len(tasks)
        /\ \A i \in 1..(1 + Len(tasks)) : tasks'[i] = IF i <= 1 THEN <<task>>[i] ELSE tasks[i - 1]
    BY <1>1, ConcatProperties
  <1>4. DOMAIN tasks' = 1..(Len(tasks) + 1)
    BY <1>2, <1>3
  <1>5. ASSUME NEW i \in 1..Len(tasks) PROVE tasks'[i + 1] = tasks[i]
    <2>1. i + 1 \in 1..(1 + Len(tasks)) /\ ~(i + 1 <= 1) /\ (i + 1) - 1 = i
      BY <1>2
    <2> QED
      BY <1>3, <2>1
  <1>6. tasks'[1] = task
    <2>1. 1 \in 1..(1 + Len(tasks)) /\ 1 <= 1
      BY <1>2
    <2> QED
      BY <1>1, <1>3, <2>1
  <1> QED
    BY <1>2, <1>3, <1>4, <1>5, <1>6

LEMMA TaskTaken ==
    ASSUME TasksOK, tasks # <<>>, tasks' = Tail(tasks)
    PROVE  /\ tasks' \in Seq(Task) /\ Len(tasks) \in Nat /\ DOMAIN tasks = 1..Len(tasks)
           /\ DOMAIN tasks' = 1..(Len(tasks) - 1) /\ Len(tasks) >= 1
           /\ \A i \in 1..(Len(tasks) - 1) : tasks'[i] = tasks[i + 1]
           /\ Head(tasks) = tasks[1] /\ Head(tasks) \in Task
  <1>1. tasks \in Seq(Task)
    BY DEF TasksOK
  <1>2. Len(tasks) \in Nat /\ Len(tasks) >= 1 /\ DOMAIN tasks = 1..Len(tasks)
    BY <1>1
  <1>3. /\ tasks' \in Seq(Task) /\ Len(tasks') = Len(tasks) - 1
        /\ \A i \in 1..Len(tasks') : tasks'[i] = tasks[i + 1]
        /\ Head(tasks) = tasks[1] /\ Head(tasks) \in Task
    BY <1>1, HeadTailProperties
  <1> QED
    BY <1>2, <1>3

-----------------------------------------------------------------------------
(***************************************************************************)
(* What a step leaves alone.                                               *)
(***************************************************************************)
LEMMA OnChannelsAre ==
    ASSUME TypeOK, Placed
    PROVE  /\ OnChannels \subseteq Activity \cap acquired
           /\ \A a \in OnChannels : a \in Range(activities[ChannelOf[a]])
           /\ \A c \in Channel : \A a \in Range(activities[c]) :
                  a \in OnChannels /\ ChannelOf[a] = c /\ a \in Activity \cap acquired
           /\ \A c \in Channel : \A i \in DOMAIN activities[c] :
                  activities[c][i] \in Range(activities[c])
           /\ \A c \in Channel : activities[c] # <<>> =>
                  /\ Head(activities[c]) \in Range(activities[c])
                  /\ Head(activities[c]) = activities[c][1] /\ 1 \in DOMAIN activities[c]
  <1>1. ASSUME NEW c \in Channel
        PROVE  activities[c] \in Seq(Activity) /\ Range(activities[c]) \subseteq Activity
    <2>1. activities[c] \in Seq(Activity)
      BY DEF TypeOK
    <2> QED
      BY <2>1, RangeOfSeq
  <1>2. \A c \in Channel : \A a \in Range(activities[c]) :
            a \in OnChannels /\ ChannelOf[a] = c /\ a \in Activity \cap acquired
    BY <1>1 DEF Placed, OnChannels
  <1>3. \A a \in OnChannels : \E c \in Channel : a \in Range(activities[c])
    BY DEF OnChannels
  <1>4. \A c \in Channel : \A i \in DOMAIN activities[c] :
            activities[c][i] \in Range(activities[c])
    BY DEF Range
  <1>5. ASSUME NEW c \in Channel, activities[c] # <<>>
        PROVE  /\ Head(activities[c]) \in Range(activities[c])
               /\ Head(activities[c]) = activities[c][1] /\ 1 \in DOMAIN activities[c]
    <2>1. Head(activities[c]) = activities[c][1] /\ 1 \in DOMAIN activities[c]
      BY <1>1, <1>5
    <2> QED
      BY <1>4, <2>1
  <1> QED
    BY <1>2, <1>3, <1>4, <1>5

LEMMA OnChannelsKept ==
    ASSUME UNCHANGED activities
    PROVE  OnChannels' = OnChannels
  BY DEF OnChannels

\* What is right stays right when more is acquired.
LEMMA RightIsKept ==
    ASSUME UNCHANGED <<activeChannels, activities>>, acquired \subseteq acquired'
    PROVE  \A n, a, c : IsRight(n, a, c) => IsRight(n, a, c)'
  <1>1. SUFFICES ASSUME NEW n, NEW a, NEW c, IsRight(n, a, c) PROVE IsRight(n, a, c)'
    OBVIOUS
  <1>2. Highest' = Highest
    BY DEF Highest
  <1> QED
    BY <1>1, <1>2 DEF IsRight

LEMMA SameNotice ==
    ASSUME NEW n, NEW m, n.focus = m.focus, n.behavior = m.behavior
    PROVE  \A a, c : IsRight(n, a, c) <=> IsRight(m, a, c)
  BY DEF IsRight

LEMMA HighestIs ==
    ASSUME TypeOK, activeChannels # {}
    PROVE  /\ Highest \in activeChannels /\ Highest \in Channel /\ Highest \in Nat
           /\ \A c \in activeChannels : Highest <= c
  <1>1. activeChannels \subseteq Channel /\ activeChannels \in SUBSET Nat
    BY FocusAssumption DEF TypeOK
  <1> QED
    BY <1>1, MinIsLeast DEF Highest

LEMMA StepsAreSteps ==
    ASSUME TasksOK
    PROVE  Steps \subseteq Step
  BY RangeOfSeq DEF TasksOK, Steps

\* A replacement has been, for ever: what is attached has been told nothing yet.
LEMMA ReplacedForEver ==
    ASSUME TypeOK, acquired \subseteq acquired',
           \A a \in OnChannels' \ OnChannels : told[a] = Untold,
           \A a \in Activity : told[a] # Untold => told'[a] # Untold
    PROVE  \A c \in Channel : WasReplaced(c) => WasReplaced(c)'
  <1>1. SUFFICES ASSUME NEW c \in Channel, WasReplaced(c) PROVE WasReplaced(c)'
    OBVIOUS
  <1>2. PICK a \in (acquired \cap Patient) \ OnChannels :
            /\ ChannelOf[a] = c /\ told[a] # Untold
            /\ \E b \in acquired \ {a} : ChannelOf[b] = c /\ InterfaceOf[b] = InterfaceOf[a]
    BY <1>1 DEF WasReplaced
  <1>3. a \in Activity
    BY DEF TypeOK
  <1>4. told'[a] # Untold /\ a \in (acquired' \cap Patient) \ OnChannels'
    BY <1>2, <1>3
  <1>5. \E b \in acquired' \ {a} : ChannelOf[b] = c /\ InterfaceOf[b] = InterfaceOf[a]
    BY <1>2
  <1>6. Untold' = Untold
    BY DEF Untold
  <1>7. \E x \in (acquired' \cap Patient) \ OnChannels' :
            /\ ChannelOf[x] = c /\ told'[x] # Untold
            /\ \E b \in acquired' \ {x} : ChannelOf[b] = c /\ InterfaceOf[b] = InterfaceOf[x]
    BY <1>2, <1>4, <1>5
  <1> QED
    BY <1>6, <1>7 DEF WasReplaced

LEMMA StepsStayRight ==
    ASSUME UNCHANGED <<activeChannels, activities>>, acquired \subseteq acquired',
           \A a \in Activity : told[a] # Untold => told'[a] # Untold
    PROVE  \A s \in Step :
               /\ BackgroundIsRight(s) => BackgroundIsRight(s)'
               /\ FocusIsRight(s) => FocusIsRight(s)'
               /\ NoticeIsRight(s) /\ (s.activity \in late' => s.activity \in late) => NoticeIsRight(s)'
  <1> SUFFICES ASSUME NEW s \in Step
               PROVE  /\ BackgroundIsRight(s) => BackgroundIsRight(s)'
                      /\ FocusIsRight(s) => FocusIsRight(s)'
                      /\ NoticeIsRight(s) /\ (s.activity \in late' => s.activity \in late) => NoticeIsRight(s)'
    OBVIOUS
  <1>1. Highest' = Highest /\ OnChannels' = OnChannels /\ Untold' = Untold
    BY OnChannelsKept DEF Highest, Untold
  <1>2. \A n, a, c : IsRight(n, a, c) => IsRight(n, a, c)'
    BY RightIsKept
  <1>3. BackgroundIsRight(s) => BackgroundIsRight(s)'
    BY <1>1 DEF BackgroundIsRight
  <1>4. FocusIsRight(s) => FocusIsRight(s)'
    <2>1. IsRight(s, Head(activities[s.channel]), s.channel) => IsRight(s, Head(activities[s.channel]), s.channel)'
      BY <1>1 DEF IsRight
    <2> QED
      BY <1>1, <2>1 DEF FocusIsRight
  <1>5. NoticeIsRight(s) /\ (s.activity \in late' => s.activity \in late) => NoticeIsRight(s)'
    <2>1. s.op = "notify" => s.activity \in Activity
      BY StepKinds
    <2>2. IsRight(s, s.activity, ChannelOf[s.activity]) => IsRight(s, s.activity, ChannelOf[s.activity])'
      BY <1>1 DEF IsRight
    <2>3. MayWait(s.activity) => MayWait(s.activity)'
      BY DEF MayWait
    <2> QED
      BY <1>1, <2>1, <2>2, <2>3 DEF NoticeIsRight
  <1> QED
    BY <1>3, <1>4, <1>5

\* Activities that stay where they are, and know what they knew.
Floor == Placed /\ Told /\ Patiently /\ SecondsMayWait /\ SecondPlaceEnds

LEMMA FloorIsKept ==
    ASSUME TypeOK, Floor, UNCHANGED <<activities, told, late, initiator, receiver>>,
           \A c \in Channel : timer'[c] = "off" <=> timer[c] = "off", acquired \subseteq acquired'
    PROVE  Floor' /\ OnChannels' = OnChannels
  <1>1. OnChannels' = OnChannels
    BY OnChannelsKept
  <1>2. UNCHANGED <<initiator, receiver>> /\ \A c \in Channel : timer'[c] # "off" <=> timer[c] # "off"
    OBVIOUS
  <1>3. Placed'
    BY DEF Placed, Floor
  <1>4. Told'
    BY DEF Told, Floor, Untold, Gone
  <1>5. Patiently' /\ SecondsMayWait'
    BY <1>2 DEF Patiently, SecondsMayWait, MayWait, Floor
  <1>6. \A c \in Channel : WasReplaced(c) => WasReplaced(c)'
    <2>1. \A a \in OnChannels' \ OnChannels : told[a] = Untold
      BY <1>1
    <2>2. \A a \in Activity : told[a] # Untold => told'[a] # Untold
      OBVIOUS
    <2> QED
      BY <2>1, <2>2, ReplacedForEver
  <1>7. SecondPlaceEnds'
    <2> SUFFICES ASSUME NEW c \in Channel, Len(activities[c]) > 1
                 PROVE  \/ timer[c] # "off" /\ activities[c] = <<initiator[c], receiver[c]>>
                        \/ WasReplaced(c)'
      BY <1>2 DEF SecondPlaceEnds
    <2> QED
      BY <1>6 DEF Floor, SecondPlaceEnds
  <1> QED
    BY <1>1, <1>3, <1>4, <1>5, <1>7 DEF Floor

\* A call changes none of what concerns the channels and the steps.
Fixed == Ordered /\ Phased /\ Active /\ StepsAreRight /\ Settling /\ SecondsPause /\ ForegroundIsOne

LEMMA CallsLeaveThis ==
    ASSUME IInv, UNCHANGED <<todo, activeChannels, activities, focus, initiator, receiver, told, late>>,
           \A c \in Channel : timer'[c] = "off" <=> timer[c] = "off", acquired \subseteq acquired'
    PROVE  Floor' /\ Fixed' /\ OnChannels' = OnChannels /\ Steps' = Steps
  <1>1. /\ TypeOK /\ Floor /\ Fixed
    BY DEF IInv, Floor, Fixed
  <1>2. Floor' /\ OnChannels' = OnChannels
    BY <1>1, FloorIsKept
  <1>3. Steps' = Steps
    BY DEF Steps
  <1>4. Ordered' /\ Phased'
    BY <1>1, <1>3 DEF Fixed, Ordered, Phased, Leaves
  <1>5. Active'
    BY <1>1, <1>3 DEF Fixed, Active
  <1>6. Highest' = Highest /\ \A n, a, c : IsRight(n, a, c) => IsRight(n, a, c)'
    BY <1>1, RightIsKept DEF Highest
  <1>7. StepsAreRight'
    <2> SUFFICES ASSUME NEW s \in Steps PROVE StepIsRight(s)'
      BY <1>3 DEF StepsAreRight
    <2>1. StepIsRight(s) /\ s \in Step
      BY StepsAreSteps DEF IInv, StepsAreRight
    <2>2. AttachIsRight(s)' /\ RemoveIsRight(s)'
      BY <1>3, <2>1 DEF StepIsRight, AttachIsRight, RemoveIsRight, Pending
    <2>3. BackgroundIsRight(s)' /\ FocusIsRight(s)' /\ NoticeIsRight(s)'
      BY <1>1, <2>1, StepsStayRight DEF StepIsRight
    <2> QED
      BY <2>2, <2>3 DEF StepIsRight
  <1>8. Settling'
    <2> SUFFICES ASSUME ~Leaves, NEW c \in activeChannels, ~Pending(c) PROVE Settled(c)'
      BY <1>1, <1>3 DEF Settling, Leaves, Pending
    <2>1. Settled(c)
      BY <1>1 DEF Fixed, Settling
    <2>2. ASSUME NEW a \in Range(activities[c])
          PROVE  WillHear(a) \/ IsRight(told[a], a, c)'
      BY <1>6, <2>1 DEF Settled
    <2> QED
      BY <1>1, <1>3, <1>6, <2>1, <2>2 DEF Settled, WillHear, IsRight
  <1>9. SecondsPause'
    BY <1>1, <1>3 DEF Fixed, SecondsPause, Fresh, WillHear, Leaves, Untold
  <1>10. ForegroundIsOne'
    BY <1>1, <1>3 DEF Fixed, ForegroundIsOne, OneForegroundChannel, Foregrounded
  <1> QED
    BY <1>2, <1>3, <1>4, <1>5, <1>7, <1>8, <1>9, <1>10 DEF Fixed

-----------------------------------------------------------------------------
(***************************************************************************)
(* The first state, and the calls.                                         *)
(***************************************************************************)
LEMMA InitInv == Init => IInv
  <1> SUFFICES ASSUME Init PROVE IInv
    OBVIOUS
  <1>1. TypeOK
    BY FocusAssumption DEF Init, TypeOK, FocusState, Behavior, Untold
  <1>2. todo = <<>> /\ tasks = <<>> /\ Steps = {} /\ DOMAIN tasks = {} /\ DOMAIN todo = {}
    BY DEF Init, Steps, Range
  <1>3. TasksOK
    BY <1>2 DEF TasksOK
  <1>4. \A c \in Channel : activities[c] = <<>> /\ Range(activities[c]) = {} /\ DOMAIN activities[c] = {}
    BY DEF Init, Range
  <1>5. OnChannels = {}
    BY <1>4 DEF OnChannels
  <1>6. Ordered /\ Phased /\ Placed
    BY <1>2, <1>4 DEF Ordered, InOrder, Phased, Leaves, Placed
  <1>7. Waiting /\ Known /\ Told
    BY <1>2 DEF Init, Waiting, Known, Told
  <1>8. Patiently /\ SecondsMayWait /\ StopsFirst /\ StopsReach
    BY <1>2, <1>4, <1>5 DEF Init, Patiently, SecondsMayWait, StopsFirst, StopsReach
  <1>9. Active /\ StepsAreRight /\ Settling /\ SecondsPause
    BY <1>2, <1>4 DEF Init, Active, StepsAreRight, Settling, SecondsPause, Fresh
  <1>10. ForegroundIsOne
    BY <1>2 DEF Init, ForegroundIsOne, OneForegroundChannel, Foregrounded, Untold
  <1>11. Left
    BY DEF Init, Left, OnChannels
  <1>12. SecondPlaceEnds
    <2> SUFFICES ASSUME NEW c \in Channel PROVE ~(Len(activities[c]) > 1)
      BY DEF SecondPlaceEnds
    <2> QED
      BY <1>4
  <1> QED
    BY <1>1, <1>3, <1>6, <1>7, <1>8, <1>9, <1>10, <1>11, <1>12 DEF IInv

\* What a call leaves to be shown.
LEMMA CallsKeep ==
    ASSUME IInv, UNCHANGED <<todo, activeChannels, activities, focus, initiator, receiver, told, late>>,
           \A c \in Channel : timer'[c] = "off" <=> timer[c] = "off", acquired \subseteq acquired',
           TypeOK', TasksOK', Waiting', Known', StopsFirst', StopsReach', Left'
    PROVE  IInv'
  <1>1. Floor' /\ Fixed'
    BY CallsLeaveThis
  <1> QED
    BY <1>1 DEF IInv, Floor, Fixed

\* The timer goes off, or the executor waits for its thread.
LEMMA TimerKeeps ==
    ASSUME IInv, TypeOK',
           UNCHANGED <<executor, activeChannels, activities, focus, initiator, receiver, told, late, clients>>,
           \A c \in Channel : timer'[c] = "off" <=> timer[c] = "off"
    PROVE  IInv'
  <1>1. /\ UNCHANGED <<tasks, todo, acquired, stopped>>
        /\ TasksOK /\ Waiting /\ Known /\ StopsFirst /\ StopsReach /\ Left
    BY DEF IInv, executor, clients, observers
  <1>2. OnChannels' = OnChannels /\ Steps' = Steps
    BY <1>1, CallsLeaveThis
  <1>3. TasksOK' /\ StopsFirst' /\ Known'
    BY <1>1, <1>2 DEF TasksOK, StopsFirst, IsStop, Known, Awaits, Untold
  <1>4. Waiting'
    BY <1>1, <1>2 DEF Waiting, Awaits, Unborn, Untold
  <1>5. StopsReach' /\ Left'
    BY <1>1, <1>2 DEF StopsReach, WillStop, IsFirst, Left, MayWait, Paused, Untold
  <1> QED
    BY <1>1, <1>3, <1>4, <1>5, CallsKeep

LEMMA TimerExpiresKeeps ==
    ASSUME IInv, NEW c \in Channel, TimerExpires(c)
    PROVE  IInv'
  <1>1. TypeOK'
    BY DEF IInv, TypeOK, TimerExpires, executor, clients, observers
  <1>2. \A d \in Channel : timer'[d] = "off" <=> timer[d] = "off"
    BY DEF IInv, TypeOK, TimerExpires
  <1> QED
    BY <1>1, <1>2, TimerKeeps DEF TimerExpires, observers

LEMMA GetStuckKeeps ==
    ASSUME IInv, NEW c \in Channel, GetStuck(c)
    PROVE  IInv'
  <1>1. TypeOK'
    BY DEF IInv, TypeOK, GetStuck, channels, patience, clients, observers
  <1>2. UNCHANGED <<executor, activities, focus, initiator, receiver, timer>>
    BY DEF GetStuck, executor, channels, patience
  <1> QED
    BY <1>1, <1>2, TimerKeeps DEF GetStuck, observers

\* A stop that is to come is to come.
LEMMA StopsStay ==
    ASSUME Steps \subseteq Steps',
           \A i \in DOMAIN tasks : \E k \in DOMAIN tasks' : tasks'[k] = tasks[i]
    PROVE  \A a : WillStop(a) => WillStop(a)'
  BY DEF WillStop

LEMMA AcquireKeeps ==
    ASSUME IInv, NEW a \in Activity, AcquireChannel(a)
    PROVE  IInv'
  <1> DEFINE task == [op |-> "acquire", activity |-> a]
             n == Len(tasks)
  <1>1. /\ TypeOK /\ TasksOK /\ Placed /\ Waiting /\ Known /\ StopsFirst /\ StopsReach /\ Left
        /\ a \notin acquired /\ acquired' = acquired \cup {a} /\ tasks' = Append(tasks, task)
        /\ UNCHANGED <<todo, activeChannels, channels, told, late, stuck, released, stopped, stops>>
        /\ UNCHANGED <<activities, focus, timer, initiator, receiver>>
    BY DEF IInv, AcquireChannel, channels, patience, observers
  <1>2. task \in Task
    BY DEF Task
  <1> HIDE DEF task
  <1>3. /\ tasks' \in Seq(Task) /\ n \in Nat /\ DOMAIN tasks = 1..n
        /\ DOMAIN tasks' = 1..(n + 1)
        /\ \A i \in 1..n : tasks'[i] = tasks[i]
        /\ tasks'[n + 1] = task
    BY <1>1, <1>2, TaskAppended
  <1> HIDE DEF n
  <1>4. OnChannels' = OnChannels /\ Steps' = Steps
    BY <1>1, CallsLeaveThis
  <1>5. task.op = "acquire" /\ task.activity = a
    BY DEF task
  <1>6. a \notin OnChannels
    BY <1>1, OnChannelsAre
  <1>7. TypeOK'
    BY <1>1 DEF TypeOK
  <1>8. TasksOK'
    BY <1>1, <1>3 DEF TasksOK
  <1>9. told[a] = Untold /\ Untold' = Untold
    BY <1>1 DEF Waiting, Untold
  <1>10. Waiting'
    <2> DEFINE Un(x) == x \in acquired' /\ x \notin OnChannels' /\ told'[x] = Untold
    <2>1. \A x : Unborn(x) => Un(x) /\ x # a
      BY <1>1, <1>4 DEF Unborn
    <2>2. Un(a)
      BY <1>1, <1>4, <1>6, <1>9
    <2>3. \A i \in DOMAIN tasks' : tasks'[i].op = "acquire" =>
              \/ i \in DOMAIN tasks /\ tasks[i].op = "acquire" /\ tasks'[i] = tasks[i]
              \/ i = n + 1 /\ tasks'[i].activity = a
      BY <1>3, <1>5
    <2>4. \A i \in DOMAIN tasks : i # n + 1
      BY <1>3
    <2>5. \A i \in DOMAIN tasks : tasks[i].op = "acquire" =>
           /\ Unborn(tasks[i].activity)
           /\ \A s \in Steps : s.op = "attach" => s.activity # tasks[i].activity
           /\ \A j \in DOMAIN tasks \ {i} : tasks[j].op = "acquire" => tasks[j].activity # tasks[i].activity
      BY <1>1 DEF Waiting, Awaits
    <2>6. \A s \in Steps : s.op = "attach" => Unborn(s.activity)
      BY <1>1 DEF Waiting
    <2> HIDE DEF Un
    <2>7. ASSUME NEW i \in DOMAIN tasks', tasks'[i].op = "acquire"
          PROVE  /\ Un(tasks'[i].activity)
                 /\ \A s \in Steps : s.op = "attach" => s.activity # tasks'[i].activity
                 /\ \A j \in DOMAIN tasks' \ {i} : tasks'[j].op = "acquire" => tasks'[j].activity # tasks'[i].activity
      <3>1. CASE i \in DOMAIN tasks /\ tasks[i].op = "acquire" /\ tasks'[i] = tasks[i]
        BY <2>1, <2>3, <2>4, <2>5, <3>1
      <3>2. CASE i = n + 1 /\ tasks'[i].activity = a
        BY <2>1, <2>2, <2>3, <2>4, <2>5, <2>6, <3>2
      <3> QED
        BY <2>3, <2>7, <3>1, <3>2
    <2>8. \A s \in Steps : s.op = "attach" => Un(s.activity)
      BY <2>1, <2>6
    <2>9. \A x \in Activity \ acquired' : told'[x] = Untold
      BY <1>1 DEF Waiting
    <2> QED
      BY <1>4, <1>9, <2>7, <2>8, <2>9 DEF Waiting, Awaits, Unborn, Un
  <1>11. Known'
    <2> SUFFICES ASSUME NEW x \in acquired'
        PROVE \/ told[x] # Untold
              \/ x \in OnChannels
              \/ \E i \in DOMAIN tasks' : tasks'[i].op = "acquire" /\ tasks'[i].activity = x
              \/ \E s \in Steps : s.op = "attach" /\ s.activity = x
      BY <1>1, <1>4, <1>9 DEF Known, Awaits
    <2>1. CASE x = a
      <3>1. n + 1 \in DOMAIN tasks' /\ tasks'[n + 1].op = "acquire" /\ tasks'[n + 1].activity = a
        BY <1>3, <1>5
      <3> QED
        BY <2>1, <3>1
    <2>2. CASE x # a
      <3>1. \A i \in DOMAIN tasks : i \in DOMAIN tasks' /\ tasks'[i] = tasks[i]
        BY <1>3
      <3> QED
        BY <1>1, <2>2, <3>1 DEF Known, Awaits
    <2> QED
      BY <2>1, <2>2
  <1>12. StopsFirst'
    BY <1>1, <1>3, <1>5 DEF StopsFirst, IsStop
  <1>13. StopsReach'
    <2>1. \A i \in DOMAIN tasks : \E k \in DOMAIN tasks' : tasks'[k] = tasks[i]
      BY <1>3
    <2>2. \A x : WillStop(x) => WillStop(x)'
      BY <1>4, <2>1, StopsStay
    <2> QED
      BY <1>1, <1>4, <2>2 DEF StopsReach, IsFirst, Untold
  <1>14. Left'
    <2>1. told[a].focus = "NONE"
      BY <1>9 DEF Untold
    <2> QED
      BY <1>1, <1>4, <2>1 DEF Left, MayWait, Paused
  <1> QED
    BY <1>1, <1>7, <1>8, <1>10, <1>11, <1>12, <1>13, <1>14, CallsKeep

\* A task that waits and acquires nothing.
LEMMA WaitingStays ==
    ASSUME TasksOK, Waiting, Known, OnChannels' = OnChannels, Steps' = Steps,
           UNCHANGED <<acquired, told, late>>,
           NEW g, NEW task, task.op # "acquire",
           \A i \in DOMAIN tasks : g[i] \in DOMAIN tasks' /\ tasks'[g[i]] = tasks[i],
           \A k \in DOMAIN tasks' : tasks'[k] = task \/ \E i \in DOMAIN tasks : k = g[i]
    PROVE  Waiting' /\ Known'
  <1>1. Untold' = Untold
    BY DEF Untold
  <1> DEFINE Un(x) == x \in acquired' /\ x \notin OnChannels' /\ told'[x] = Untold
  <1>3. \A k \in DOMAIN tasks' : tasks'[k].op = "acquire" =>
            \E i \in DOMAIN tasks : k = g[i] /\ tasks[i].op = "acquire"
    OBVIOUS
  <1>4. \A i \in DOMAIN tasks : tasks[i].op = "acquire" =>
            g[i] \in DOMAIN tasks' /\ tasks'[g[i]].op = "acquire" /\ tasks'[g[i]] = tasks[i]
    OBVIOUS
  <1>5. \A i \in DOMAIN tasks : tasks[i].op = "acquire" =>
           /\ Un(tasks[i].activity)
           /\ \A s \in Steps : s.op = "attach" => s.activity # tasks[i].activity
           /\ \A j \in DOMAIN tasks \ {i} : tasks[j].op = "acquire" => tasks[j].activity # tasks[i].activity
    BY DEF Waiting, Awaits, Unborn
  <1>6. ASSUME NEW k \in DOMAIN tasks', tasks'[k].op = "acquire"
        PROVE  /\ Un(tasks'[k].activity)
               /\ \A s \in Steps : s.op = "attach" => s.activity # tasks'[k].activity
               /\ \A j \in DOMAIN tasks' \ {k} : tasks'[j].op = "acquire" => tasks'[j].activity # tasks'[k].activity
    <2>1. PICK i \in DOMAIN tasks : k = g[i] /\ tasks[i].op = "acquire"
      BY <1>3, <1>6
    <2>2. tasks'[k] = tasks[i]
      BY <2>1
    <2>3. ASSUME NEW j \in DOMAIN tasks' \ {k}, tasks'[j].op = "acquire" PROVE tasks'[j].activity # tasks'[k].activity
      <3>1. PICK l \in DOMAIN tasks : j = g[l] /\ tasks[l].op = "acquire"
        BY <1>3, <2>3
      <3>2. tasks'[j] = tasks[l] /\ l # i
        BY <2>1, <3>1
      <3> QED
        BY <1>5, <2>1, <2>2, <3>1, <3>2
    <2> QED
      BY <1>5, <2>1, <2>2, <2>3
  <1>7. Waiting'
    <2>1. \A s \in Steps : s.op = "attach" => Un(s.activity)
      BY DEF Waiting, Unborn
    <2>2. \A x \in Activity \ acquired : told[x] = Untold
      BY DEF Waiting
    <2> HIDE DEF Un
    <2> QED
      BY <1>1, <1>6, <2>1, <2>2 DEF Waiting, Awaits, Unborn, Un
  <1>8. Known'
    BY <1>1, <1>4 DEF Known, Awaits
  <1> QED
    BY <1>7, <1>8

LEMMA ReleaseKeeps ==
    ASSUME IInv, NEW a \in Activity, ReleaseChannel(a)
    PROVE  IInv'
  <1> DEFINE task == [op |-> "release", channel |-> ChannelOf[a], interface |-> InterfaceOf[a]]
             n == Len(tasks)
             g == [i \in 1..n |-> i]
  <1>1. /\ TypeOK /\ TasksOK /\ Waiting /\ Known /\ StopsFirst /\ StopsReach /\ Left
        /\ released' = released \cup {a} /\ tasks' = Append(tasks, task)
        /\ UNCHANGED <<todo, activeChannels, channels, told, late, stuck, acquired, stopped, stops>>
        /\ UNCHANGED <<activities, focus, timer, initiator, receiver>>
    BY DEF IInv, ReleaseChannel, channels, patience, observers
  <1>2. task \in Task /\ task.op = "release"
    BY FocusAssumption DEF Task, Names
  <1> HIDE DEF task
  <1>3. /\ tasks' \in Seq(Task) /\ n \in Nat /\ DOMAIN tasks = 1..n
        /\ DOMAIN tasks' = 1..(n + 1)
        /\ \A i \in 1..n : tasks'[i] = tasks[i]
        /\ tasks'[n + 1] = task
    BY <1>1, <1>2, TaskAppended
  <1> HIDE DEF n
  <1>4. OnChannels' = OnChannels /\ Steps' = Steps
    BY <1>1, CallsLeaveThis
  <1>5. TypeOK'
    BY <1>1 DEF TypeOK
  <1>6. TasksOK'
    BY <1>1, <1>3 DEF TasksOK
  <1>7. Waiting' /\ Known'
    <2>1. \A i \in DOMAIN tasks : g[i] \in DOMAIN tasks' /\ tasks'[g[i]] = tasks[i]
      BY <1>3
    <2>2. \A k \in DOMAIN tasks' : tasks'[k] = task \/ \E i \in DOMAIN tasks : k = g[i]
      <3> SUFFICES ASSUME NEW k \in DOMAIN tasks', k # n + 1 PROVE k \in 1..n /\ k = g[k]
        BY <1>3
      <3> QED
        BY <1>3
    <2> HIDE DEF g
    <2> QED
      BY <1>1, <1>2, <1>4, <2>1, <2>2, WaitingStays
  <1>8. StopsFirst'
    BY <1>1, <1>2, <1>3 DEF StopsFirst, IsStop
  <1>9. StopsReach'
    <2>1. \A i \in DOMAIN tasks : \E k \in DOMAIN tasks' : tasks'[k] = tasks[i]
      BY <1>3
    <2>2. \A x : WillStop(x) => WillStop(x)'
      BY <1>4, <2>1, StopsStay
    <2> QED
      BY <1>1, <1>4, <2>2 DEF StopsReach, IsFirst, Untold
  <1>10. Left'
    BY <1>1, <1>4 DEF Left, MayWait, Paused
  <1> QED
    BY <1>1, <1>5, <1>6, <1>7, <1>8, <1>9, <1>10, CallsKeep

\* A stop that overtakes the others.  It reaches those that come first now.
LEMMA StopKeeps ==
    ASSUME IInv, NEW task \in Task, IsStop(task), Stop(task),
           \/ UNCHANGED stopped
           \/ /\ stopped' = stopped \cup {Head(activities[c]) : c \in Owned}
              /\ task = [op |-> "stopAll", owners |-> [c \in Owned |-> Captured(c)]]
    PROVE  IInv'
  <1> DEFINE n == Len(tasks)
             g == [i \in 1..n |-> i + 1]
  <1>1. /\ TypeOK /\ TasksOK /\ Placed /\ Waiting /\ Known /\ StopsFirst /\ StopsReach /\ Left
        /\ stops' = stops + 1 /\ stops < MaxStops /\ tasks' = <<task>> \o tasks
        /\ UNCHANGED <<todo, activeChannels, channels, told, late, stuck, acquired, released>>
        /\ UNCHANGED <<activities, focus, timer, initiator, receiver>>
    BY DEF IInv, Stop, channels, patience, observers
  <1>2. /\ tasks' \in Seq(Task) /\ n \in Nat /\ DOMAIN tasks = 1..n
        /\ DOMAIN tasks' = 1..(n + 1)
        /\ \A i \in 1..n : tasks'[i + 1] = tasks[i]
        /\ tasks'[1] = task
    BY <1>1, TaskPrepended
  <1> HIDE DEF n
  <1>3. OnChannels' = OnChannels /\ Steps' = Steps
    BY <1>1, CallsLeaveThis
  <1>4. stopped' \subseteq stopped \cup {Head(activities[c]) : c \in Owned}
    OBVIOUS
  <1>5. \A c \in Owned : /\ c \in Channel /\ activities[c] # <<>> /\ activities[c] \in Seq(Activity)
                         /\ Head(activities[c]) = activities[c][1] /\ 1 \in DOMAIN activities[c]
                         /\ Head(activities[c]) \in Activity /\ ChannelOf[Head(activities[c])] = c
    BY <1>1, OnChannelsAre DEF Owned, TypeOK
  <1>6. TypeOK'
    <2>1. stopped' \subseteq Activity
      BY <1>1, <1>4, <1>5 DEF TypeOK
    <2>2. stops' \in 0..MaxStops
      BY <1>1, FocusAssumption DEF TypeOK
    <2> QED
      BY <1>1, <2>1, <2>2 DEF TypeOK
  <1>7. TasksOK'
    BY <1>1, <1>2 DEF TasksOK
  <1>8. Waiting' /\ Known'
    <2>1. \A i \in DOMAIN tasks : g[i] \in DOMAIN tasks' /\ tasks'[g[i]] = tasks[i]
      BY <1>2
    <2>2. \A k \in DOMAIN tasks' : tasks'[k] = task \/ \E i \in DOMAIN tasks : k = g[i]
      <3> SUFFICES ASSUME NEW k \in DOMAIN tasks', k # 1 PROVE k - 1 \in 1..n /\ k = g[k - 1]
        BY <1>2
      <3> QED
        BY <1>2
    <2>3. task.op # "acquire"
      BY DEF IsStop
    <2> HIDE DEF g
    <2>4. TasksOK /\ Waiting /\ Known /\ UNCHANGED <<acquired, told, late>>
      BY <1>1
    <2> QED
      BY ONLY <1>3, <2>1, <2>2, <2>3, <2>4, WaitingStays
  <1>9. StopsFirst'
    <2> SUFFICES ASSUME NEW i \in 1..(n + 1), NEW j \in 1..(n + 1), i < j, IsStop(tasks'[j])
                 PROVE  IsStop(tasks'[i])
      BY <1>2 DEF StopsFirst, IsStop
    <2>1. CASE i = 1
      BY <1>2, <2>1
    <2>2. CASE i # 1
      <3>1. i - 1 \in 1..n /\ j - 1 \in 1..n /\ i - 1 < j - 1 /\ (i - 1) + 1 = i /\ (j - 1) + 1 = j
        BY <1>2, <2>2
      <3>2. tasks'[i] = tasks[i - 1] /\ tasks'[j] = tasks[j - 1]
        BY <1>2, <3>1
      <3> QED
        BY <1>1, <1>2, <3>1, <3>2 DEF StopsFirst
    <2> QED
      BY <2>1, <2>2
  <1>10. StopsReach'
    <2>1. \A i \in DOMAIN tasks : \E k \in DOMAIN tasks' : tasks'[k] = tasks[i]
      <3> SUFFICES ASSUME NEW i \in 1..n PROVE i + 1 \in 1..(n + 1) /\ tasks'[i + 1] = tasks[i]
        BY <1>2
      <3> QED
        BY <1>2
    <2>2. \A x : WillStop(x) => WillStop(x)'
      BY <1>3, <2>1, StopsStay
    <2>3. \A x : IsFirst(x) => IsFirst(x)'
      BY <1>1 DEF IsFirst
    <2>4. ASSUME NEW a \in stopped' \cap OnChannels
          PROVE  /\ WillStop(a)' /\ IsFirst(a)'
                 /\ \A s \in Steps : s.op = "attach" /\ ChannelOf[s.activity] = ChannelOf[a] =>
                       a = Head(activities[ChannelOf[a]])
      <3>1. CASE a \in stopped
        BY <1>1, <2>2, <2>3, <2>4, <3>1 DEF StopsReach
      <3>2. CASE a \notin stopped
        <4>1. PICK c \in Owned : a = Head(activities[c])
          BY <1>4, <2>4, <3>2
        <4>2. /\ task = [op |-> "stopAll", owners |-> [d \in Owned |-> Captured(d)]]
              /\ ChannelOf[a] = c /\ c \in Channel
          BY <1>5, <2>4, <3>2, <4>1
        <4>3. Captured(c) = InterfaceOf[a]
          BY <1>5, <4>1 DEF Captured, Interfaces
        <4>4. task.op = "stopAll" /\ c \in DOMAIN task.owners /\ task.owners[c] = InterfaceOf[a]
          BY <4>2, <4>3
        <4>5. WillStop(a)'
          <5>1. 1 \in DOMAIN tasks'
            BY <1>2
          <5> QED
            BY <1>2, <4>2, <4>4, <5>1 DEF WillStop
        <4>6. IsFirst(a)
          <5> SUFFICES ASSUME NEW d \in Channel, NEW i \in DOMAIN activities[d], NEW j \in DOMAIN activities[d],
                              activities[d][j] = a, i < j
                       PROVE  FALSE
            BY DEF IsFirst
          <5>1. d = c
            BY <1>1, <4>2, OnChannelsAre
          <5>2. activities[c][1] = a /\ 1 \in DOMAIN activities[c]
            BY <1>5, <4>1
          <5>3. j = 1
            BY <1>1, <4>2, <5>1, <5>2 DEF Placed
          <5>4. i \in Nat /\ i >= 1
            BY <1>5, <5>1
          <5> QED
            BY <5>3, <5>4
        <4> QED
          BY <2>3, <4>1, <4>2, <4>5, <4>6
      <3> QED
        BY <3>1, <3>2
    <2>5. \A a \in stopped' : a \in OnChannels \/ told[a] # Untold
      <3>1. \A c \in Owned : Head(activities[c]) \in OnChannels
        BY <1>1, <1>5, OnChannelsAre
      <3> QED
        BY <1>1, <1>4, <3>1 DEF StopsReach
    <2> QED
      BY <1>1, <1>3, <2>4, <2>5 DEF StopsReach, Untold
  <1>11. Left'
    BY <1>1, <1>3 DEF Left, MayWait, Paused
  <1> QED
    BY <1>1, <1>6, <1>7, <1>8, <1>9, <1>10, <1>11, CallsKeep

LEMMA StopsKeep ==
    ASSUME IInv, StopForegroundActivity \/ StopAllActivities
    PROVE  IInv'
  <1>1. CASE StopForegroundActivity
    <2> DEFINE task == [op |-> "stop", channel |-> Highest, interface |-> Interface(Highest)]
    <2>1. Stop(task) /\ UNCHANGED stopped /\ activeChannels # {}
      BY <1>1 DEF StopForegroundActivity, Stop
    <2>2. Highest \in Channel
      BY <2>1, HighestIs DEF IInv
    <2>3. Interface(Highest) \in Names
      <3>1. activities[Highest] \in Seq(Activity)
        BY <2>2 DEF IInv, TypeOK
      <3>2. activities[Highest] # <<>> =>
                /\ 1 \in DOMAIN activities[Highest] /\ activities[Highest][1] \in Activity
                /\ Interface(Highest) = InterfaceOf[activities[Highest][1]]
        BY <3>1 DEF Interface, Interfaces
      <3>3. activities[Highest] = <<>> => Interface(Highest) = ""
        BY DEF Interface
      <3> QED
        BY <3>2, <3>3 DEF Names
    <2>4. task \in Task /\ IsStop(task)
      BY <2>2, <2>3 DEF Task, IsStop
    <2> HIDE DEF task
    <2> QED
      BY <2>1, <2>4, StopKeeps
  <1>2. CASE StopAllActivities
    <2> DEFINE task == [op |-> "stopAll", owners |-> [c \in Owned |-> Captured(c)]]
    <2>1. Stop(task) /\ stopped' = stopped \cup {Head(activities[c]) : c \in Owned}
      BY <1>2 DEF StopAllActivities
    <2>2. Owned \in SUBSET Channel
      BY DEF IInv, TypeOK, Owned
    <2>3. \A c \in Owned : Captured(c) \in Names
      <3> SUFFICES ASSUME NEW c \in Owned PROVE Captured(c) \in Names
        OBVIOUS
      <3>1. activities[c] \in Seq(Activity) /\ activities[c] # <<>>
        BY <2>2 DEF IInv, TypeOK, Owned
      <3>2. 1 \in DOMAIN activities[c] /\ activities[c][1] \in Activity
        BY <3>1
      <3>3. Captured(c) = InterfaceOf[activities[c][1]]
        BY <3>1, <3>2 DEF Captured, Interfaces
      <3> QED
        BY <3>2, <3>3 DEF Names
    <2>4. task \in Task /\ IsStop(task)
      <3>1. [c \in Owned |-> Captured(c)] \in [Owned -> Names]
        BY <2>3
      <3>2. [c \in Owned |-> Captured(c)] \in UNION {[S -> Names] : S \in SUBSET Channel}
        BY <2>2, <3>1
      <3> QED
        BY <3>2 DEF Task, IsStop
    <2> QED
      BY <2>1, <2>4, StopKeeps
  <1> QED
    BY <1>1, <1>2

-----------------------------------------------------------------------------
(***************************************************************************)
(* Steps that move no activity and tell none.                              *)
(***************************************************************************)
\* The executor's queue when it goes on, or takes a task that acquires nothing.
LEMMA QueueGoesOn ==
    ASSUME TasksOK, Waiting, Known, StopsFirst, UNCHANGED acquired,
           \/ tasks' = tasks
           \/ tasks # <<>> /\ Head(tasks).op # "acquire" /\ tasks' = Tail(tasks),
           \A s \in Steps' : s.op = "attach" => s \in Steps,
           \A s \in Steps : s.op = "attach" => s \in Steps',
           \A a \in acquired : IF a \notin OnChannels /\ told[a] = Untold
                               THEN a \notin OnChannels' /\ told'[a] = Untold
                               ELSE a \in OnChannels' \/ told'[a] # Untold,
           \A a \in Activity \ acquired : told'[a] = told[a]
    PROVE  /\ tasks' \in Seq(Task) /\ Waiting' /\ Known' /\ StopsFirst'
           /\ \A i \in DOMAIN tasks : tasks[i].op = "stopAll" /\ (tasks' = tasks \/ Head(tasks).op # "stopAll") =>
                  \E k \in DOMAIN tasks' : tasks'[k] = tasks[i]
  <1> DEFINE g == IF tasks' = tasks THEN 0 ELSE 1
             Un(x) == x \in acquired' /\ x \notin OnChannels' /\ told'[x] = Untold
  <1>1. /\ tasks' \in Seq(Task) /\ g \in Nat
        /\ \A k \in DOMAIN tasks' : k + g \in DOMAIN tasks /\ tasks'[k] = tasks[k + g]
        /\ \A i \in DOMAIN tasks : /\ i \in Nat
                                   /\ \/ i - g \in DOMAIN tasks' /\ tasks'[i - g] = tasks[i]
                                      \/ g = 1 /\ tasks[i] = Head(tasks)
        /\ g = 1 => Head(tasks).op # "acquire"
    <2>1. CASE tasks' = tasks
      <3>1. tasks \in Seq(Task) /\ g = 0
        BY <2>1 DEF TasksOK
      <3>2. \A i \in DOMAIN tasks : i \in Nat /\ i + 0 = i /\ i - 0 = i
        BY <3>1
      <3> HIDE DEF g
      <3> QED
        BY <2>1, <3>1, <3>2
    <2>2. CASE tasks' # tasks
      <3>1. tasks # <<>> /\ tasks' = Tail(tasks) /\ Head(tasks).op # "acquire" /\ g = 1
        BY <2>2
      <3>2. /\ tasks' \in Seq(Task) /\ Len(tasks) \in Nat /\ DOMAIN tasks = 1..Len(tasks)
            /\ DOMAIN tasks' = 1..(Len(tasks) - 1) /\ Len(tasks) >= 1
            /\ \A i \in 1..(Len(tasks) - 1) : tasks'[i] = tasks[i + 1]
            /\ Head(tasks) = tasks[1]
        BY <3>1, TaskTaken
      <3> DEFINE n == Len(tasks)
      <3> HIDE DEF g, n
      <3>3. ASSUME NEW k \in DOMAIN tasks' PROVE k + g \in DOMAIN tasks /\ tasks'[k] = tasks[k + g]
        <4>1. k \in 1..(Len(tasks) - 1) /\ k + 1 \in 1..Len(tasks)
          BY <3>2
        <4>2. k + g = k + 1
          BY <3>1
        <4> QED
          BY <3>2, <4>1, <4>2
      <3>4. ASSUME NEW i \in DOMAIN tasks, i # 1 PROVE i - g \in DOMAIN tasks' /\ tasks'[i - g] = tasks[i]
        <4>1. i - 1 \in 1..(Len(tasks) - 1) /\ (i - 1) + 1 = i
          BY <3>2, <3>4
        <4> QED
          BY <3>1, <3>2, <4>1
      <3>5. \A i \in DOMAIN tasks : i \in Nat
        BY <3>2
      <3> QED
        BY <3>1, <3>2, <3>3, <3>4, <3>5
    <2> QED
      BY <2>1, <2>2
  <1> HIDE DEF g
  <1>2. Untold' = Untold
    BY DEF Untold
  <1>3. \A x : x \in acquired /\ x \notin OnChannels /\ told[x] = Untold => Un(x)
    OBVIOUS
  <1>4. \A i \in DOMAIN tasks : tasks[i].op = "acquire" =>
           /\ Un(tasks[i].activity)
           /\ \A s \in Steps : s.op = "attach" => s.activity # tasks[i].activity
           /\ \A j \in DOMAIN tasks \ {i} : tasks[j].op = "acquire" => tasks[j].activity # tasks[i].activity
    BY <1>3 DEF Waiting, Awaits, Unborn
  <1>5. \A s \in Steps : s.op = "attach" => Un(s.activity)
    BY <1>3 DEF Waiting, Unborn
  <1> HIDE DEF Un
  <1>6. ASSUME NEW k \in DOMAIN tasks', tasks'[k].op = "acquire"
        PROVE  /\ Un(tasks'[k].activity)
               /\ \A s \in Steps' : s.op = "attach" => s.activity # tasks'[k].activity
               /\ \A j \in DOMAIN tasks' \ {k} : tasks'[j].op = "acquire" => tasks'[j].activity # tasks'[k].activity
    <2>1. k + g \in DOMAIN tasks /\ tasks'[k] = tasks[k + g]
      BY <1>1
    <2>2. ASSUME NEW j \in DOMAIN tasks', j # k PROVE j + g # k + g
      <3>1. \A i \in DOMAIN tasks' : i \in Nat
        BY <1>1
      <3> QED
        BY <1>1, <2>2, <3>1
    <2>3. ASSUME NEW j \in DOMAIN tasks' \ {k}, tasks'[j].op = "acquire" PROVE tasks'[j].activity # tasks'[k].activity
      <3>1. j + g \in DOMAIN tasks /\ tasks'[j] = tasks[j + g] /\ j + g # k + g
        BY <1>1, <2>2
      <3> QED
        BY <1>4, <1>6, <2>1, <2>3, <3>1
    <2> QED
      BY <1>4, <1>6, <2>1, <2>3
  <1>7. Waiting'
    <2>1. \A s \in Steps' : s.op = "attach" => Un(s.activity)
      BY <1>5
    <2>2. \A x \in Activity \ acquired' : told'[x] = Untold
      BY DEF Waiting
    <2> QED
      BY <1>2, <1>6, <2>1, <2>2 DEF Waiting, Awaits, Unborn, Un
  <1>8. Known'
    <2> SUFFICES ASSUME NEW a \in acquired, a \notin OnChannels', told'[a] = Untold
                 PROVE  \/ \E i \in DOMAIN tasks' : tasks'[i].op = "acquire" /\ tasks'[i].activity = a
                        \/ \E s \in Steps' : s.op = "attach" /\ s.activity = a
      BY <1>2 DEF Known, Awaits
    <2>1. a \notin OnChannels /\ told[a] = Untold
      OBVIOUS
    <2>2. \/ \E i \in DOMAIN tasks : tasks[i].op = "acquire" /\ tasks[i].activity = a
          \/ \E s \in Steps : s.op = "attach" /\ s.activity = a
      BY <2>1 DEF Known, Awaits
    <2> QED
      BY <1>1, <2>2
  <1>9. StopsFirst'
    <2> SUFFICES ASSUME NEW i \in DOMAIN tasks', NEW j \in DOMAIN tasks', i < j, IsStop(tasks'[j])
                 PROVE  IsStop(tasks'[i])
      BY DEF StopsFirst, IsStop
    <2>1. /\ i + g \in DOMAIN tasks /\ tasks'[i] = tasks[i + g]
          /\ j + g \in DOMAIN tasks /\ tasks'[j] = tasks[j + g]
      BY <1>1
    <2>2. i + g < j + g
      <3>1. i \in Nat /\ j \in Nat
        BY <1>1
      <3> QED
        BY <1>1, <3>1
    <2> QED
      BY <2>1, <2>2 DEF StopsFirst
  <1>10. ASSUME NEW i \in DOMAIN tasks, tasks[i].op = "stopAll", tasks' = tasks \/ Head(tasks).op # "stopAll"
         PROVE  \E k \in DOMAIN tasks' : tasks'[k] = tasks[i]
    BY <1>1, <1>10
  <1> QED
    BY <1>1, <1>7, <1>8, <1>9, <1>10

\* What the steps that move no activity keep.
LEMMA StepsOnly ==
    ASSUME IInv, UNCHANGED <<tasks, activities, told, late, patience, acquired, stopped>>,
           \A s \in Steps' : s.op = "attach" => s \in Steps,
           \A s \in Steps : s.op \in {"attach", "remove"} => s \in Steps'
    PROVE  /\ Floor' /\ OnChannels' = OnChannels /\ Left' /\ tasks' \in Seq(Task)
           /\ Waiting' /\ Known' /\ StopsFirst' /\ StopsReach'
  <1>1. /\ TypeOK /\ TasksOK /\ Floor /\ Waiting /\ Known /\ StopsFirst /\ StopsReach /\ Left
        /\ UNCHANGED <<timer, initiator, receiver>>
    BY DEF IInv, Floor, patience
  <1>2. Floor' /\ OnChannels' = OnChannels
    BY <1>1, FloorIsKept
  <1>3. Left'
    BY <1>1, <1>2 DEF Left, MayWait, Paused
  <1>4. tasks' \in Seq(Task) /\ Waiting' /\ Known' /\ StopsFirst'
    <2>1. \A a \in acquired : IF a \notin OnChannels /\ told[a] = Untold
                               THEN a \notin OnChannels' /\ told'[a] = Untold
                               ELSE a \in OnChannels' \/ told'[a] # Untold
      BY <1>2
    <2>2. \A s \in Steps : s.op = "attach" => s \in Steps'
      OBVIOUS
    <2> QED
      BY <1>1, <2>1, <2>2, QueueGoesOn
  <1>5. StopsReach'
    <2>1. \A x : WillStop(x) => WillStop(x)'
      BY DEF WillStop
    <2>2. \A x : IsFirst(x) => IsFirst(x)'
      BY DEF IsFirst
    <2> QED
      BY <1>1, <1>2, <2>1, <2>2 DEF StopsReach, Untold
  <1> QED
    BY <1>2, <1>3, <1>4, <1>5

\* Unless a step of leaving or attaching is there, the active channels are those
\* with activities.
LEMMA ActiveChannelsAre ==
    ASSUME TypeOK, Active, \A s \in Steps : s.op \notin {"attach", "deactivate"}
    PROVE  \A c \in Channel : c \in activeChannels <=> activities[c] # <<>>
  BY DEF Active

LEMMA ForegroundHighestKeeps ==
    ASSUME IInv, ForegroundHighest
    PROVE  IInv'
  <1> DEFINE h == Head(todo)
             steps == ToBackground(Highest, activeChannels)
             top == ToForeground(Highest)
  <1>1. /\ todo # <<>> /\ h.op = "foreground"
        /\ todo' = (IF activeChannels = {} THEN <<>> ELSE Append(steps, top)) \o Tail(todo)
        /\ UNCHANGED <<tasks, activeChannels, channels, told, late, stuck, clients>>
        /\ UNCHANGED <<tasks, activities, focus, patience, timer, initiator, receiver, acquired, released, stopped, stops>>
    BY DEF ForegroundHighest, Does, channels, patience, clients, observers
  <1>2. /\ TypeOK /\ TasksOK /\ Ordered /\ Phased /\ Active /\ Placed /\ SecondsPause /\ ForegroundIsOne
    BY DEF IInv
  <1>3. Steps = {h} /\ Tail(todo) = <<>>
    BY <1>1, <1>2, FirstStep
  <1>4. top.op = "focus" /\ top.channel = Highest /\ top.focus = "FOREGROUND" /\ top.behavior = "PRIMARY"
    BY DEF ToForeground, SetFocus
  <1>5. CASE activeChannels = {}
    <2>1. todo' = <<>> /\ Steps' = {}
      <3>1. todo' = <<>> \o <<>>
        BY <1>1, <1>3, <1>5
      <3>2. todo' = <<>>
        BY <3>1, OrderOfNone, ConcatEmptySeq
      <3> QED
        BY <3>2, OrderOfNone DEF Steps
    <2> QED
      <3>1. TypeOK' /\ TasksOK' /\ Ordered'
        BY <1>1, <1>2, <2>1, OrderOfNone DEF TypeOK, TasksOK, Ordered
      <3>2. Phased' /\ StepsAreRight' /\ Settling'
        BY <1>1, <1>5, <2>1 DEF Phased, Leaves, StepsAreRight, Settling
      <3>3. Active'
        BY <1>1, <1>2, <1>3, <2>1 DEF Active
      <3>4. SecondsPause' /\ ForegroundIsOne'
        BY <1>1, <1>2, <1>3, <2>1 DEF SecondsPause, ForegroundIsOne, OneForegroundChannel, Foregrounded,
              Fresh, WillHear, Leaves, Untold
      <3>5. /\ Floor' /\ OnChannels' = OnChannels /\ Left' /\ tasks' \in Seq(Task)
            /\ Waiting' /\ Known' /\ StopsFirst' /\ StopsReach'
        BY <1>1, <1>3, <2>1, StepsOnly
      <3> QED
        BY <3>1, <3>2, <3>3, <3>4, <3>5 DEF IInv, Floor
  <1>6. CASE activeChannels # {}
    <2>1. /\ Highest \in activeChannels /\ Highest \in Channel /\ activeChannels \subseteq Channel
          /\ \A c \in activeChannels : Highest <= c
          /\ Channel \subseteq Nat
      BY <1>2, <1>6, HighestIs, FocusAssumption DEF TypeOK
    <2>2. /\ steps \in Seq(Step) /\ InOrder(steps)
          /\ \A s \in Range(steps) : /\ s.op = "background" /\ s.above = Highest
                                     /\ s.channel \in activeChannels /\ s.channel > Highest
          /\ \A d \in activeChannels : d > Highest => \E s \in Range(steps) : s.op = "background" /\ s.channel = d
      BY <2>1, ToBackgroundIs
    <2>3. top \in Step
      BY <2>1 DEF Step, ToForeground, SetFocus, FocusState, Behavior
    <2> HIDE DEF steps, top
    <2>4. Range(steps) \subseteq Step
      BY <2>2, RangeOfSeq
    <2>5. \A s \in Range(steps) : Before(s, top)
      BY <1>4, <2>2, <2>3, <2>4, RankOfKind DEF Before
    <2>6. Append(steps, top) \in Seq(Step) /\ Range(Append(steps, top)) = Range(steps) \cup {top} /\ InOrder(Append(steps, top))
      BY <2>2, <2>3, <2>5, OrderOfAppend
    <2>7. todo' = Append(steps, top)
      BY <1>1, <1>3, <1>6, <2>6, ConcatEmptySeq
    <2>8. Steps' = Range(steps) \cup {top}
      BY <2>6, <2>7 DEF Steps
    <2>9. \A s \in Steps' : \/ /\ s.op = "background" /\ s.above = Highest
                               /\ s.channel \in activeChannels /\ s.channel > Highest
                            \/ s = top
      BY <2>2, <2>8
    <2>10. Highest' = Highest /\ Untold' = Untold
      BY <1>1 DEF Highest, Untold
    <2>11. TypeOK' /\ TasksOK' /\ Ordered'
      BY <1>1, <1>2, <2>6, <2>7 DEF TypeOK, TasksOK, Ordered
    <2>12. ~Leaves' /\ Phased'
      BY <1>4, <2>9 DEF Phased, Leaves, Leaving
    <2>13. Active'
      BY <1>1, <1>2, <1>3 DEF Active
    <2>14. StepsAreRight'
      <3> SUFFICES ASSUME NEW s \in Steps' PROVE StepIsRight(s)'
        BY DEF StepsAreRight
      <3>1. CASE s.op = "background"
        BY <1>1, <1>4, <2>1, <2>9, <2>10, <3>1 DEF StepIsRight, AttachIsRight, RemoveIsRight, BackgroundIsRight, FocusIsRight, NoticeIsRight
      <3>2. CASE s = top
        BY <1>1, <1>4, <2>1, <2>10, <3>2 DEF StepIsRight, AttachIsRight, RemoveIsRight, BackgroundIsRight, FocusIsRight, NoticeIsRight
      <3> QED
        BY <2>9, <3>1, <3>2
    <2>15. Settling'
      <3> SUFFICES ASSUME NEW c \in activeChannels PROVE \E s \in Steps' : s.op \in {"background", "focus"} /\ s.channel = c
        BY <1>1 DEF Settling, Pending
      <3>1. CASE c = Highest
        BY <1>4, <2>8, <3>1
      <3>2. CASE c # Highest
        <4>1. c > Highest
          BY <2>1, <3>2
        <4> QED
          BY <2>2, <2>8, <4>1
      <3> QED
        BY <3>1, <3>2
    <2>16. \A s \in Steps' : s.op # "notify"
      BY <1>4, <2>9
    <2>17. SecondsPause' /\ ForegroundIsOne'
      BY <1>1, <1>2, <1>3, <2>12, <2>16 DEF SecondsPause, ForegroundIsOne, OneForegroundChannel, Foregrounded,
            Fresh, WillHear, Leaves, Untold
    <2>18. /\ Floor' /\ OnChannels' = OnChannels /\ Left' /\ tasks' \in Seq(Task)
           /\ Waiting' /\ Known' /\ StopsFirst' /\ StopsReach'
      BY <1>1, <1>3, <1>4, <2>9, StepsOnly
    <2> QED
      BY <2>11, <2>12, <2>13, <2>14, <2>15, <2>17, <2>18 DEF IInv, Floor
  <1> QED
    BY <1>5, <1>6

LEMMA BackgroundChannelKeeps ==
    ASSUME IInv, BackgroundChannel
    PROVE  IInv'
  <1> DEFINE h == Head(todo)
             rest == Range(Tail(todo))
             mix == Mixing[Head(activities[h.channel]), Head(activities[h.above])]
             new == SetFocus(h.channel, "BACKGROUND", mix, FALSE)
  <1>1. /\ todo # <<>> /\ h.op = "background" /\ todo' = <<new>> \o Tail(todo)
        /\ UNCHANGED <<tasks, activeChannels, channels, told, late, stuck, clients>>
        /\ UNCHANGED <<tasks, activities, focus, patience, timer, initiator, receiver, acquired, released, stopped, stops>>
    BY DEF BackgroundChannel, Does, channels, patience, clients, observers
  <1>2. /\ TypeOK /\ TasksOK /\ Ordered /\ Phased /\ Active /\ Placed /\ StepsAreRight /\ Settling
        /\ SecondsPause /\ ForegroundIsOne
    BY DEF IInv
  <1>3. /\ h \in Step /\ h \in Steps /\ Tail(todo) \in Seq(Step) /\ InOrder(Tail(todo))
        /\ Steps = {h} \cup rest /\ rest \subseteq Step
        /\ \A t \in rest : Before(h, t)
        /\ \A t \in rest : \/ t.op \in {"background", "deactivate", "foreground"}
                           \/ t.op = "focus" /\ t.focus = "FOREGROUND"
    BY <1>1, <1>2, FirstStep
  <1> HIDE DEF h, rest
  <1>4. ~Leaving(h) /\ ~Leaves
    BY <1>1, <1>2, <1>3 DEF Phased, Leaving
  <1>5. \A t \in rest : /\ ~Leaving(t)
                        /\ t.op = "background" \/ (t.op = "focus" /\ t.focus = "FOREGROUND")
    BY <1>2, <1>3, <1>4 DEF Phased, Leaving
  <1>6. \A s \in Steps : s.op \notin {"attach", "deactivate", "remove", "notify", "foreground"}
    BY <1>1, <1>3, <1>5
  <1>7. \A c \in Channel : c \in activeChannels <=> activities[c] # <<>>
    BY <1>2, <1>6, ActiveChannelsAre
  <1>8. /\ h.channel \in activeChannels /\ h.above \in activeChannels
        /\ h.above = Highest /\ h.channel > h.above /\ h.channel \in Nat /\ h.channel \in Channel
        /\ h.above \in Channel /\ h.above \in Nat
    BY <1>1, <1>2, <1>3, FocusAssumption DEF StepsAreRight, StepIsRight, BackgroundIsRight, TypeOK
  <1>9. /\ Head(activities[h.channel]) \in Activity /\ Head(activities[h.above]) \in acquired \cap Activity
        /\ ChannelOf[Head(activities[h.above])] = Highest
    BY <1>2, <1>7, <1>8, OnChannelsAre
  <1>10. mix \in {"MAY_DUCK", "MUST_PAUSE"}
    BY <1>9, FocusAssumption
  <1>11. new.op = "focus" /\ new.channel = h.channel /\ new.focus = "BACKGROUND" /\ new.behavior = mix
    BY DEF SetFocus
  <1>12. new \in Step
    BY <1>8, <1>10 DEF Step, SetFocus, FocusState, Behavior
  <1> HIDE DEF new
  <1>13. ASSUME NEW t \in rest PROVE Before(new, t)
    <2>1. t \in Step /\ (t.op = "background" \/ (t.op = "focus" /\ t.focus = "FOREGROUND"))
      BY <1>3, <1>5
    <2>2. Rank(t) \in {3, 4}
      BY <2>1, RankOfKind
    <2>3. Rank(new) = 1
      BY <1>11, <1>12, RankOfKind
    <2> QED
      BY <2>2, <2>3 DEF Before
  <1>14. todo' \in Seq(Step) /\ Steps' = {new} \cup rest /\ InOrder(todo')
    BY <1>1, <1>3, <1>12, <1>13, OrderOfCons DEF rest, Steps
  <1>15. TypeOK' /\ TasksOK' /\ Ordered'
    BY <1>1, <1>2, <1>14 DEF TypeOK, TasksOK, Ordered
  <1>16. ~Leaves' /\ Phased'
    BY <1>5, <1>11, <1>14 DEF Phased, Leaves, Leaving
  <1>17. Highest' = Highest /\ Untold' = Untold
    BY <1>1 DEF Highest, Untold
  <1>18. Active'
    <2> SUFFICES ASSUME NEW c \in Channel, c \notin activeChannels, focus[c] # "NONE"
                 PROVE  FALSE
      BY <1>1, <1>7 DEF Active
    <2>1. PICK s \in Steps : s.op = "focus" /\ s.focus = "NONE"
      BY <1>2 DEF Active
    <2> QED
      BY <1>1, <1>3, <1>5, <2>1
  <1>19. StepsAreRight'
    <2> SUFFICES ASSUME NEW s \in Steps' PROVE StepIsRight(s)'
      BY DEF StepsAreRight
    <2>1. CASE s = new
      <3> DEFINE b == Head(activities[h.above])
      <3>0. /\ s.focus = "BACKGROUND" /\ s.channel = h.channel /\ s.channel # Highest /\ s.op = "focus"
            /\ s.behavior = Mixing[Head(activities[s.channel]), b]
        <4>1. h.channel # Highest
          BY <1>8
        <4>2. s.focus = "BACKGROUND" /\ s.channel = h.channel /\ s.op = "focus" /\ s.behavior = mix
          BY <1>11, <2>1
        <4>3. s.behavior = Mixing[Head(activities[s.channel]), b]
          BY <4>2
        <4> QED
          BY <4>1, <4>2, <4>3
      <3>4. b \in acquired /\ ChannelOf[b] = Highest
        BY <1>9
      <3> HIDE DEF b
      <3>1. IsRight(s, Head(activities[s.channel]), s.channel)
        BY <3>0, <3>4 DEF IsRight
      <3>2. IsRight(s, Head(activities[s.channel]), s.channel)'
        BY <1>1, <1>17, <3>1 DEF IsRight
      <3> QED
        BY <1>1, <1>8, <1>17, <3>0, <3>2
            DEF StepIsRight, AttachIsRight, RemoveIsRight, BackgroundIsRight, FocusIsRight, NoticeIsRight
    <2>2. CASE s \in rest
      <3>1. BackgroundIsRight(s)' /\ FocusIsRight(s)' /\ NoticeIsRight(s)'
        BY <1>1, <1>2, <1>3, <2>2, StepsStayRight DEF StepsAreRight, StepIsRight
      <3> QED
        BY <1>5, <2>2, <3>1 DEF StepIsRight, AttachIsRight, RemoveIsRight
    <2> QED
      BY <1>14, <2>1, <2>2
  <1>20. Settling'
    <2> SUFFICES ASSUME NEW c \in activeChannels
                 PROVE  \/ \E s \in Steps' : s.op \in {"background", "focus"} /\ s.channel = c
                        \/ Settled(c)'
      BY <1>1 DEF Settling, Pending
    <2>1. CASE Pending(c)
      <3>1. PICK s \in Steps : s.op \in {"background", "focus"} /\ s.channel = c
        BY <2>1 DEF Pending
      <3> QED
        BY <1>3, <1>11, <1>14, <3>1
    <2>2. CASE Settled(c)
      <3>1. \A a \in Range(activities[c]) : IsRight(told[a], a, c)
        BY <1>6, <2>2 DEF Settled, WillHear
      <3>2. \A a \in Range(activities[c]) : IsRight(told[a], a, c)'
        BY <1>1, <1>17, <3>1 DEF IsRight
      <3> QED
        BY <1>1, <1>17, <2>2, <3>2 DEF Settled, IsRight
    <2> QED
      BY <1>2, <1>4, <2>1, <2>2 DEF Settling
  <1>21. \A s \in Steps' : s.op \notin {"notify", "attach", "remove"}
    BY <1>5, <1>11, <1>14
  <1>22. SecondsPause' /\ ForegroundIsOne'
    BY <1>1, <1>2, <1>6, <1>16, <1>21 DEF SecondsPause, ForegroundIsOne, OneForegroundChannel, Foregrounded,
          Fresh, WillHear, Leaves, Untold
  <1>23. /\ Floor' /\ OnChannels' = OnChannels /\ Left' /\ tasks' \in Seq(Task)
         /\ Waiting' /\ Known' /\ StopsFirst' /\ StopsReach'
    BY <1>1, <1>6, <1>21, StepsOnly
  <1> QED
    BY <1>15, <1>16, <1>18, <1>19, <1>20, <1>22, <1>23 DEF IInv, Floor

LEMMA DeactivateChannelKeeps ==
    ASSUME IInv, DeactivateChannel
    PROVE  IInv'
  <1> DEFINE h == Head(todo)
             c == h.channel
             rest == Range(Tail(todo))
             new == SetFocus(c, "NONE", "MUST_STOP", FALSE)
  <1>1. /\ todo # <<>> /\ h.op = "deactivate"
        /\ \/ /\ activities[c] = <<>>
              /\ activeChannels' = activeChannels \ {c} /\ todo' = <<new>> \o Tail(todo)
           \/ /\ activities[c] # <<>>
              /\ activeChannels' = activeChannels /\ todo' = Tail(todo)
        /\ UNCHANGED <<tasks, channels, told, late, stuck, clients>>
        /\ UNCHANGED <<tasks, activities, focus, patience, timer, initiator, receiver, acquired, released, stopped, stops>>
    BY DEF DeactivateChannel, Does, channels, patience, clients, observers
  <1>2. /\ TypeOK /\ TasksOK /\ Ordered /\ Phased /\ Active /\ StepsAreRight /\ SecondsPause /\ ForegroundIsOne
    BY DEF IInv
  <1>3. /\ h \in Step /\ h \in Steps /\ Tail(todo) \in Seq(Step) /\ InOrder(Tail(todo))
        /\ Steps = {h} \cup rest /\ rest \subseteq Step
        /\ \A t \in rest : \/ t.op \in {"background", "deactivate", "foreground"}
                           \/ t.op = "focus" /\ t.focus = "FOREGROUND"
    BY <1>1, <1>2, FirstStep
  <1> HIDE DEF h, rest
  <1>4. Leaving(h) /\ Leaves
    BY <1>1, <1>2, <1>3 DEF Phased, Leaving
  <1>5. \A t \in rest : Leaving(t) /\ t.op \in {"deactivate", "foreground"}
    BY <1>2, <1>3, <1>4 DEF Phased, Leaving
  <1>6. \E t \in rest : t.op = "foreground"
    BY <1>1, <1>3, <1>4 DEF Leaves
  <1>7. new.op = "focus" /\ new.channel = c /\ new.focus = "NONE" /\ new.behavior = "MUST_STOP"
    BY DEF SetFocus
  <1>8. new \in Step
    BY <1>1, <1>3, StepKinds DEF Step, SetFocus, FocusState, Behavior
  <1> HIDE DEF new
  <1>9. \A t \in rest : Before(new, t)
    BY <1>3, <1>5, <1>7, <1>8, RankOfKind DEF Before
  <1>10. /\ todo' \in Seq(Step) /\ InOrder(todo')
         /\ \/ activities[c] = <<>> /\ Steps' = {new} \cup rest
            \/ activities[c] # <<>> /\ Steps' = rest
    BY <1>1, <1>3, <1>8, <1>9, OrderOfCons DEF rest, Steps
  <1>11. rest \subseteq Steps' /\ Steps' \subseteq {new} \cup rest
    BY <1>10
  <1>12. TypeOK' /\ TasksOK' /\ Ordered'
    BY <1>1, <1>2, <1>10 DEF TypeOK, TasksOK, Ordered
  <1>13. Leaves' /\ Phased'
    BY <1>5, <1>6, <1>7, <1>11 DEF Phased, Leaves, Leaving
  <1>14. Active'
    <2> SUFFICES ASSUME NEW d \in Channel
        PROVE  /\ activities[d] # <<>> => d \in activeChannels'
               /\ d \in activeChannels' /\ activities[d] = <<>> =>
                      \E s \in Steps' : \/ s.op = "deactivate" /\ s.channel = d
                                        \/ s.op = "attach" /\ ChannelOf[s.activity] = d
               /\ d \notin activeChannels' /\ focus[d] # "NONE" =>
                      \E s \in Steps' : s.op = "focus" /\ s.focus = "NONE" /\ s.channel = d
      BY <1>1 DEF Active
    <2>1. activities[d] # <<>> => d \in activeChannels'
      BY <1>1, <1>2 DEF Active
    <2>2. ASSUME d \in activeChannels', activities[d] = <<>>
          PROVE  \E s \in Steps' : s.op = "deactivate" /\ s.channel = d
      <3>1. d # c /\ d \in activeChannels
        BY <1>1, <2>2
      <3>2. \E s \in Steps : s.op = "deactivate" /\ s.channel = d
        BY <1>1, <1>2, <1>3, <1>5, <2>2, <3>1 DEF Active
      <3> QED
        BY <1>3, <1>11, <3>1, <3>2
    <2>3. ASSUME d \notin activeChannels', focus[d] # "NONE"
          PROVE  \E s \in Steps' : s.op = "focus" /\ s.focus = "NONE" /\ s.channel = d
      <3>1. d \in activeChannels
        BY <1>1, <1>2, <1>3, <1>5, <2>3 DEF Active
      <3>2. d = c /\ new \in Steps'
        BY <1>1, <1>10, <2>3, <3>1
      <3> QED
        BY <1>7, <3>2
    <2> QED
      BY <2>1, <2>2, <2>3
  <1>15. StepsAreRight'
    <2> SUFFICES ASSUME NEW s \in Steps' PROVE StepIsRight(s)'
      BY DEF StepsAreRight
    <2>1. CASE s \in rest
      BY <1>5, <2>1 DEF StepIsRight, AttachIsRight, RemoveIsRight, BackgroundIsRight, FocusIsRight, NoticeIsRight
    <2>2. CASE s \notin rest
      <3>1. s = new /\ activities[c] = <<>> /\ activeChannels' = activeChannels \ {c}
        BY <1>1, <1>10, <2>2
      <3> QED
        BY <1>1, <1>7, <3>1 DEF StepIsRight, AttachIsRight, RemoveIsRight, BackgroundIsRight, FocusIsRight, NoticeIsRight
    <2> QED
      BY <2>1, <2>2
  <1>16. Settling'
    BY <1>13 DEF Settling
  <1>17. \A s \in Steps \cup Steps' : s.op \notin {"notify", "attach", "remove"}
    BY <1>1, <1>3, <1>5, <1>7, <1>11
  <1>18. SecondsPause' /\ ForegroundIsOne'
    BY <1>1, <1>2, <1>4, <1>17 DEF SecondsPause, ForegroundIsOne, OneForegroundChannel, Foregrounded,
          Fresh, WillHear, Untold
  <1>19. /\ Floor' /\ OnChannels' = OnChannels /\ Left' /\ tasks' \in Seq(Task)
         /\ Waiting' /\ Known' /\ StopsFirst' /\ StopsReach'
    BY <1>1, <1>17, StepsOnly
  <1> QED
    BY <1>12, <1>13, <1>14, <1>15, <1>16, <1>18, <1>19 DEF IInv, Floor

\* Who believes to be in the foreground is on the highest channel, if the others
\* have nothing to come.
LEMMA OthersAreNotForegrounded ==
    ASSUME IInv, ~Leaves, \A s \in Steps : s.op # "notify",
           \A c \in activeChannels : c # Highest => ~Pending(c)
    PROVE  \A b \in Foregrounded : ChannelOf[b] = Highest
  <1> SUFFICES ASSUME NEW b \in Foregrounded, ChannelOf[b] # Highest PROVE FALSE
    OBVIOUS
  <1>1. /\ TypeOK /\ Placed /\ Waiting /\ Left /\ Active /\ Settling
    BY DEF IInv
  <1>2. b \in Activity /\ told[b].focus = "FOREGROUND"
    BY DEF Foregrounded
  <1>3. b \in acquired
    BY <1>1, <1>2 DEF Waiting, Untold
  <1>4. b \in OnChannels
    BY <1>1, <1>2, <1>3 DEF Left, Paused, Foregrounded
  <1> DEFINE c == ChannelOf[b]
  <1>5. b \in Range(activities[c]) /\ c \in Channel
    BY <1>1, <1>2, <1>4, OnChannelsAre, FocusAssumption
  <1>6. c \in activeChannels
    <2>1. activities[c] # <<>>
      BY <1>5 DEF Range
    <2> QED
      BY <1>1, <1>5, <2>1 DEF Active
  <1>7. Settled(c)
    BY <1>1, <1>6 DEF Settling
  <1>8. IsRight(told[b], b, c)
    BY <1>5, <1>7 DEF Settled, WillHear
  <1> QED
    BY <1>2, <1>8 DEF IsRight

\* A channel whose first activity knows, so that there is nothing to tell.
LEMMA AllKnow ==
    ASSUME IInv, NEW c \in Channel, activities[c] # <<>>, NEW s,
           IsRight(s, Head(activities[c]), c), told[Head(activities[c])].behavior = s.behavior,
           s.behavior \in {"PRIMARY", "MAY_DUCK", "MUST_PAUSE"},
           \A t \in Steps : t.op # "notify"
    PROVE  \A a \in Range(activities[c]) : IsRight(told[a], a, c)
  <1> DEFINE act == activities[c]
             first == Head(act)
  <1>1. /\ TypeOK /\ Placed /\ Told /\ SecondsPause
    BY DEF IInv
  <1>2. /\ act \in Seq(Activity) /\ first = act[1] /\ 1 \in DOMAIN act /\ first \in Range(act)
        /\ first \in acquired \cap Activity /\ ChannelOf[first] = c
    BY <1>1, OnChannelsAre DEF TypeOK
  <1>3. \/ told[first] \in {Untold, Gone, [focus |-> "FOREGROUND", behavior |-> "PRIMARY"]}
        \/ told[first].focus = "BACKGROUND" /\ told[first].behavior \in {"MAY_DUCK", "MUST_PAUSE"}
    BY <1>1, <1>2 DEF Told
  <1>4. /\ Untold.behavior = "UNDEFINED" /\ Gone.behavior = "MUST_STOP"
        /\ [focus |-> "FOREGROUND", behavior |-> "PRIMARY"].behavior = "PRIMARY"
        /\ [focus |-> "FOREGROUND", behavior |-> "PRIMARY"].focus = "FOREGROUND"
    BY DEF Untold, Gone
  <1>5. \/ told[first].focus = "FOREGROUND" /\ told[first].behavior = "PRIMARY"
        \/ told[first].focus = "BACKGROUND" /\ told[first].behavior \in {"MAY_DUCK", "MUST_PAUSE"}
    BY <1>3, <1>4
  <1>6. told[first] # Untold
    BY <1>4, <1>5
  <1>7. IsRight(told[first], first, c)
    <2>1. told[first].behavior = s.behavior
      OBVIOUS
    <2>2. ASSUME NEW b \in acquired PROVE Mixing[first, b] # "PRIMARY"
      <3>1. b \in Activity /\ first \in Activity
        BY <1>1, <1>2 DEF TypeOK
      <3> QED
        BY <3>1, FocusAssumption
    <2>3. IsRight(s, first, c)
      OBVIOUS
    <2>4. s.focus = told[first].focus
      BY <1>5, <2>1, <2>2, <2>3 DEF IsRight
    <2> QED
      BY <2>1, <2>3, <2>4, SameNotice
  <1>8. ASSUME NEW a \in Range(act), a # first PROVE IsRight(told[a], a, c)
    <2>1. PICK i \in DOMAIN act : act[i] = a
      BY DEF Range
    <2>2. i >= 2
      BY <1>2, <1>8, <2>1
    <2>3. told[a] = [focus |-> "BACKGROUND", behavior |-> "MUST_PAUSE"]
      BY <1>1, <1>6, <2>1, <2>2 DEF SecondsPause, WillHear, Fresh
    <2>4. told[a].focus = "BACKGROUND" /\ told[a].behavior = "MUST_PAUSE"
      BY <2>3
    <2> QED
      BY <1>8, <2>4 DEF IsRight
  <1> QED
    BY <1>7, <1>8

LEMMA ChangeFocusKeeps ==
    ASSUME IInv, ChangeFocus
    PROVE  IInv'
  <1> DEFINE h == Head(todo)
             c == h.channel
             rest == Range(Tail(todo))
             notices == Notifications(c, h.focus, h.behavior)
  <1>1. /\ todo # <<>> /\ h.op = "focus"
        /\ \/ Changes(h) /\ focus' = [focus EXCEPT ![c] = h.focus] /\ todo' = notices \o Tail(todo)
           \/ ~Changes(h) /\ focus' = focus /\ todo' = Tail(todo)
        /\ UNCHANGED <<tasks, activeChannels, activities, patience, told, late, stuck, clients>>
        /\ UNCHANGED <<timer, initiator, receiver, acquired, released, stopped, stops>>
    BY DEF ChangeFocus, Does, patience, clients, observers
  <1>2. /\ TypeOK /\ TasksOK /\ Ordered /\ Phased /\ Active /\ Placed /\ StepsAreRight /\ Settling
        /\ SecondsPause /\ ForegroundIsOne
    BY DEF IInv
  <1>3. /\ h \in Step /\ h \in Steps /\ Tail(todo) \in Seq(Step) /\ InOrder(Tail(todo))
        /\ Steps = {h} \cup rest /\ rest \subseteq Step
        /\ \A t \in rest : Before(h, t)
        /\ \A t \in rest : \/ t.op \in {"remove", "background", "deactivate", "foreground"}
                           \/ t.op = "focus" /\ t.focus = "FOREGROUND"
        /\ h.focus = "FOREGROUND" => rest = {}
    <2>1. \A t \in rest : h.focus # "FOREGROUND" =>
              \/ t.op \in {"remove", "background", "deactivate", "foreground"}
              \/ t.op = "focus" /\ t.focus = "FOREGROUND"
      BY <1>1, <1>2, FirstStep
    <2>2. h.focus = "FOREGROUND" => rest = {}
      BY <1>1, <1>2, FirstStep
    <2> QED
      BY <1>1, <1>2, <2>1, <2>2, FirstStep
  <1> HIDE DEF h, rest
  <1>4. c \in Channel /\ h.focus \in FocusState /\ h.behavior \in Behavior
    BY <1>1, <1>3, StepKinds
  <1>5. /\ activities[c] \in Seq(Activity)
        /\ \A i, j \in DOMAIN activities[c] : i # j => activities[c][i] # activities[c][j]
    BY <1>2, <1>4 DEF TypeOK, Placed
  <1>6. /\ notices \in Seq(Step) /\ InOrder(notices)
        /\ \A s \in Range(notices) :
               /\ s.op = "notify"
               /\ \E i \in DOMAIN activities[c] :
                      /\ s.activity = activities[c][i]
                      /\ s.focus = IF i = 1 THEN h.focus ELSE "BACKGROUND"
                      /\ s.behavior = IF i = 1 THEN h.behavior ELSE "MUST_PAUSE"
        /\ \A a \in Range(activities[c]) :
               \E s \in Range(notices) : s.op = "notify" /\ s.activity = a
    BY <1>4, <1>5, NotificationsAre
  <1>7. activities[c] = <<>> => Range(notices) = {}
    BY <1>6
  <1> HIDE DEF notices
  <1>8. \A x \in Range(notices), y \in rest : Before(x, y)
    <2> SUFFICES ASSUME NEW x \in Range(notices), NEW y \in rest PROVE Before(x, y)
      OBVIOUS
    <2>1. x \in Step /\ y \in Step /\ x.op = "notify"
      BY <1>3, <1>6, RangeOfSeq
    <2>2. Rank(x) = 0
      BY <2>1, RankOfKind
    <2>3. Rank(y) \in {2, 3, 4}
      BY <1>3, <2>1, RankOfKind
    <2> QED
      BY <2>2, <2>3 DEF Before
  <1>9. /\ todo' \in Seq(Step) /\ InOrder(todo')
        /\ IF Changes(h) THEN Steps' = Range(notices) \cup rest ELSE Steps' = rest
    <2>1. CASE Changes(h)
      <3>1. todo' = notices \o Tail(todo)
        BY <1>1, <2>1
      <3> QED
        BY <1>3, <1>6, <1>8, <2>1, <3>1, OrderOfConcat DEF rest, Steps
    <2>2. CASE ~Changes(h)
      BY <1>1, <1>3, <2>2 DEF rest, Steps
    <2> QED
      BY <2>1, <2>2
  <1>10. \A s \in Steps' : s \in rest \/ (Changes(h) /\ s \in Range(notices) /\ s.op = "notify")
    BY <1>6, <1>9
  <1>11. rest \subseteq Steps'
    BY <1>9
  <1>12. TypeOK' /\ TasksOK' /\ Ordered'
    BY <1>1, <1>2, <1>4, <1>9 DEF TypeOK, TasksOK, Ordered
  <1>13. Highest' = Highest /\ Untold' = Untold /\ OnChannels' = OnChannels
    BY <1>1, OnChannelsKept DEF Highest, Untold
  <1>14. \A s \in Steps : s.op \notin {"notify", "attach"}
    BY <1>1, <1>3
  <1>15. \A n, a, d : IsRight(n, a, d) => IsRight(n, a, d)'
    BY <1>1, RightIsKept
  <1>16. /\ Floor' /\ OnChannels' = OnChannels /\ Left' /\ tasks' \in Seq(Task)
         /\ Waiting' /\ Known' /\ StopsFirst' /\ StopsReach'
    <2>1. \A s \in Steps' : s.op # "attach"
      BY <1>3, <1>10
    <2>2. \A s \in Steps : s.op \in {"attach", "remove"} => s \in Steps'
      BY <1>1, <1>3, <1>11
    <2> QED
      BY <1>1, <2>1, <2>2, StepsOnly
  <1>17. Leaves' <=> Leaves
    BY <1>1, <1>3, <1>10, <1>11 DEF Leaves
  <1>18. Phased'
    <2>1. CASE Leaves
      <3>1. h.focus = "NONE"
        BY <1>1, <1>2, <1>3, <2>1 DEF Phased, Leaving
      <3>2. activities[c] = <<>>
        BY <1>1, <1>2, <1>3, <3>1 DEF StepsAreRight, StepIsRight, FocusIsRight
      <3>3. \A s \in Steps' : s \in rest
        BY <1>7, <1>10, <3>2
      <3>4. \A s \in rest : Leaving(s)
        BY <1>2, <1>3, <2>1 DEF Phased
      <3> QED
        BY <1>17, <2>1, <3>3, <3>4 DEF Phased
    <2>2. CASE ~Leaves
      <3>1. \A s \in rest : ~Leaving(s)
        BY <1>2, <1>3, <2>2 DEF Phased
      <3>2. \A s \in Steps' : s.op = "notify" => ~Leaving(s)
        BY DEF Leaving
      <3> QED
        BY <1>10, <1>17, <2>2, <3>1, <3>2 DEF Phased
    <2> QED
      BY <2>1, <2>2
  <1>19. h.focus = "NONE" => Leaves
    BY <1>1, <1>2, <1>3 DEF Phased, Leaving
  <1>20. FocusIsRight(h)
    BY <1>2, <1>3 DEF StepsAreRight, StepIsRight
  <1>21. focus'[c] = h.focus /\ \A d \in Channel : d # c => focus'[d] = focus[d]
    BY <1>1, <1>2, <1>4 DEF TypeOK, Changes
  <1>22. Active'
    <2> SUFFICES ASSUME NEW d \in Channel
        PROVE  /\ activities[d] # <<>> => d \in activeChannels
               /\ d \in activeChannels /\ activities[d] = <<>> =>
                      \E s \in Steps' : \/ s.op = "deactivate" /\ s.channel = d
                                        \/ s.op = "attach" /\ ChannelOf[s.activity] = d
               /\ d \notin activeChannels /\ focus'[d] # "NONE" =>
                      \E s \in Steps' : s.op = "focus" /\ s.focus = "NONE" /\ s.channel = d
      BY <1>1 DEF Active
    <2>1. activities[d] # <<>> => d \in activeChannels
      BY <1>2 DEF Active
    <2>2. ASSUME d \in activeChannels, activities[d] = <<>>
          PROVE  \E s \in Steps' : s.op = "deactivate" /\ s.channel = d
      BY <1>1, <1>2, <1>3, <1>11, <1>14, <2>2 DEF Active
    <2>3. ASSUME d \notin activeChannels, focus'[d] # "NONE" PROVE FALSE
      <3>1. d # c
        <4>1. h.focus # "NONE" => c \in activeChannels
          BY <1>1, <1>4, <1>20 DEF FocusIsRight, FocusState
        <4> QED
          BY <1>21, <2>3, <4>1
      <3>2. \E s \in Steps : s.op = "focus" /\ s.focus = "NONE" /\ s.channel = d
        BY <1>2, <1>21, <2>3, <3>1 DEF Active
      <3> QED
        BY <1>3, <3>1, <3>2
    <2> QED
      BY <2>1, <2>2, <2>3
  <1>23. CASE Leaves
    <2>1. h.focus = "NONE"
      BY <1>1, <1>2, <1>3, <1>23 DEF Phased, Leaving
    <2>2. activities[c] = <<>>
      BY <1>1, <1>20, <2>1 DEF FocusIsRight
    <2>3. Steps' = rest
      BY <1>7, <1>9, <2>2
    <2>4. StepsAreRight'
      <3> SUFFICES ASSUME NEW s \in rest PROVE StepIsRight(s)'
        BY <2>3 DEF StepsAreRight
      <3>1. s \in Step /\ StepIsRight(s)
        BY <1>2, <1>3 DEF StepsAreRight
      <3>2. BackgroundIsRight(s)' /\ FocusIsRight(s)' /\ NoticeIsRight(s)'
        BY <1>1, <3>1, StepsStayRight DEF StepIsRight
      <3>3. AttachIsRight(s)'
        BY <1>3 DEF AttachIsRight
      <3>4. RemoveIsRight(s)'
        <4> SUFFICES ASSUME s.op = "remove" PROVE \E t \in rest : t.op = "deactivate" /\ t.channel = s.channel
          BY <2>3 DEF RemoveIsRight
        <4>1. PICK t \in Steps : t.op = "deactivate" /\ t.channel = s.channel
          BY <3>1 DEF StepIsRight, RemoveIsRight
        <4> QED
          BY <1>1, <1>3, <4>1
      <3> QED
        BY <3>2, <3>3, <3>4 DEF StepIsRight
    <2>5. Settling'
      BY <1>17, <1>23 DEF Settling
    <2>6. \A s \in Steps' : s.op # "notify"
      BY <1>3, <2>3
    <2>7. SecondsPause' /\ ForegroundIsOne'
      BY <1>1, <1>2, <1>14, <1>23, <2>6 DEF SecondsPause, ForegroundIsOne, OneForegroundChannel, Foregrounded,
            Fresh, WillHear, Untold
    <2> QED
      BY <1>12, <1>16, <1>18, <1>22, <2>4, <2>5, <2>7 DEF IInv, Floor
  <1>24. CASE ~Leaves
    <2>1. h.focus \in {"FOREGROUND", "BACKGROUND"} /\ c \in activeChannels
      BY <1>1, <1>4, <1>19, <1>20, <1>24 DEF FocusIsRight, FocusState
    <2>2. \A t \in rest : t.op = "background" \/ (t.op = "focus" /\ t.focus = "FOREGROUND")
      BY <1>2, <1>3, <1>24 DEF Phased, Leaving
    <2>3. activities[c] # <<>>
      <3>1. \A s \in Steps : s.op \notin {"attach", "deactivate"}
        BY <1>1, <1>3, <2>2
      <3> QED
        BY <1>2, <1>4, <2>1, <3>1, ActiveChannelsAre
    <2>4. /\ Head(activities[c]) = activities[c][1] /\ 1 \in DOMAIN activities[c]
          /\ \A a \in Range(activities[c]) : a \in OnChannels /\ ChannelOf[a] = c /\ a \in Activity \cap acquired
          /\ \A d \in Channel : \A a \in Range(activities[d]) : ChannelOf[a] = d
          /\ \A i \in DOMAIN activities[c] : activities[c][i] \in Range(activities[c])
          /\ \A d \in Channel : \A i \in DOMAIN activities[d] : activities[d][i] \in Range(activities[d])
          /\ \A d \in Channel : activities[d] # <<>> => Head(activities[d]) \in Range(activities[d])
      BY <1>2, <1>4, <2>3, OnChannelsAre
    <2>5. IsRight(h, Head(activities[c]), c) /\ h.behavior \in {"PRIMARY", "MAY_DUCK", "MUST_PAUSE"}
      <3>1. CASE h.focus = "FOREGROUND"
        BY <1>1, <1>20, <3>1 DEF FocusIsRight, IsRight
      <3>2. CASE h.focus = "BACKGROUND"
        <4>1. IsRight(h, Head(activities[c]), c) /\ c # Highest
          BY <1>1, <1>20, <3>2 DEF FocusIsRight
        <4>2. \A b \in acquired : Mixing[Head(activities[c]), b] \in {"MAY_DUCK", "MUST_PAUSE"}
          <5>1. Head(activities[c]) \in Activity /\ acquired \subseteq Activity
            BY <1>2, <1>4, <2>3, <2>4 DEF TypeOK
          <5> QED
            BY <5>1, FocusAssumption
        <4> QED
          BY <4>1, <4>2 DEF IsRight
      <3> QED
        BY <2>1, <3>1, <3>2
    <2>6. \A s \in Range(notices) : /\ s.activity \in Range(activities[c]) /\ IsRight(s, s.activity, c)
                                    /\ s.focus = "FOREGROUND" => h.focus = "FOREGROUND"
      <3> SUFFICES ASSUME NEW s \in Range(notices)
                   PROVE  /\ s.activity \in Range(activities[c]) /\ IsRight(s, s.activity, c)
                          /\ s.focus = "FOREGROUND" => h.focus = "FOREGROUND"
        OBVIOUS
      <3>1. PICK i \in DOMAIN activities[c] :
                      /\ s.activity = activities[c][i]
                      /\ s.focus = IF i = 1 THEN h.focus ELSE "BACKGROUND"
                      /\ s.behavior = IF i = 1 THEN h.behavior ELSE "MUST_PAUSE"
        BY <1>6
      <3>2. CASE i = 1
        <4>1. s.activity = Head(activities[c]) /\ s.focus = h.focus /\ s.behavior = h.behavior
          BY <2>4, <3>1, <3>2
        <4>2. IsRight(s, Head(activities[c]), c)
          BY <2>5, <4>1, SameNotice
        <4> QED
          BY <2>4, <4>1, <4>2
      <3>3. CASE i # 1
        <4>1. s.activity # Head(activities[c])
          BY <1>2, <1>4, <2>4, <3>1, <3>3 DEF Placed
        <4> QED
          BY <2>4, <3>1, <3>3, <4>1 DEF IsRight
      <3> QED
        BY <3>2, <3>3
    <2>7. StepsAreRight'
      <3> SUFFICES ASSUME NEW s \in Steps' PROVE StepIsRight(s)'
        BY DEF StepsAreRight
      <3>1. CASE s \in rest
        <4>1. s \in Step /\ StepIsRight(s)
          BY <1>2, <1>3, <3>1 DEF StepsAreRight
        <4>2. BackgroundIsRight(s)' /\ FocusIsRight(s)' /\ NoticeIsRight(s)'
          BY <1>1, <4>1, StepsStayRight DEF StepIsRight
        <4> QED
          BY <2>2, <3>1, <4>2 DEF StepIsRight, AttachIsRight, RemoveIsRight
      <3>2. CASE s \in Range(notices)
        <4>1. s.op = "notify" /\ s.activity \in OnChannels /\ ChannelOf[s.activity] = c
          BY <1>6, <2>4, <2>6, <3>2
        <4>2. IsRight(s, s.activity, ChannelOf[s.activity])
          BY <2>6, <3>2, <4>1
        <4>3. NoticeIsRight(s)'
          <5>1. s.activity \in OnChannels /\ IsRight(s, s.activity, ChannelOf[s.activity])'
            BY <1>1, <1>13, <4>1, <4>2 DEF IsRight
          <5> QED
            BY <1>13, <4>1, <5>1 DEF NoticeIsRight
        <4> QED
          BY <4>1, <4>3 DEF StepIsRight, AttachIsRight, RemoveIsRight, BackgroundIsRight, FocusIsRight
      <3> QED
        BY <1>10, <3>1, <3>2
    <2>8. Settling'
      <3> SUFFICES ASSUME NEW d \in activeChannels
                   PROVE  \/ \E s \in Steps' : s.op \in {"background", "focus"} /\ s.channel = d
                          \/ Settled(d)'
        BY <1>1 DEF Settling, Pending
      <3>0. d \in Channel
        BY <1>2 DEF TypeOK
      <3>1. CASE d = c
        <4>1. \A a \in Range(activities[d]) : WillHear(a)' \/ IsRight(told[a], a, d)
          <5>1. CASE Changes(h)
            BY <1>6, <1>9, <3>1, <5>1 DEF WillHear
          <5>2. CASE ~Changes(h)
            <6>1. told[Head(activities[c])].behavior = h.behavior
              BY <2>3, <5>2 DEF Changes
            <6> QED
              BY <1>4, <1>14, <2>3, <2>5, <3>1, <6>1, AllKnow
          <5> QED
            BY <5>1, <5>2
        <4>2. \A a \in Range(activities[d]) : WillHear(a)' \/ IsRight(told[a], a, d)'
          BY <1>1, <1>13, <4>1 DEF IsRight
        <4>3. focus'[d] = IF d = Highest THEN "FOREGROUND" ELSE "BACKGROUND"
          BY <1>1, <1>20, <1>21, <2>1, <3>1 DEF FocusIsRight
        <4> QED
          BY <1>1, <1>13, <4>2, <4>3 DEF Settled, IsRight
      <3>2. CASE d # c /\ Pending(d)
        <4>1. PICK s \in Steps : s.op \in {"background", "focus"} /\ s.channel = d
          BY <3>2 DEF Pending
        <4> QED
          BY <1>3, <1>11, <3>2, <4>1
      <3>3. CASE d # c /\ Settled(d)
        <4>1. \A a \in Range(activities[d]) : IsRight(told[a], a, d)
          BY <1>14, <3>3 DEF Settled, WillHear
        <4>2. \A a \in Range(activities[d]) : IsRight(told[a], a, d)'
          BY <1>1, <1>13, <4>1 DEF IsRight
        <4>3. focus'[d] = focus[d]
          BY <1>21, <3>0, <3>3
        <4> QED
          BY <1>1, <1>13, <3>3, <4>2, <4>3 DEF Settled, IsRight
      <3> QED
        BY <1>2, <1>24, <3>1, <3>2, <3>3 DEF Settling
    <2>9. SecondsPause'
      <3> SUFFICES ASSUME NEW d \in Channel, NEW i \in DOMAIN activities[d], i >= 2,
                          ~WillHear(activities[d][i])'
                   PROVE  \/ told[activities[d][i]] = [focus |-> "BACKGROUND", behavior |-> "MUST_PAUSE"]
                          \/ Fresh(d)'
        BY <1>1, <1>17, <1>24 DEF SecondsPause, WillHear
      <3>1. told[activities[d][i]] = [focus |-> "BACKGROUND", behavior |-> "MUST_PAUSE"] \/ Fresh(d)
        BY <1>2, <1>14 DEF SecondsPause, WillHear
      <3>2. CASE Fresh(d)
        <4>1. ~(d = c /\ Changes(h))
          BY <1>1, <1>6, <1>9, <2>4 DEF WillHear
        <4>2. d = c => told[Head(activities[c])].behavior = h.behavior
          BY <2>3, <4>1 DEF Changes
        <4>3. d # c
          BY <2>5, <3>2, <4>2 DEF Fresh, Untold
        <4>4. \A s \in Steps' : s.op = "notify" => s.activity # Head(activities[d])
          BY <1>3, <1>4, <1>10, <2>4, <2>6, <3>2, <4>3 DEF Fresh
        <4> QED
          BY <1>1, <1>13, <3>2, <4>4 DEF Fresh, WillHear
      <3> QED
        BY <3>1, <3>2
    <2>10. ForegroundIsOne'
      <3>1. OneForegroundChannel'
        BY <1>1, <1>2 DEF ForegroundIsOne, OneForegroundChannel, Foregrounded
      <3>2. ASSUME NEW s \in Steps', s.op = "notify", s.focus = "FOREGROUND", NEW b \in Foregrounded
            PROVE  ChannelOf[b] = ChannelOf[s.activity]
        <4>1. s \in Range(notices)
          BY <1>3, <1>10, <3>2
        <4>2. h.focus = "FOREGROUND" /\ ChannelOf[s.activity] = c
          BY <2>4, <2>6, <3>2, <4>1
        <4>3. c = Highest /\ Steps = {h}
          BY <1>1, <1>3, <1>20, <4>2 DEF FocusIsRight
        <4>4. \A d \in activeChannels : d # Highest => ~Pending(d)
          BY <4>3 DEF Pending
        <4> QED
          BY <1>14, <1>24, <4>2, <4>3, <4>4, OthersAreNotForegrounded
      <3> QED
        BY <1>1, <3>1, <3>2 DEF ForegroundIsOne, Foregrounded
    <2> QED
      BY <1>12, <1>16, <1>18, <1>22, <2>7, <2>8, <2>9, <2>10 DEF IInv, Floor
  <1> QED
    BY <1>23, <1>24

-----------------------------------------------------------------------------
(***************************************************************************)
(* The executor takes a task.                                              *)
(***************************************************************************)
\* Between two tasks all channels are settled.
LEMMA BetweenTasks ==
    ASSUME IInv, todo = <<>>
    PROVE  /\ Steps = {} /\ ~Leaves
           /\ \A c \in Channel : c \in activeChannels <=> activities[c] # <<>>
           /\ \A c \in Channel : c \notin activeChannels => focus[c] = "NONE"
           /\ \A c \in activeChannels :
                  /\ focus[c] = IF c = Highest THEN "FOREGROUND" ELSE "BACKGROUND"
                  /\ \A a \in Range(activities[c]) : IsRight(told[a], a, c) /\ told[a] # Untold
                  /\ Settled(c)
           /\ \A c \in Channel : ~Fresh(c)
  <1>1. TypeOK /\ TasksOK /\ Placed /\ Active /\ Settling
    BY DEF IInv
  <1>2. Steps = {} /\ ~Leaves
    BY <1>1, NoStepsLeft DEF Leaves
  <1>3. \A c \in Channel : c \in activeChannels <=> activities[c] # <<>>
    BY <1>1, <1>2, ActiveChannelsAre
  <1>4. \A c \in Channel : c \notin activeChannels => focus[c] = "NONE"
    BY <1>1, <1>2 DEF Active
  <1>5. \A c \in activeChannels : Settled(c)
    BY <1>1, <1>2 DEF Settling, Pending
  <1>6. ASSUME NEW c \in activeChannels
        PROVE  /\ focus[c] = IF c = Highest THEN "FOREGROUND" ELSE "BACKGROUND"
               /\ \A a \in Range(activities[c]) : IsRight(told[a], a, c)
    BY <1>2, <1>5 DEF Settled, WillHear
  <1>7. \A n, a, c : IsRight(n, a, c) => n.focus # "NONE"
    BY DEF IsRight
  <1>8. Untold.focus = "NONE"
    BY DEF Untold
  <1>9. ASSUME NEW c \in activeChannels, NEW a \in Range(activities[c]) PROVE told[a] # Untold
    BY <1>6, <1>7, <1>8
  <1>10. ASSUME NEW c \in Channel, Fresh(c) PROVE FALSE
    <2>1. c \in activeChannels /\ Head(activities[c]) \in Range(activities[c])
      BY <1>1, <1>3, <1>10, OnChannelsAre DEF Fresh
    <2> QED
      BY <1>9, <1>10, <2>1 DEF Fresh
  <1> QED
    BY <1>2, <1>3, <1>4, <1>5, <1>6, <1>9, <1>10

\* A task that has no effect.
LEMMA NoEffectKeeps ==
    ASSUME IInv, tasks # <<>>, tasks' = Tail(tasks), Head(tasks).op \notin {"acquire", "stopAll"},
           UNCHANGED <<todo, activeChannels, channels, told, late, stuck, clients>>
    PROVE  IInv'
  <1>1. /\ TypeOK /\ TasksOK /\ Waiting /\ Known /\ StopsFirst /\ StopsReach /\ Left
        /\ UNCHANGED <<activities, focus, timer, initiator, receiver, acquired, released, stopped, stops>>
    BY DEF IInv, channels, patience, clients, observers
  <1>2. OnChannels' = OnChannels /\ Steps' = Steps
    BY <1>1, CallsLeaveThis
  <1>3. /\ tasks' \in Seq(Task) /\ Waiting' /\ Known' /\ StopsFirst'
        /\ \A i \in DOMAIN tasks : tasks[i].op = "stopAll" => \E k \in DOMAIN tasks' : tasks'[k] = tasks[i]
    <2>1. \A a \in acquired : IF a \notin OnChannels /\ told[a] = Untold
                               THEN a \notin OnChannels' /\ told'[a] = Untold
                               ELSE a \in OnChannels' \/ told'[a] # Untold
      BY <1>2
    <2> QED
      BY <1>1, <1>2, <2>1, QueueGoesOn
  <1>4. TypeOK'
    BY <1>1 DEF TypeOK
  <1>5. TasksOK'
    BY <1>1, <1>3 DEF TasksOK
  <1>6. StopsReach'
    <2>1. \A x : WillStop(x) => WillStop(x)'
      BY <1>2, <1>3 DEF WillStop
    <2> QED
      BY <1>1, <1>2, <2>1 DEF StopsReach, IsFirst, Untold
  <1>7. Left'
    BY <1>1, <1>2 DEF Left, MayWait, Paused
  <1> QED
    BY <1>1, <1>3, <1>4, <1>5, <1>6, <1>7, CallsKeep

LEMMA RunStopAllKeeps ==
    ASSUME IInv, RunStopAll
    PROVE  IInv'
  <1> DEFINE owners == Head(tasks).owners
             S == DOMAIN owners
  <1>1. /\ todo = <<>> /\ tasks # <<>> /\ Head(tasks).op = "stopAll" /\ tasks' = Tail(tasks)
        /\ \E order \in SetToSeqs(S) : todo' = Stopping(owners, order)
        /\ UNCHANGED <<activeChannels, channels, told, late, stuck, clients>>
        /\ UNCHANGED <<activities, focus, patience, timer, initiator, receiver, acquired, released, stopped, stops>>
    BY DEF RunStopAll, Takes, channels, patience, clients, observers, Stopping
  <1>2. /\ TypeOK /\ TasksOK /\ Placed /\ Active /\ SecondsPause /\ ForegroundIsOne /\ Floor
        /\ Waiting /\ Known /\ StopsFirst /\ StopsReach /\ Left
    BY DEF IInv, Floor
  <1>3. PICK order \in SetToSeqs(S) : todo' = Stopping(owners, order)
    BY <1>1
  <1>4. S \in SUBSET Channel /\ owners \in [S -> Names]
    <2>1. Head(tasks) \in Task
      BY <1>1, <1>2, TaskTaken
    <2>2. owners \in UNION {[D -> Names] : D \in SUBSET Channel}
      BY <1>1, <2>1 DEF Task
    <2>3. PICK D \in SUBSET Channel : owners \in [D -> Names]
      BY <2>2
    <2> HIDE DEF owners
    <2> QED
      BY <2>3
  <1> HIDE DEF owners, S
  <1>5. /\ todo' \in Seq(Step) /\ InOrder(todo')
        /\ \A s \in Steps' : \/ s = Foreground
                             \/ s.op = "deactivate"
                             \/ s.op = "remove" /\ s.channel \in S
        /\ Foreground \in Steps'
        /\ \A d \in S : /\ Deactivate(d) \in Steps'
                        /\ \E s \in Steps' : s.op = "remove" /\ s.channel = d /\ s.interface = owners[d]
    BY <1>3, <1>4, StoppingIs DEF Steps
  <1>6. Foreground.op = "foreground" /\ \A d : Deactivate(d).op = "deactivate" /\ Deactivate(d).channel = d
    BY DEF Foreground, Deactivate
  <1>7. \A s \in Steps' : s.op \in {"foreground", "deactivate", "remove"}
    BY <1>5, <1>6
  <1>8. Steps = {} /\ ~Leaves /\ \A c \in Channel : ~Fresh(c)
    BY <1>1, BetweenTasks
  <1>9. TypeOK' /\ TasksOK' /\ Ordered'
    <2>1. tasks' \in Seq(Task)
      BY <1>1, <1>2, TaskTaken
    <2> QED
      BY <1>1, <1>2, <1>5, <2>1 DEF TypeOK, TasksOK, Ordered
  <1>10. Leaves' /\ Phased'
    BY <1>5, <1>6, <1>7 DEF Phased, Leaves, Leaving
  <1>11. Active'
    BY <1>1, <1>2, <1>8 DEF Active
  <1>12. StepsAreRight'
    <2> SUFFICES ASSUME NEW s \in Steps' PROVE StepIsRight(s)'
      BY DEF StepsAreRight
    <2>1. s.op = "remove" => \E t \in Steps' : t.op = "deactivate" /\ t.channel = s.channel
      BY <1>5, <1>6
    <2> QED
      BY <1>7, <2>1 DEF StepIsRight, AttachIsRight, RemoveIsRight, BackgroundIsRight, FocusIsRight, NoticeIsRight
  <1>13. Settling'
    BY <1>10 DEF Settling
  <1>14. SecondsPause' /\ ForegroundIsOne'
    BY <1>1, <1>2, <1>7, <1>8 DEF SecondsPause, ForegroundIsOne, OneForegroundChannel, Foregrounded,
          Fresh, WillHear, Untold
  <1>15. Floor' /\ OnChannels' = OnChannels
    BY <1>1, <1>2, FloorIsKept
  <1>16. Left'
    BY <1>1, <1>2, <1>15 DEF Left, MayWait, Paused
  <1>17. tasks' \in Seq(Task) /\ Waiting' /\ Known' /\ StopsFirst'
    <2>1. \A a \in acquired : IF a \notin OnChannels /\ told[a] = Untold
                               THEN a \notin OnChannels' /\ told'[a] = Untold
                               ELSE a \in OnChannels' \/ told'[a] # Untold
      BY <1>1, <1>15
    <2>2. \A s \in Steps' : s.op # "attach"
      BY <1>7
    <2> QED
      BY <1>1, <1>2, <1>8, <2>1, <2>2, QueueGoesOn
  <1>18. StopsReach'
    <2>1. ASSUME NEW a \in stopped \cap OnChannels PROVE WillStop(a)'
      <3>1. PICK i \in DOMAIN tasks :
                /\ tasks[i].op = "stopAll" /\ ChannelOf[a] \in DOMAIN tasks[i].owners
                /\ tasks[i].owners[ChannelOf[a]] = InterfaceOf[a]
        BY <1>2, <1>8 DEF StopsReach, WillStop
      <3>2. /\ Len(tasks) \in Nat /\ DOMAIN tasks = 1..Len(tasks) /\ DOMAIN tasks' = 1..(Len(tasks) - 1)
            /\ \A k \in 1..(Len(tasks) - 1) : tasks'[k] = tasks[k + 1]
            /\ Head(tasks) = tasks[1]
        BY <1>1, <1>2, TaskTaken
      <3>3. CASE i = 1
        <4>1. ChannelOf[a] \in S /\ owners[ChannelOf[a]] = InterfaceOf[a]
          BY <3>1, <3>2, <3>3 DEF owners, S
        <4> QED
          BY <1>5, <4>1 DEF WillStop
      <3>4. CASE i # 1
        <4>1. i - 1 \in DOMAIN tasks' /\ tasks'[i - 1] = tasks[i]
          <5>1. i - 1 \in 1..(Len(tasks) - 1) /\ (i - 1) + 1 = i
            BY <3>2, <3>4
          <5> QED
            BY <3>2, <5>1
        <4> QED
          BY <3>1, <4>1 DEF WillStop
      <3> QED
        BY <3>3, <3>4
    <2>2. \A x : IsFirst(x) => IsFirst(x)'
      BY <1>1 DEF IsFirst
    <2> QED
      BY <1>1, <1>2, <1>7, <1>15, <2>1, <2>2 DEF StopsReach, Untold
  <1> QED
    BY <1>9, <1>10, <1>11, <1>12, <1>13, <1>14, <1>15, <1>16, <1>17, <1>18 DEF IInv, Floor

\* What is to come after an activity is attached to c: all channels that are not
\* what they should be are seen to.
LEMMA AfterAttachingIs ==
    ASSUME TypeOK, NEW c \in Channel, activeChannels' = activeChannels \cup {c}
    PROVE  LET steps == AfterAttaching(c)
           IN  /\ steps \in Seq(Step) /\ InOrder(steps)
               /\ \A s \in Range(steps) :
                      \/ /\ s.op = "background" /\ s.above = Highest' /\ s.above \in activeChannels'
                         /\ s.channel \in activeChannels' /\ s.channel > s.above
                      \/ /\ s.op = "focus" /\ s.focus = "FOREGROUND" /\ s.behavior = "PRIMARY"
                         /\ s.channel = c /\ s.channel = Highest'
               /\ \E s \in Range(steps) : s.op \in {"background", "focus"} /\ s.channel = c
               /\ \A d \in activeChannels \ {c} :
                      \/ Highest' = Highest
                      \/ \E s \in Range(steps) : s.op = "background" /\ s.channel = d
  <1> DEFINE steps == AfterAttaching(c)
             top == ToForeground(c)
             force == SetFocus(c, "FOREGROUND", "PRIMARY", TRUE)
             behind == [op |-> "background", above |-> Highest, channel |-> c]
  <1>1. Channel \subseteq Nat /\ activeChannels \subseteq Channel
    BY FocusAssumption DEF TypeOK
  <1>2. /\ top \in Step /\ top.op = "focus" /\ top.focus = "FOREGROUND" /\ top.behavior = "PRIMARY"
        /\ top.channel = c
        /\ force \in Step /\ force.op = "focus" /\ force.focus = "FOREGROUND" /\ force.behavior = "PRIMARY"
        /\ force.channel = c
    BY DEF ToForeground, SetFocus, Step, FocusState, Behavior
  <1>3. behind.op = "background" /\ behind.above = Highest /\ behind.channel = c
    OBVIOUS
  <1> DEFINE all == activeChannels \cup {c}
  <1>4. Highest' = Min(all)
    BY DEF Highest
  <1>5. all \in SUBSET Nat /\ c \in all /\ all = activeChannels'
    BY <1>1
  <1>6. activeChannels # {} => /\ Highest \in activeChannels /\ Highest \in Channel /\ Highest \in Nat
                               /\ \A d \in activeChannels : Highest <= d
    BY HighestIs
  <1> HIDE DEF top, force, behind, steps, all
  <1>7. CASE activeChannels = {}
    <2>1. steps = <<top>>
      BY <1>7 DEF AfterAttaching, steps, top
    <2>2. steps \in Seq(Step) /\ Range(steps) = {top} /\ InOrder(steps)
      BY <1>2, <2>1, OrderOfOne
    <2>3. all = {c}
      BY <1>7 DEF all
    <2>4. Min(all) = c
      <3>1. \A x \in all : c <= x
        BY <1>1, <2>3
      <3> QED
        BY <1>5, <3>1, MinIs
    <2> QED
      BY <1>2, <1>4, <1>7, <2>2, <2>4 DEF steps
  <1>8. CASE activeChannels # {} /\ Highest = c
    <2>1. steps = <<force>>
      BY <1>8 DEF AfterAttaching, steps, force
    <2>2. steps \in Seq(Step) /\ Range(steps) = {force} /\ InOrder(steps)
      BY <1>2, <2>1, OrderOfOne
    <2>3. Min(all) = c
      <3>1. \A x \in all : c <= x
        BY <1>1, <1>6, <1>8 DEF all
      <3> QED
        BY <1>5, <3>1, MinIs
    <2> QED
      BY <1>2, <1>4, <1>8, <2>2, <2>3 DEF steps
  <1>9. CASE activeChannels # {} /\ Highest # c /\ c < Highest
    <2> DEFINE below == ToBackground(c, activeChannels)
    <2>1. steps = Append(below, top)
      BY <1>9 DEF AfterAttaching, steps, top
    <2>2. Min(all) = c
      <3>1. \A x \in all : c <= x
        BY <1>1, <1>6, <1>9 DEF all
      <3> QED
        BY <1>5, <3>1, MinIs
    <2>3. /\ below \in Seq(Step) /\ InOrder(below)
          /\ \A s \in Range(below) : /\ s.op = "background" /\ s.above = c
                                     /\ s.channel \in activeChannels /\ s.channel > c
          /\ \A d \in activeChannels : d > c => \E s \in Range(below) : s.op = "background" /\ s.channel = d
      BY <1>1, ToBackgroundIs
    <2> HIDE DEF below
    <2>4. \A s \in Range(below) : Before(s, top)
      <3> SUFFICES ASSUME NEW s \in Range(below) PROVE Before(s, top)
        OBVIOUS
      <3>1. s \in Step /\ s.op = "background"
        BY <2>3, RangeOfSeq
      <3>2. Rank(s) = 3 /\ Rank(top) = 4
        BY <1>2, <3>1, RankOfKind
      <3> QED
        BY <3>2 DEF Before
    <2>5. steps \in Seq(Step) /\ Range(steps) = Range(below) \cup {top} /\ InOrder(steps)
      BY <1>2, <2>1, <2>3, <2>4, OrderOfAppend
    <2>6. \A d \in activeChannels : d > c
      BY <1>1, <1>6, <1>9
    <2>7. c \in activeChannels' /\ activeChannels \subseteq activeChannels'
      OBVIOUS
    <2>8. \A s \in Range(steps) :
             \/ /\ s.op = "background" /\ s.above = Highest' /\ s.above \in activeChannels'
                /\ s.channel \in activeChannels' /\ s.channel > s.above
             \/ /\ s.op = "focus" /\ s.focus = "FOREGROUND" /\ s.behavior = "PRIMARY"
                /\ s.channel = c /\ s.channel = Highest'
      BY <1>2, <1>4, <2>2, <2>3, <2>5, <2>7
    <2> QED
      BY <1>2, <2>3, <2>5, <2>6, <2>8 DEF steps
  <1>10. CASE activeChannels # {} /\ Highest # c /\ ~(c < Highest)
    <2>1. steps = <<behind>>
      BY <1>10 DEF AfterAttaching, steps, behind
    <2>2. Min(all) = Highest
      <3>1. \A x \in all : Highest <= x
        BY <1>1, <1>6, <1>10 DEF all
      <3>2. Highest \in all
        BY <1>6, <1>10 DEF all
      <3> QED
        BY <1>5, <3>1, <3>2, MinIs
    <2>3. behind \in Step
      BY <1>6, <1>10 DEF behind, Step
    <2>4. steps \in Seq(Step) /\ Range(steps) = {behind} /\ InOrder(steps)
      BY <2>1, <2>3, OrderOfOne
    <2>5. c > Highest
      BY <1>1, <1>6, <1>10
    <2>6. Highest' = Highest
      BY <1>4, <2>2
    <2>7. Highest \in activeChannels' /\ c \in activeChannels'
      BY <1>6, <1>10
    <2> QED
      BY <1>3, <2>4, <2>5, <2>6, <2>7 DEF steps
  <1> QED
    BY <1>7, <1>8, <1>9, <1>10

LEMMA RunAcquireKeeps ==
    ASSUME IInv, RunAcquire
    PROVE  IInv'
  <1> DEFINE a == Head(tasks).activity
             c == ChannelOf[a]
             new == [op |-> "attach", activity |-> a]
             steps == AfterAttaching(c)
             n == Len(tasks)
  <1>1. /\ todo = <<>> /\ tasks # <<>> /\ Head(tasks).op = "acquire" /\ tasks' = Tail(tasks)
        /\ activeChannels' = activeChannels \cup {c} /\ todo' = <<new>> \o steps
        /\ UNCHANGED <<channels, told, late, stuck, clients>>
        /\ UNCHANGED <<activities, focus, patience, timer, initiator, receiver, acquired, released, stopped, stops>>
    BY DEF RunAcquire, Takes, channels, patience, clients, observers
  <1>2. /\ TypeOK /\ TasksOK /\ Placed /\ Active /\ SecondsPause /\ ForegroundIsOne /\ Floor
        /\ Waiting /\ Known /\ StopsFirst /\ StopsReach /\ Left
    BY DEF IInv, Floor
  <1>3. /\ tasks' \in Seq(Task) /\ n \in Nat /\ DOMAIN tasks = 1..n /\ n >= 1
        /\ DOMAIN tasks' = 1..(n - 1)
        /\ \A i \in 1..(n - 1) : tasks'[i] = tasks[i + 1]
        /\ Head(tasks) = tasks[1] /\ Head(tasks) \in Task
    BY <1>1, <1>2, TaskTaken
  <1>4. a \in Activity /\ c \in Channel
    BY <1>1, <1>3, FocusAssumption DEF Task
  <1>5. new.op = "attach" /\ new.activity = a /\ new \in Step
    BY <1>4 DEF Step
  <1>6. /\ steps \in Seq(Step) /\ InOrder(steps)
        /\ \A s \in Range(steps) :
                      \/ /\ s.op = "background" /\ s.above = Highest' /\ s.above \in activeChannels'
                         /\ s.channel \in activeChannels' /\ s.channel > s.above
                      \/ /\ s.op = "focus" /\ s.focus = "FOREGROUND" /\ s.behavior = "PRIMARY"
                         /\ s.channel = c /\ s.channel = Highest'
        /\ \E s \in Range(steps) : s.op \in {"background", "focus"} /\ s.channel = c
        /\ \A d \in activeChannels \ {c} :
               \/ Highest' = Highest
               \/ \E s \in Range(steps) : s.op = "background" /\ s.channel = d
    BY <1>1, <1>2, <1>4, AfterAttachingIs
  <1> HIDE DEF a, c, new, steps, n
  <1>7. \A y \in Range(steps) : Before(new, y)
    <2> SUFFICES ASSUME NEW y \in Range(steps) PROVE Before(new, y)
      OBVIOUS
    <2>1. y \in Step /\ (y.op = "background" \/ (y.op = "focus" /\ y.focus = "FOREGROUND"))
      BY <1>6, RangeOfSeq
    <2>2. Rank(y) \in {3, 4} /\ Rank(new) = 1
      BY <1>5, <2>1, RankOfKind
    <2> QED
      BY <2>2 DEF Before
  <1>8. todo' \in Seq(Step) /\ Steps' = {new} \cup Range(steps) /\ InOrder(todo')
    BY <1>1, <1>5, <1>6, <1>7, OrderOfCons DEF Steps
  <1>9. /\ Steps = {} /\ ~Leaves
        /\ \A d \in Channel : d \in activeChannels <=> activities[d] # <<>>
        /\ \A d \in Channel : d \notin activeChannels => focus[d] = "NONE"
        /\ \A d \in activeChannels : 
               /\ focus[d] = IF d = Highest THEN "FOREGROUND" ELSE "BACKGROUND"
               /\ \A x \in Range(activities[d]) : IsRight(told[x], x, d)
    BY <1>1, BetweenTasks
  <1>10. TypeOK' /\ TasksOK' /\ Ordered'
    BY <1>1, <1>2, <1>3, <1>4, <1>8 DEF TypeOK, TasksOK, Ordered
  <1>11. ~Leaves' /\ Phased'
    BY <1>5, <1>6, <1>8 DEF Phased, Leaves, Leaving
  <1>12. Floor' /\ OnChannels' = OnChannels
    BY <1>1, <1>2, FloorIsKept
  <1>13. Left'
    BY <1>1, <1>2, <1>12 DEF Left, MayWait, Paused
  <1>14. Untold' = Untold
    BY DEF Untold
  <1>15. \A i \in 1..n : tasks[i].op = "acquire" =>
           /\ Unborn(tasks[i].activity)
           /\ \A j \in 1..n \ {i} : tasks[j].op = "acquire" => tasks[j].activity # tasks[i].activity
    BY <1>2, <1>3 DEF Waiting, Awaits
  <1>16. 1 \in 1..n /\ tasks[1].op = "acquire" /\ tasks[1].activity = a
    BY <1>1, <1>3 DEF a
  <1>17. \A i \in DOMAIN tasks' : i + 1 \in 1..n /\ i + 1 # 1 /\ tasks'[i] = tasks[i + 1] /\ i \in Nat
    BY <1>3
  <1>18. Waiting'
    <2> DEFINE Un(x) == x \in acquired' /\ x \notin OnChannels' /\ told'[x] = Untold
    <2>1. \A x : Unborn(x) => Un(x)
      BY <1>1, <1>12 DEF Unborn
    <2> HIDE DEF Un
    <2>2. ASSUME NEW i \in DOMAIN tasks', tasks'[i].op = "acquire"
          PROVE  /\ Un(tasks'[i].activity)
                 /\ \A s \in Steps' : s.op = "attach" => s.activity # tasks'[i].activity
                 /\ \A j \in DOMAIN tasks' \ {i} : tasks'[j].op = "acquire" => tasks'[j].activity # tasks'[i].activity
      <3>1. Un(tasks'[i].activity) /\ tasks'[i].activity # a
        BY <1>15, <1>16, <1>17, <2>1, <2>2
      <3>2. \A s \in Steps' : s.op = "attach" => s.activity # tasks'[i].activity
        BY <1>5, <1>6, <1>8, <3>1
      <3>3. ASSUME NEW j \in DOMAIN tasks' \ {i}, tasks'[j].op = "acquire"
            PROVE  tasks'[j].activity # tasks'[i].activity
        <4>1. j + 1 # i + 1
          BY <1>17, <3>3
        <4> QED
          BY <1>15, <1>17, <2>2, <3>3, <4>1
      <3> QED
        BY <3>1, <3>2, <3>3
    <2>3. Un(a)
      BY <1>15, <1>16, <2>1
    <2>4. \A s \in Steps' : s.op = "attach" => Un(s.activity)
      BY <1>5, <1>6, <1>8, <2>3
    <2>5. \A x \in Activity \ acquired' : told'[x] = Untold
      BY <1>1, <1>2 DEF Waiting
    <2> QED
      BY <1>14, <2>2, <2>4, <2>5 DEF Waiting, Awaits, Unborn, Un
  <1>19. Known'
    <2> SUFFICES ASSUME NEW x \in acquired, x \notin OnChannels, told[x] = Untold
                 PROVE  \/ \E i \in DOMAIN tasks' : tasks'[i].op = "acquire" /\ tasks'[i].activity = x
                        \/ \E s \in Steps' : s.op = "attach" /\ s.activity = x
      BY <1>1, <1>12, <1>14 DEF Known, Awaits
    <2>1. PICK i \in 1..n : tasks[i].op = "acquire" /\ tasks[i].activity = x
      BY <1>2, <1>3, <1>9 DEF Known, Awaits
    <2>2. CASE i = 1
      BY <1>5, <1>8, <1>16, <2>1, <2>2
    <2>3. CASE i # 1
      <3>1. i - 1 \in DOMAIN tasks' /\ tasks'[i - 1] = tasks[i]
        <4>1. i - 1 \in 1..(n - 1) /\ (i - 1) + 1 = i
          BY <1>3, <2>3
        <4> QED
          BY <1>3, <4>1
      <3> QED
        BY <2>1, <3>1
    <2> QED
      BY <2>2, <2>3
  <1>20. StopsFirst'
    <2> SUFFICES ASSUME NEW i \in DOMAIN tasks', NEW j \in DOMAIN tasks', i < j, IsStop(tasks'[j])
                 PROVE  IsStop(tasks'[i])
      BY DEF StopsFirst, IsStop
    <2>1. i + 1 < j + 1
      BY <1>17
    <2> QED
      BY <1>2, <1>3, <1>17, <2>1 DEF StopsFirst
  <1>21. stopped \cap OnChannels = {}
    <2> SUFFICES ASSUME NEW x \in stopped \cap OnChannels PROVE FALSE
      OBVIOUS
    <2>1. PICK i \in 1..n : tasks[i].op = "stopAll"
      BY <1>2, <1>3, <1>9 DEF StopsReach, WillStop
    <2>2. 1 < i
      BY <1>3, <1>16, <2>1
    <2>3. IsStop(tasks[1])
      BY <1>2, <1>3, <1>16, <2>1, <2>2 DEF StopsFirst, IsStop
    <2> QED
      BY <1>16, <2>3 DEF IsStop
  <1>22. StopsReach'
    BY <1>1, <1>2, <1>12, <1>14, <1>21 DEF StopsReach
  <1>23. Active'
    <2> SUFFICES ASSUME NEW d \in Channel
        PROVE  /\ activities[d] # <<>> => d \in activeChannels'
               /\ d \in activeChannels' /\ activities[d] = <<>> =>
                      \E s \in Steps' : s.op = "attach" /\ ChannelOf[s.activity] = d
               /\ d \notin activeChannels' => focus[d] = "NONE"
      BY <1>1 DEF Active
    <2>1. d = c => new \in Steps' /\ ChannelOf[new.activity] = d
      BY <1>5, <1>8 DEF c
    <2> QED
      BY <1>1, <1>5, <1>9, <2>1
  <1>24. \E s \in Steps' : s.op \in {"background", "focus"} /\ s.channel = c
    BY <1>6, <1>8
  <1>25. StepsAreRight'
    <2> SUFFICES ASSUME NEW s \in Steps' PROVE StepIsRight(s)'
      BY DEF StepsAreRight
    <2>1. CASE s = new
      <3>1. s.op = "attach" /\ ChannelOf[s.activity] = c
        BY <1>5, <2>1 DEF c
      <3>2. \E t \in Steps' : t.op \in {"background", "focus"} /\ t.channel = ChannelOf[s.activity]
        BY <1>24, <3>1
      <3>3. AttachIsRight(s)'
        BY <1>1, <3>1, <3>2 DEF AttachIsRight, Pending
      <3> QED
        BY <3>1, <3>3 DEF StepIsRight, RemoveIsRight, BackgroundIsRight, FocusIsRight, NoticeIsRight
    <2>2. CASE s \in Range(steps) /\ s.op = "background"
      BY <1>6, <2>2 DEF StepIsRight, AttachIsRight, RemoveIsRight, BackgroundIsRight, FocusIsRight, NoticeIsRight
    <2>3. CASE s \in Range(steps) /\ s.op = "focus"
      <3>1. s.focus = "FOREGROUND" /\ s.behavior = "PRIMARY" /\ s.channel = Highest' /\ s.channel \in activeChannels'
        BY <1>1, <1>6, <2>3
      <3> QED
        BY <2>3, <3>1 DEF StepIsRight, AttachIsRight, RemoveIsRight, BackgroundIsRight, FocusIsRight, NoticeIsRight
    <2> QED
      BY <1>6, <1>8, <2>1, <2>2, <2>3
  <1>26. Settling'
    <2> SUFFICES ASSUME NEW d \in activeChannels'
                 PROVE  \/ \E s \in Steps' : s.op \in {"background", "focus"} /\ s.channel = d
                        \/ Settled(d)'
      BY DEF Settling, Pending
    <2>1. CASE d = c
      BY <1>24, <2>1
    <2>2. CASE d # c
      <3>1. d \in activeChannels
        BY <1>1, <2>2
      <3>2. CASE Highest' = Highest
        <4>1. \A x \in Range(activities[d]) : IsRight(told[x], x, d)
          BY <1>9, <3>1
        <4>2. \A x \in Range(activities[d]) : IsRight(told[x], x, d)'
          BY <1>1, <3>2, <4>1 DEF IsRight
        <4>3. focus[d] = IF d = Highest THEN "FOREGROUND" ELSE "BACKGROUND"
          BY <1>9, <3>1
        <4> QED
          BY <1>1, <3>2, <4>2, <4>3 DEF Settled, IsRight
      <3>3. CASE Highest' # Highest
        BY <1>6, <1>8, <2>2, <3>1, <3>3
      <3> QED
        BY <3>2, <3>3
    <2> QED
      BY <2>1, <2>2
  <1>27. \A s \in Steps' : s.op # "notify"
    BY <1>5, <1>6, <1>8
  <1>28. SecondsPause' /\ ForegroundIsOne'
    BY <1>1, <1>2, <1>9, <1>11, <1>27 DEF SecondsPause, ForegroundIsOne, OneForegroundChannel, Foregrounded,
          Fresh, WillHear, Leaves, Untold
  <1> QED
    BY <1>3, <1>10, <1>11, <1>12, <1>13, <1>18, <1>19, <1>20, <1>22, <1>23, <1>25, <1>26, <1>28 DEF IInv, Floor

-----------------------------------------------------------------------------
(***************************************************************************)
(* Steps that move an activity, or tell one.                               *)
(***************************************************************************)
LEMMA NotifyActivityKeeps ==
    ASSUME IInv, NotifyActivity
    PROVE  IInv'
  <1> DEFINE h == Head(todo)
             rest == Range(Tail(todo))
             a == h.activity
             b == IF told[a].behavior = "MUST_PAUSE" /\ h.behavior = "MAY_DUCK" THEN "MUST_PAUSE"
                  ELSE h.behavior
  <1>1. /\ todo # <<>> /\ h.op = "notify" /\ todo' = Tail(todo)
        /\ told' = [told EXCEPT ![a] = [focus |-> h.focus, behavior |-> b]]
        /\ late' = late \cup ({a} \ OnChannels)
        /\ UNCHANGED <<tasks, activeChannels, channels, stuck, clients>>
        /\ UNCHANGED <<activities, focus, patience, timer, initiator, receiver, acquired, released, stopped, stops>>
    BY DEF NotifyActivity, Does, channels, patience, clients, observers
  <1>2. /\ TypeOK /\ TasksOK /\ Ordered /\ Phased /\ Active /\ Placed /\ StepsAreRight /\ Settling
        /\ SecondsPause /\ ForegroundIsOne /\ Floor /\ Waiting /\ Known /\ StopsFirst /\ StopsReach
        /\ Left /\ Told /\ SecondPlaceEnds
    BY DEF IInv, Floor
  <1>3. /\ h \in Step /\ h \in Steps /\ Tail(todo) \in Seq(Step) /\ InOrder(Tail(todo))
        /\ Steps = {h} \cup rest /\ rest \subseteq Step
        /\ \A t \in rest : Before(h, t)
    BY <1>1, <1>2, FirstStep
  <1>4. Steps' = rest
    BY <1>1 DEF Steps
  <1> HIDE DEF h, rest
  <1>5. a \in Activity /\ h.focus \in FocusState /\ h.behavior \in Behavior
    BY <1>1, <1>3, StepKinds
  <1>6. b \in Behavior /\ (b = h.behavior \/ (b = "MUST_PAUSE" /\ h.behavior = "MAY_DUCK"))
    BY <1>5 DEF Behavior
  <1> HIDE DEF b
  <1>7. /\ told'[a] = [focus |-> h.focus, behavior |-> b]
        /\ told'[a].focus = h.focus /\ told'[a].behavior = b
        /\ \A x \in Activity : x # a => told'[x] = told[x]
    BY <1>1, <1>2, <1>5 DEF TypeOK
  <1>8. \/ a \in OnChannels /\ IsRight(h, a, ChannelOf[a])
        \/ /\ a \notin OnChannels
           /\ h.focus = "BACKGROUND" /\ h.behavior = "MUST_PAUSE"
           /\ told[a] # Untold /\ MayWait(a)
    BY <1>1, <1>2, <1>3 DEF StepsAreRight, StepIsRight, NoticeIsRight
  <1>9. ASSUME NEW x \in acquired PROVE Mixing[a, x] \in {"MAY_DUCK", "MUST_PAUSE"}
    BY <1>2, <1>5, FocusAssumption DEF TypeOK
  <1>10. a \in OnChannels => IsRight(told'[a], a, ChannelOf[a])
    BY <1>6, <1>7, <1>8 DEF IsRight
  <1>11. \/ /\ told'[a].focus = "FOREGROUND" /\ told'[a].behavior = "PRIMARY" /\ a \in OnChannels
            /\ ChannelOf[a] = Highest
         \/ told'[a].focus = "BACKGROUND" /\ told'[a].behavior \in {"MAY_DUCK", "MUST_PAUSE"}
    <2>1. CASE a \in OnChannels
      BY <1>9, <1>10, <2>1 DEF IsRight
    <2>2. CASE a \notin OnChannels
      BY <1>6, <1>7, <1>8, <2>2
    <2> QED
      BY <2>1, <2>2
  <1>12. told'[a] # Untold /\ Untold' = Untold
    BY <1>11 DEF Untold
  <1>13. \A x \in Activity : told[x] # Untold => told'[x] # Untold
    BY <1>7, <1>12
  <1>14. Highest' = Highest /\ OnChannels' = OnChannels
    BY <1>1, OnChannelsKept DEF Highest
  <1>15. ~Leaves /\ ~Leaves' /\ Phased'
    <2>1. ~Leaving(h)
      BY <1>1 DEF Leaving
    <2> QED
      BY <1>2, <1>3, <1>4, <2>1 DEF Phased, Leaves
  <1>16. TypeOK' /\ TasksOK' /\ Ordered'
    BY <1>1, <1>2, <1>3, <1>4, <1>5, <1>6 DEF TypeOK, TasksOK, Ordered
  <1>17. Placed' /\ Patiently' /\ SecondsMayWait' /\ SecondPlaceEnds'
    <2>1. \A c \in Channel : WasReplaced(c) => WasReplaced(c)'
      <3>1. \A x \in OnChannels' \ OnChannels : told[x] = Untold
        BY <1>14
      <3> QED
        BY <1>1, <1>2, <1>13, <3>1, ReplacedForEver
    <2>2. Placed' /\ Patiently' /\ SecondsMayWait'
      BY <1>1, <1>2 DEF Floor, Placed, Patiently, SecondsMayWait, MayWait
    <2> QED
      BY <1>1, <1>2, <2>1, <2>2 DEF SecondPlaceEnds
  <1>18. Told'
    <2> SUFFICES ASSUME NEW x \in Activity
        PROVE  \/ told'[x] \in {Untold, Gone, [focus |-> "FOREGROUND", behavior |-> "PRIMARY"]}
               \/ told'[x].focus = "BACKGROUND" /\ told'[x].behavior \in {"MAY_DUCK", "MUST_PAUSE"}
      BY <1>12 DEF Told, Gone
    <2>1. CASE x = a
      BY <1>7, <1>11, <2>1
    <2>2. CASE x # a
      BY <1>2, <1>7, <2>2 DEF Told
    <2> QED
      BY <2>1, <2>2
  <1>19. Left'
    <2>1. \A x \in acquired : x \in Activity
      BY <1>2 DEF TypeOK
    <2>2. \A x \in acquired \ OnChannels : told'[x].focus = "NONE" \/ x \in late'
      BY <1>1, <1>2, <1>7, <2>1 DEF Left
    <2>3. ASSUME NEW x \in late'
          PROVE  x \in acquired \ OnChannels /\ told'[x] = Paused /\ MayWait(x)
      <3>1. CASE x = a
        <4>1. a \notin OnChannels
          BY <1>1, <1>2, <2>3, <3>1 DEF Left
        <4>2. a \in acquired
          BY <1>2, <1>5, <1>8, <4>1 DEF Waiting
        <4>3. told'[a] = Paused
          BY <1>6, <1>7, <1>8, <4>1 DEF Paused
        <4> QED
          BY <1>8, <3>1, <4>1, <4>2, <4>3
      <3>2. CASE x # a
        BY <1>1, <1>2, <1>7, <2>1, <2>3, <3>2 DEF Left
      <3> QED
        BY <3>1, <3>2
    <2> QED
      BY <1>1, <1>14, <2>2, <2>3 DEF Left, MayWait, Paused
  <1>20. tasks' \in Seq(Task) /\ Waiting' /\ Known' /\ StopsFirst'
    <2>1. ASSUME NEW x \in acquired
          PROVE  IF x \notin OnChannels /\ told[x] = Untold
                 THEN x \notin OnChannels' /\ told'[x] = Untold
                 ELSE x \in OnChannels' \/ told'[x] # Untold
      <3>1. x \in Activity
        BY <1>2 DEF TypeOK
      <3> QED
        BY <1>7, <1>8, <1>13, <1>14, <3>1
    <2>2. ASSUME NEW x \in Activity \ acquired PROVE told'[x] = told[x]
      <3>1. x # a
        <4>1. a \in OnChannels => a \in acquired
          BY <1>2, OnChannelsAre
        <4>2. told[x] = Untold
          BY <1>2 DEF Waiting
        <4> QED
          BY <1>8, <4>1, <4>2
      <3> QED
        BY <1>7, <3>1
    <2>3. \A s \in Steps : s.op = "attach" => s \in Steps'
      BY <1>1, <1>3, <1>4
    <2>4. \A s \in Steps' : s \in Steps
      BY <1>3, <1>4
    <2> QED
      BY <1>1, <1>2, <2>1, <2>2, <2>3, <2>4, QueueGoesOn
  <1>21. Active'
    <2>1. \A s \in Steps : s.op # "notify" => s \in Steps'
      BY <1>1, <1>3, <1>4
    <2> QED
      BY <1>1, <1>2, <2>1 DEF Active
  <1>22. StepsAreRight'
    <2> SUFFICES ASSUME NEW s \in rest PROVE StepIsRight(s)'
      BY <1>4 DEF StepsAreRight
    <2>1. s \in Step /\ StepIsRight(s)
      BY <1>2, <1>3 DEF StepsAreRight
    <2>2. BackgroundIsRight(s)' /\ FocusIsRight(s)' /\ NoticeIsRight(s)'
      <3>1. s.op = "notify" => s.activity # a
        BY <1>1, <1>3, <2>1, RankOfKind DEF Before
      <3>2. s.op = "notify" => (s.activity \in late' => s.activity \in late)
        BY <1>1, <3>1
      <3>3. s.op # "notify" => NoticeIsRight(s)'
        BY DEF NoticeIsRight
      <3> QED
        BY <1>1, <1>13, <2>1, <3>2, <3>3, StepsStayRight DEF StepIsRight
    <2>3. AttachIsRight(s)'
      <3> SUFFICES ASSUME s.op = "attach"
                   PROVE  /\ ChannelOf[s.activity] \in activeChannels
                          /\ \E t \in rest : t.op \in {"background", "focus"} /\ t.channel = ChannelOf[s.activity]
        BY <1>1, <1>4 DEF AttachIsRight, Pending
      <3> QED
        BY <1>1, <1>3, <2>1 DEF StepIsRight, AttachIsRight, Pending
    <2>4. RemoveIsRight(s)'
      <3> SUFFICES ASSUME s.op = "remove" PROVE \E t \in rest : t.op = "deactivate" /\ t.channel = s.channel
        BY <1>4 DEF RemoveIsRight
      <3>1. PICK t \in Steps : t.op = "deactivate" /\ t.channel = s.channel
        BY <2>1 DEF StepIsRight, RemoveIsRight
      <3> QED
        BY <1>1, <1>3, <3>1
    <2> QED
      BY <2>2, <2>3, <2>4 DEF StepIsRight
  <1>23. Settling'
    <2> SUFFICES ASSUME NEW c \in activeChannels
                 PROVE  \/ \E s \in rest : s.op \in {"background", "focus"} /\ s.channel = c
                        \/ Settled(c)'
      BY <1>1, <1>4 DEF Settling, Pending
    <2>1. CASE Pending(c)
      BY <1>1, <1>3, <2>1 DEF Pending
    <2>2. CASE Settled(c)
      <3>1. ASSUME NEW x \in Range(activities[c])
            PROVE  (\E s \in rest : s.op = "notify" /\ s.activity = x) \/ IsRight(told'[x], x, c)
        <4>1. x \in Activity /\ ChannelOf[x] = c /\ x \in OnChannels
          BY <1>2, OnChannelsAre DEF TypeOK
        <4>2. CASE x = a
          BY <1>10, <4>1, <4>2
        <4>3. CASE x # a
          BY <1>3, <1>7, <2>2, <4>1, <4>3 DEF Settled, WillHear
        <4> QED
          BY <4>2, <4>3
      <3>2. \A n, x : IsRight(n, x, c) => IsRight(n, x, c)'
        BY <1>1, <1>14 DEF IsRight
      <3>3. \A x \in Range(activities[c]) : 
               (\E s \in rest : s.op = "notify" /\ s.activity = x) \/ IsRight(told[x], x, c)'
        BY <1>1, <1>14, <3>1 DEF IsRight
      <3> QED
        BY <1>1, <1>4, <1>14, <2>2, <3>3 DEF Settled, WillHear, IsRight
    <2> QED
      BY <1>2, <1>15, <2>1, <2>2 DEF Settling
  <1>24. SecondsPause'
    <2> SUFFICES ASSUME NEW c \in Channel, NEW i \in DOMAIN activities[c], i >= 2
                 PROVE  \/ told'[activities[c][i]] = [focus |-> "BACKGROUND", behavior |-> "MUST_PAUSE"]
                        \/ \E s \in rest : s.op = "notify" /\ s.activity = activities[c][i]
                        \/ Fresh(c)'
      BY <1>1, <1>4, <1>15 DEF SecondsPause, WillHear
    <2> DEFINE x == activities[c][i]
    <2>1. /\ x \in Range(activities[c]) /\ x \in OnChannels /\ ChannelOf[x] = c /\ x \in Activity
          /\ activities[c] \in Seq(Activity)
      BY <1>2, OnChannelsAre DEF TypeOK
    <2>2. /\ activities[c] # <<>> /\ Head(activities[c]) = activities[c][1]
          /\ Head(activities[c]) \in Activity /\ 1 \in DOMAIN activities[c]
      BY <2>1
    <2>3. x # Head(activities[c])
      BY <1>2, <2>2 DEF Placed
    <2> HIDE DEF x
    <2>4. CASE x = a
      <3>1. told'[a].focus = "BACKGROUND" /\ told'[a].behavior = "MUST_PAUSE"
        BY <1>10, <2>1, <2>3, <2>4 DEF IsRight
      <3>2. told'[a] = [focus |-> "BACKGROUND", behavior |-> "MUST_PAUSE"]
        BY <1>7, <3>1
      <3> QED
        BY <2>4, <3>2 DEF x
    <2>5. CASE x # a /\ Fresh(c)
      <3>1. Head(activities[c]) # a
        BY <1>1, <1>3, <2>5 DEF Fresh, WillHear
      <3>2. told'[Head(activities[c])] = Untold
        BY <1>7, <2>2, <2>5, <3>1 DEF Fresh
      <3>3. \A s \in rest : ~(s.op = "notify" /\ s.activity = Head(activities[c]))
        BY <1>3, <2>5 DEF Fresh, WillHear
      <3> QED
        BY <1>1, <1>4, <1>12, <2>2, <3>2, <3>3 DEF Fresh, WillHear
    <2>6. CASE x # a /\ ~Fresh(c)
      <3>1. told[x] = [focus |-> "BACKGROUND", behavior |-> "MUST_PAUSE"] \/ WillHear(x)
        BY <1>2, <2>6 DEF SecondsPause, x
      <3>2. WillHear(x) => \E s \in rest : s.op = "notify" /\ s.activity = x
        BY <1>3, <2>6 DEF WillHear
      <3> QED
        BY <1>7, <2>1, <2>6, <3>1, <3>2 DEF x
    <2> QED
      BY <2>4, <2>5, <2>6
  <1>25. ForegroundIsOne'
    <2>1. Foregrounded' \subseteq Foregrounded \cup {a}
      BY <1>7 DEF Foregrounded
    <2>2. a \in Foregrounded' => h.focus = "FOREGROUND"
      BY <1>7 DEF Foregrounded
    <2>3. h.focus = "FOREGROUND" => \A x \in Foregrounded : ChannelOf[x] = ChannelOf[a]
      BY <1>1, <1>2, <1>3 DEF ForegroundIsOne
    <2>4. OneForegroundChannel'
      BY <1>2, <2>1, <2>2, <2>3 DEF ForegroundIsOne, OneForegroundChannel
    <2>5. ASSUME NEW s \in rest, s.op = "notify", s.focus = "FOREGROUND", NEW x \in Foregrounded'
          PROVE  ChannelOf[x] = ChannelOf[s.activity]
      <3>1. CASE x \in Foregrounded
        BY <1>2, <1>3, <2>5, <3>1 DEF ForegroundIsOne
      <3>2. CASE x \notin Foregrounded
        <4>1. x = a /\ ChannelOf[a] = Highest
          BY <1>7, <1>11, <2>1, <2>2, <2>5, <3>2
        <4>2. NoticeIsRight(s)
          BY <1>2, <1>3 DEF StepsAreRight, StepIsRight
        <4>3. ChannelOf[s.activity] = Highest
          BY <2>5, <4>2 DEF NoticeIsRight, IsRight
        <4> QED
          BY <4>1, <4>3
      <3> QED
        BY <3>1, <3>2
    <2> QED
      BY <1>4, <2>4, <2>5 DEF ForegroundIsOne
  <1>26. StopsReach'
    <2>1. \A s \in Steps : s.op # "notify" => s \in Steps'
      BY <1>1, <1>3, <1>4
    <2>2. \A x : WillStop(x) => WillStop(x)'
      BY <1>1, <2>1 DEF WillStop
    <2>3. \A x : IsFirst(x) => IsFirst(x)'
      BY <1>1 DEF IsFirst
    <2>4. \A x \in stopped : x \in Activity
      BY <1>2 DEF TypeOK
    <2>5. \A s \in Steps' : s \in Steps
      BY <1>3, <1>4
    <2> QED
      BY <1>1, <1>2, <1>12, <1>13, <1>14, <2>2, <2>3, <2>4, <2>5 DEF StopsReach
  <1> QED
    BY <1>15, <1>16, <1>17, <1>18, <1>19, <1>20, <1>21, <1>22, <1>23, <1>24, <1>25, <1>26 DEF IInv

\* Those that stay keep their order.
LEMMA ThoseThatStay ==
    ASSUME TypeOK, Placed, NEW c \in Channel, NEW removed
    PROVE  LET act == activities[c]
               w   == Without(c, removed)
           IN  /\ act \in Seq(Activity) /\ w \in Seq(Activity) /\ Range(w) = Range(act) \ removed
               /\ Len(w) <= Len(act)
               /\ \A i, j \in DOMAIN act : i # j => act[i] # act[j]
               /\ \A i, j \in DOMAIN w : i # j => w[i] # w[j]
               /\ \A i, j \in DOMAIN w : i < j =>
                      \E k, l \in DOMAIN act :
                          k < l /\ i <= k /\ j <= l /\ w[i] = act[k] /\ w[j] = act[l]
               /\ \A j \in DOMAIN w : j >= 2 => \E l \in DOMAIN act : l >= 2 /\ w[j] = act[l]
  <1> DEFINE act == activities[c]
             w == Without(c, removed)
  <1>1. act \in Seq(Activity)
    BY DEF TypeOK
  <1>2. /\ w \in Seq(Activity) /\ Range(w) = Range(act) \ removed /\ Len(w) <= Len(act)
        /\ \A i, j \in DOMAIN w : i < j =>
               \E k, l \in DOMAIN act :
                   k < l /\ i <= k /\ j <= l /\ w[i] = act[k] /\ w[j] = act[l]
    BY <1>1, WithoutIs
  <1>3. \A i, j \in DOMAIN act : i # j => act[i] # act[j]
    BY DEF Placed
  <1> HIDE DEF act, w
  <1>4. DOMAIN w = 1..Len(w) /\ Len(w) \in Nat /\ DOMAIN act = 1..Len(act) /\ Len(act) \in Nat
    BY <1>1, <1>2
  <1>5. ASSUME NEW i \in DOMAIN w, NEW j \in DOMAIN w, i < j PROVE w[i] # w[j]
    <2>1. PICK k \in DOMAIN act, l \in DOMAIN act : k < l /\ w[i] = act[k] /\ w[j] = act[l]
      BY <1>2, <1>5
    <2>2. k # l
      BY <1>4, <2>1
    <2> QED
      BY <1>3, <2>1, <2>2
  <1>6. ASSUME NEW i \in DOMAIN w, NEW j \in DOMAIN w, i # j PROVE w[i] # w[j]
    <2>1. i < j \/ j < i
      BY <1>4, <1>6
    <2> QED
      BY <1>5, <2>1
  <1>7. ASSUME NEW j \in DOMAIN w, j >= 2 PROVE \E l \in DOMAIN act : l >= 2 /\ w[j] = act[l]
    <2>1. 1 \in DOMAIN w /\ 1 < j
      BY <1>4, <1>7
    <2>2. PICK k \in DOMAIN act, l \in DOMAIN act : k < l /\ w[1] = act[k] /\ w[j] = act[l]
      BY <1>2, <2>1
    <2>3. l >= 2
      BY <1>4, <2>2
    <2> QED
      BY <2>2, <2>3
  <1> QED
    BY <1>1, <1>2, <1>3, <1>6, <1>7 DEF act, w

\* What the departure of activities from c changes, and what it does not.
LEMMA Departure ==
    ASSUME IInv, NEW c \in Channel, NEW removed \in SUBSET Range(activities[c]),
           activities' = [activities EXCEPT ![c] = Without(c, removed)],
           told' = ToldGone(c, removed), UNCHANGED <<acquired, stopped, late>>,
           \A d \in Channel \ {c} :
               timer'[d] = timer[d] /\ initiator'[d] = initiator[d] /\ receiver'[d] = receiver[d],
           initiator[c] \notin removed /\ receiver[c] \notin removed =>
               timer'[c] = timer[c] /\ initiator'[c] = initiator[c] /\ receiver'[c] = receiver[c],
           timer'[c] # "off" =>
               timer[c] # "off" /\ initiator[c] \notin removed /\ receiver[c] \notin removed
    PROVE  /\ Floor' /\ Left' /\ OnChannels' = OnChannels \ removed
           /\ activities' \in [Channel -> Seq(Activity)]
           /\ told' \in [Activity -> [focus : FocusState, behavior : Behavior]]
           /\ activities'[c] = Without(c, removed)
           /\ \A d \in Channel \ {c} : activities'[d] = activities[d]
           /\ \A a \in Activity : told'[a] = IF a \in removed THEN Gone ELSE told[a]
           /\ \A a \in acquired : IF a \notin OnChannels /\ told[a] = Untold
                                  THEN a \notin OnChannels' /\ told'[a] = Untold
                                  ELSE a \in OnChannels' \/ told'[a] # Untold
           /\ \A a \in Activity \ acquired : told'[a] = told[a]
           /\ \A x : IsFirst(x) => IsFirst(x)'
           /\ Foregrounded' \subseteq Foregrounded
  <1> DEFINE act == activities[c]
             w == Without(c, removed)
  <1>1. TypeOK /\ Placed /\ Told /\ Patiently /\ SecondsMayWait /\ SecondPlaceEnds /\ Left /\ Waiting
    BY DEF IInv
  <1>2. /\ act \in Seq(Activity) /\ w \in Seq(Activity) /\ Range(w) = Range(act) \ removed
        /\ Len(w) <= Len(act)
        /\ \A i, j \in DOMAIN act : i # j => act[i] # act[j]
        /\ \A i, j \in DOMAIN w : i # j => w[i] # w[j]
        /\ \A i, j \in DOMAIN w : i < j =>
                      \E k, l \in DOMAIN act :
                          k < l /\ i <= k /\ j <= l /\ w[i] = act[k] /\ w[j] = act[l]
        /\ \A j \in DOMAIN w : j >= 2 => \E l \in DOMAIN act : l >= 2 /\ w[j] = act[l]
    BY <1>1, ThoseThatStay
  <1>3. activities'[c] = w /\ \A d \in Channel \ {c} : activities'[d] = activities[d]
    BY <1>1 DEF TypeOK
  <1>4. activities' \in [Channel -> Seq(Activity)]
    BY <1>1, <1>2 DEF TypeOK
  <1>5. /\ OnChannels \subseteq Activity \cap acquired
        /\ \A a \in OnChannels : a \in Range(activities[ChannelOf[a]])
        /\ \A d \in Channel : \A a \in Range(activities[d]) :
                  a \in OnChannels /\ ChannelOf[a] = d /\ a \in Activity \cap acquired
        /\ \A d \in Channel : \A i \in DOMAIN activities[d] : activities[d][i] \in Range(activities[d])
    BY <1>1, OnChannelsAre
  <1>6. removed \subseteq Range(act)
    OBVIOUS
  <1>7. \A a \in Activity : told'[a] = IF a \in removed THEN Gone ELSE told[a]
    BY DEF ToldGone
  <1>8. told' \in [Activity -> [focus : FocusState, behavior : Behavior]]
    <2>1. Gone \in [focus : FocusState, behavior : Behavior]
      BY DEF Gone, FocusState, Behavior
    <2> QED
      BY <1>1, <2>1 DEF TypeOK, ToldGone
  <1> HIDE DEF act, w
  <1>9. \A d \in Channel : Range(activities'[d]) = Range(activities[d]) \ removed
    <2> SUFFICES ASSUME NEW d \in Channel PROVE Range(activities'[d]) = Range(activities[d]) \ removed
      OBVIOUS
    <2>1. CASE d = c
      BY <1>2, <1>3, <2>1 DEF act
    <2>2. CASE d # c
      <3>1. Range(activities[d]) \cap removed = {}
        BY <1>5, <1>6, <2>2 DEF act
      <3> QED
        BY <1>3, <2>2, <3>1
    <2> QED
      BY <2>1, <2>2
  <1>10. OnChannels' = OnChannels \ removed
    <2>1. \A a : a \in OnChannels' <=> \E d \in Channel : a \in Range(activities'[d])
      BY DEF OnChannels
    <2>2. \A a : a \in OnChannels <=> \E d \in Channel : a \in Range(activities[d])
      BY DEF OnChannels
    <2> QED
      BY <1>9, <2>1, <2>2
  <1>11. Gone # Untold /\ Gone.focus = "NONE" /\ Gone' = Gone /\ Untold' = Untold
    BY DEF Gone, Untold
  <1>12. Placed'
    <2> SUFFICES ASSUME NEW d \in Channel
        PROVE  /\ \A a \in Range(activities'[d]) : ChannelOf[a] = d /\ a \in acquired
               /\ \A i, j \in DOMAIN activities'[d] : i # j => activities'[d][i] # activities'[d][j]
      BY DEF Placed
    <2>1. \A a \in Range(activities'[d]) : ChannelOf[a] = d /\ a \in acquired
      BY <1>5, <1>9
    <2>2. CASE d = c
      BY <1>2, <1>3, <2>1, <2>2
    <2>3. CASE d # c
      BY <1>1, <1>3, <2>1, <2>3 DEF Placed
    <2> QED
      BY <2>2, <2>3
  <1>13. Told'
    BY <1>1, <1>7, <1>11 DEF Told
  <1>14. Patiently'
    <2> SUFFICES ASSUME NEW d \in Channel, timer'[d] # "off"
        PROVE  /\ Len(activities'[d]) >= 2
               /\ activities'[d][1] = initiator'[d] /\ activities'[d][2] = receiver'[d]
               /\ initiator'[d] \in Patient
      BY DEF Patiently
    <2>1. CASE d = c
      <3>1. /\ timer[c] # "off" /\ initiator[c] \notin removed /\ receiver[c] \notin removed
            /\ initiator'[c] = initiator[c] /\ receiver'[c] = receiver[c]
        BY <2>1
      <3>2. Len(act) >= 2 /\ act[1] = initiator[c] /\ act[2] = receiver[c] /\ initiator[c] \in Patient
        BY <1>1, <3>1 DEF Patiently, act
      <3>3. act # <<>> /\ Head(act) = act[1]
        BY <1>2, <3>2
      <3>4. w # <<>> /\ Head(w) = act[1] /\ Len(w) >= 2 /\ w[2] = act[2]
        BY <1>2, <3>1, <3>2, <3>3, WithoutKeepsFirst DEF act, w
      <3>5. w[1] = act[1]
        BY <1>2, <3>4
      <3> QED
        BY <1>3, <2>1, <3>1, <3>2, <3>4, <3>5
    <2>2. CASE d # c
      BY <1>1, <1>3, <2>2 DEF Patiently
    <2> QED
      BY <2>1, <2>2
  <1>15. SecondsMayWait'
    <2> SUFFICES ASSUME NEW d \in Channel, NEW i \in DOMAIN activities'[d], i >= 2
                 PROVE  MayWait(activities'[d][i])
      BY DEF SecondsMayWait, MayWait
    <2>1. \A e \in Channel : \A l \in DOMAIN activities[e] : l >= 2 => MayWait(activities[e][l])
      BY <1>1 DEF SecondsMayWait
    <2>2. \E l \in DOMAIN activities[d] : l >= 2 /\ activities'[d][i] = activities[d][l]
      <3>1. CASE d = c
        BY <1>2, <1>3, <3>1 DEF act
      <3>2. CASE d # c
        BY <1>3, <3>2
      <3> QED
        BY <3>1, <3>2
    <2> QED
      BY <2>1, <2>2
  <1>16. \A a \in Activity : told[a] # Untold => told'[a] # Untold
    BY <1>7, <1>11
  <1>17. SecondPlaceEnds'
    <2> SUFFICES ASSUME NEW d \in Channel, Len(activities'[d]) > 1
        PROVE  \/ timer'[d] # "off" /\ activities'[d] = <<initiator'[d], receiver'[d]>>
               \/ WasReplaced(d)'
      BY DEF SecondPlaceEnds
    <2>1. WasReplaced(d) => WasReplaced(d)'
      <3>1. \A a \in OnChannels' \ OnChannels : told[a] = Untold
        BY <1>10
      <3> QED
        BY <1>1, <1>16, <3>1, ReplacedForEver
    <2>2. CASE d = c /\ ~WasReplaced(c)
      <3>1. Len(w) > 1 /\ Len(act) > 1 /\ 1 \in DOMAIN w /\ 2 \in DOMAIN w
        BY <1>2, <1>3, <2>2
      <3>2. timer[c] # "off" /\ act = <<initiator[c], receiver[c]>>
        BY <1>1, <2>2, <3>1 DEF SecondPlaceEnds, act
      <3>3. Range(act) = {initiator[c], receiver[c]}
        BY <3>2 DEF Range
      <3>4. w[1] \in Range(w) /\ w[2] \in Range(w) /\ w[1] # w[2]
        BY <1>2, <3>1 DEF Range
      <3>5. initiator[c] \notin removed /\ receiver[c] \notin removed
        BY <1>2, <3>3, <3>4
      <3>6. w = act
        <4>1. Range(act) \cap removed = {}
          BY <3>3, <3>5
        <4> QED
          BY <1>2, <4>1, WithoutNone DEF act, w
      <3> QED
        BY <1>3, <2>2, <3>2, <3>5, <3>6
    <2>3. CASE d # c
      BY <1>1, <1>3, <2>1, <2>3 DEF SecondPlaceEnds
    <2> QED
      BY <2>1, <2>2, <2>3
  <1>18. Left'
    <2>1. ASSUME NEW a \in acquired, a \notin OnChannels'
          PROVE  told'[a].focus = "NONE" \/ a \in late
      <3>1. a \in Activity
        BY <1>1 DEF TypeOK
      <3>2. CASE a \in removed
        BY <1>7, <1>11, <3>1, <3>2
      <3>3. CASE a \notin removed
        BY <1>1, <1>7, <1>10, <2>1, <3>1, <3>3 DEF Left
      <3> QED
        BY <3>2, <3>3
    <2>2. ASSUME NEW a \in late
          PROVE  a \in acquired \ OnChannels' /\ told'[a] = Paused /\ MayWait(a)
      <3>1. a \in acquired \ OnChannels /\ told[a] = Paused /\ MayWait(a)
        BY <1>1 DEF Left
      <3>2. a \in Activity /\ a \notin removed
        BY <1>1, <1>5, <1>6, <3>1 DEF TypeOK, act
      <3> QED
        BY <1>7, <1>10, <3>1, <3>2
    <2> QED
      BY <2>1, <2>2 DEF Left, Paused, MayWait
  <1>19. ASSUME NEW a \in acquired
         PROVE  IF a \notin OnChannels /\ told[a] = Untold
                THEN a \notin OnChannels' /\ told'[a] = Untold
                ELSE a \in OnChannels' \/ told'[a] # Untold
    <2>1. a \in Activity
      BY <1>1 DEF TypeOK
    <2>2. a \in removed => a \in OnChannels
      BY <1>5, <1>6 DEF act
    <2> QED
      BY <1>7, <1>10, <1>11, <2>1, <2>2
  <1>20. ASSUME NEW a \in Activity \ acquired PROVE told'[a] = told[a]
    <2>1. a \notin removed
      BY <1>5, <1>6 DEF act
    <2> QED
      BY <1>7, <2>1
  <1>21. ASSUME NEW x, IsFirst(x) PROVE IsFirst(x)'
    <2> SUFFICES ASSUME NEW d \in Channel, NEW i \in DOMAIN activities'[d], NEW j \in DOMAIN activities'[d],
                        activities'[d][j] = x, i < j
                 PROVE  InterfaceOf[activities'[d][i]] # InterfaceOf[x]
      BY DEF IsFirst
    <2>1. CASE d = c
      <3>1. PICK k \in DOMAIN act, l \in DOMAIN act : k < l /\ w[i] = act[k] /\ w[j] = act[l]
        BY <1>2, <1>3, <2>1
      <3> QED
        BY <1>3, <1>21, <2>1, <3>1 DEF IsFirst, act
    <2>2. CASE d # c
      BY <1>3, <1>21, <2>2 DEF IsFirst
    <2> QED
      BY <2>1, <2>2
  <1>22. Foregrounded' \subseteq Foregrounded
    BY <1>7, <1>11 DEF Foregrounded
  <1> QED
    BY <1>3, <1>4, <1>7, <1>8, <1>10, <1>12, <1>13, <1>14, <1>15, <1>17, <1>18, <1>19, <1>20, <1>21, <1>22
        DEF Floor, w

LEMMA PatienceIsOverKeeps ==
    ASSUME IInv, NEW c \in Channel, PatienceIsOver(c)
    PROVE  IInv'
  <1> DEFINE act == activities[c]
             p == receiver[c]
             w == Without(c, {p})
  <1>1. /\ timer[c] = "firing" /\ activities' = [activities EXCEPT ![c] = w]
        /\ told' = ToldGone(c, {p}) /\ timer' = [timer EXCEPT ![c] = "off"]
        /\ initiator' = [initiator EXCEPT ![c] = None]
        /\ receiver' = [receiver EXCEPT ![c] = None]
        /\ UNCHANGED <<tasks, todo, activeChannels, focus, late, stuck, acquired, released,
                       stopped, stops>>
    <2>1. timer[c] = "firing" /\ RemoveAll(c, {p})
          /\ UNCHANGED <<tasks, todo, activeChannels, focus, late, stuck, acquired, released,
                         stopped, stops>>
      BY DEF PatienceIsOver, executor, clients
    <2>2. StopsTimer(c, {p})
      BY <2>1 DEF StopsTimer
    <2> QED
      BY <2>1, <2>2 DEF RemoveAll
  <1>2. /\ TypeOK /\ TasksOK /\ Ordered /\ Phased /\ Active /\ Placed /\ StepsAreRight /\ Settling
        /\ SecondsPause /\ ForegroundIsOne /\ Waiting /\ Known /\ StopsFirst /\ StopsReach
        /\ Patiently /\ SecondsMayWait /\ Left
    BY DEF IInv
  <1>3. /\ Len(act) >= 2 /\ act[2] = p /\ act \in Seq(Activity)
        /\ \A i, j \in DOMAIN act : i # j => act[i] # act[j]
    BY <1>1, <1>2 DEF Patiently, TypeOK, Placed
  <1>4. 1 \in DOMAIN act /\ 2 \in DOMAIN act /\ act # <<>> /\ Head(act) = act[1] /\ act[1] # p
    BY <1>3
  <1>5. p \in Range(act)
    BY <1>3, <1>4 DEF Range
  <1>6. w # <<>> /\ Head(w) = Head(act)
    BY <1>3, <1>4, WithoutKeepsFirst
  <1>7. /\ Floor' /\ Left' /\ OnChannels' = OnChannels \ {p}
        /\ activities' \in [Channel -> Seq(Activity)]
        /\ told' \in [Activity -> [focus : FocusState, behavior : Behavior]]
        /\ activities'[c] = w
        /\ \A d \in Channel \ {c} : activities'[d] = activities[d]
        /\ \A a \in Activity : told'[a] = IF a \in {p} THEN Gone ELSE told[a]
        /\ \A a \in acquired : IF a \notin OnChannels /\ told[a] = Untold
                               THEN a \notin OnChannels' /\ told'[a] = Untold
                               ELSE a \in OnChannels' \/ told'[a] # Untold
        /\ \A a \in Activity \ acquired : told'[a] = told[a]
        /\ \A x : IsFirst(x) => IsFirst(x)'
        /\ Foregrounded' \subseteq Foregrounded
    <2>1. {p} \in SUBSET Range(activities[c])
      BY <1>5
    <2>2. \A d \in Channel \ {c} :
               timer'[d] = timer[d] /\ initiator'[d] = initiator[d] /\ receiver'[d] = receiver[d]
      BY <1>1, <1>2 DEF TypeOK
    <2>3. timer'[c] = "off"
      BY <1>1, <1>2 DEF TypeOK
    <2>4. receiver[c] \in {p}
      OBVIOUS
    <2> QED
      BY <1>1, <2>1, <2>2, <2>3, <2>4, Departure
  <1>8. /\ w \in Seq(Activity) /\ Range(w) = Range(act) \ {p}
        /\ \A j \in DOMAIN w : j >= 2 => \E l \in DOMAIN act : l >= 2 /\ w[j] = act[l]
    <2> DEFINE removed == {p}
    <2> HIDE DEF removed
    <2>1. /\ Without(c, removed) \in Seq(Activity)
          /\ Range(Without(c, removed)) = Range(activities[c]) \ removed
          /\ \A j \in DOMAIN Without(c, removed) : j >= 2 =>
                 \E l \in DOMAIN activities[c] : l >= 2 /\ Without(c, removed)[j] = activities[c][l]
      BY <1>2, ThoseThatStay
    <2> QED
      BY <2>1 DEF removed
  <1>9. /\ OnChannels \subseteq Activity \cap acquired
        /\ \A a \in OnChannels : a \in Range(activities[ChannelOf[a]])
        /\ \A d \in Channel : \A a \in Range(activities[d]) :
                  a \in OnChannels /\ ChannelOf[a] = d /\ a \in Activity \cap acquired
        /\ \A d \in Channel : \A i \in DOMAIN activities[d] : activities[d][i] \in Range(activities[d])
    BY <1>2, OnChannelsAre
  <1> HIDE DEF act, p, w
  <1>10. /\ p \in Activity /\ p \in OnChannels /\ ChannelOf[p] = c /\ p # Head(act)
         /\ MayWait(p)
    <2>1. MayWait(act[2])
      BY <1>2, <1>4 DEF SecondsMayWait, act
    <2> QED
      BY <1>3, <1>4, <1>5, <1>9, <2>1 DEF act
  <1>11. Steps' = Steps /\ Highest' = Highest /\ Untold' = Untold /\ Gone # Untold
    BY <1>1 DEF Steps, Highest, Untold, Gone
  <1>12. \A d \in Channel : /\ (activities'[d] = <<>>) <=> (activities[d] = <<>>)
                            /\ Head(activities'[d]) = Head(activities[d])
                            /\ Range(activities'[d]) \subseteq Range(activities[d]) \ {p}
    <2> SUFFICES ASSUME NEW d \in Channel
        PROVE  /\ (activities'[d] = <<>>) <=> (activities[d] = <<>>)
               /\ Head(activities'[d]) = Head(activities[d])
               /\ Range(activities'[d]) \subseteq Range(activities[d]) \ {p}
      OBVIOUS
    <2>1. CASE d = c
      BY <1>4, <1>6, <1>7, <1>8, <2>1 DEF act
    <2>2. CASE d # c
      BY <1>7, <1>9, <1>10, <2>2
    <2> QED
      BY <2>1, <2>2
  <1>13. \A d \in Channel : \A n, a : IsRight(n, a, d) => IsRight(n, a, d)'
    BY <1>1, <1>11, <1>12 DEF IsRight
  <1>14. \A a \in Activity : a # p => told'[a] = told[a]
    BY <1>7
  <1>15. \A a \in Activity : told[a] # Untold => told'[a] # Untold
    BY <1>7, <1>11
  <1>16. TypeOK' /\ TasksOK' /\ Ordered' /\ Phased' /\ (Leaves' <=> Leaves)
    <2>1. timer' \in [Channel -> {"off", "waiting", "firing"}]
      BY <1>1, <1>2 DEF TypeOK
    <2>2. /\ initiator' \in [Channel -> Activity \cup {None}]
          /\ receiver' \in [Channel -> Activity \cup {None}]
      BY <1>1, <1>2 DEF TypeOK
    <2> QED
      BY <1>1, <1>2, <1>7, <1>11, <2>1, <2>2 DEF TypeOK, TasksOK, Ordered, Phased, Leaves
  <1>17. Waiting' /\ Known' /\ StopsFirst'
    <2>1. \A s \in Steps' : s.op = "attach" => s \in Steps
      BY <1>11
    <2>2. \A s \in Steps : s.op = "attach" => s \in Steps'
      BY <1>11
    <2> QED
      BY <1>1, <1>2, <1>7, <2>1, <2>2, QueueGoesOn
  <1>18. Active'
    BY <1>1, <1>2, <1>11, <1>12 DEF Active
  <1>19. StepsAreRight'
    <2> SUFFICES ASSUME NEW s \in Steps PROVE StepIsRight(s)'
      BY <1>11 DEF StepsAreRight
    <2>1. s \in Step /\ StepIsRight(s)
      BY <1>2, StepsAreSteps DEF StepsAreRight
    <2>2. AttachIsRight(s)' /\ RemoveIsRight(s)' /\ BackgroundIsRight(s)'
      BY <1>1, <1>11, <2>1 DEF StepIsRight, AttachIsRight, RemoveIsRight, BackgroundIsRight, Pending
    <2>3. FocusIsRight(s)'
      <3> SUFFICES ASSUME s.op = "focus" PROVE FocusIsRight(s)'
        BY DEF FocusIsRight
      <3>1. s.channel \in Channel /\ FocusIsRight(s)
        BY <2>1, StepKinds DEF StepIsRight
      <3>2. s.focus = "NONE" => s.channel \notin activeChannels /\ activities'[s.channel] = <<>>
        BY <1>12, <3>1 DEF FocusIsRight
      <3>3. s.focus = "BACKGROUND" => IsRight(s, Head(activities[s.channel]), s.channel)'
        BY <1>1, <1>11, <1>12, <3>1 DEF FocusIsRight, IsRight
      <3> QED
        BY <1>1, <1>11, <3>1, <3>2, <3>3 DEF FocusIsRight
    <2>4. NoticeIsRight(s)'
      <3> SUFFICES ASSUME s.op = "notify" PROVE NoticeIsRight(s)'
        BY DEF NoticeIsRight
      <3>1. s.activity \in Activity /\ NoticeIsRight(s) /\ ChannelOf[s.activity] \in Channel
        BY <2>1, StepKinds, FocusAssumption DEF StepIsRight
      <3>2. CASE s.activity = p
        <4>1. IsRight(s, p, c)
          BY <1>10, <3>1, <3>2 DEF NoticeIsRight
        <4>2. s.focus = "BACKGROUND" /\ s.behavior = "MUST_PAUSE"
          BY <1>10, <4>1 DEF IsRight, act
        <4>3. told'[s.activity] # Untold /\ MayWait(s.activity) /\ s.activity \notin OnChannels'
          BY <1>7, <1>10, <1>11, <3>2
        <4>4. s.activity \notin late'
          BY <1>1, <1>2, <1>10, <3>2 DEF Left
        <4> QED
          BY <1>11, <4>2, <4>3, <4>4 DEF NoticeIsRight, MayWait
      <3>3. CASE s.activity # p /\ s.activity \in OnChannels
        <4>1. IsRight(s, s.activity, ChannelOf[s.activity])
          BY <3>1, <3>3 DEF NoticeIsRight
        <4>2. IsRight(s, s.activity, ChannelOf[s.activity])'
          BY <1>1, <1>11, <1>12, <3>1, <4>1 DEF IsRight
        <4> QED
          BY <1>7, <3>3, <4>2 DEF NoticeIsRight
      <3>4. CASE s.activity # p /\ s.activity \notin OnChannels
        <4>1. /\ s.focus = "BACKGROUND" /\ s.behavior = "MUST_PAUSE"
              /\ told[s.activity] # Untold /\ MayWait(s.activity) /\ s.activity \notin late
          BY <3>1, <3>4 DEF NoticeIsRight
        <4> QED
          BY <1>1, <1>7, <1>11, <1>15, <3>1, <3>4, <4>1 DEF NoticeIsRight, MayWait
      <3> QED
        BY <3>2, <3>3, <3>4
    <2> QED
      BY <2>2, <2>3, <2>4 DEF StepIsRight
  <1>20. Settling'
    <2> SUFFICES ASSUME NEW d \in activeChannels, ~Leaves, ~Pending(d) PROVE Settled(d)'
      BY <1>1, <1>11, <1>16 DEF Settling, Pending
    <2>0. d \in Channel
      BY <1>2 DEF TypeOK
    <2>1. Settled(d)
      BY <1>2 DEF Settling
    <2>2. ASSUME NEW a \in Range(activities'[d]) PROVE WillHear(a) \/ IsRight(told'[a], a, d)
      <3>1. a \in Range(activities[d]) /\ a # p /\ a \in Activity
        BY <1>9, <1>12, <2>0
      <3> QED
        BY <1>14, <2>1, <3>1 DEF Settled
    <2>3. \A a \in Range(activities'[d]) : WillHear(a) \/ IsRight(told[a], a, d)'
      BY <1>1, <1>11, <1>12, <2>0, <2>2 DEF IsRight
    <2> QED
      BY <1>1, <1>11, <2>1, <2>3 DEF Settled, WillHear, IsRight
  <1>21. \A d \in Channel : Fresh(d)' <=> Fresh(d)
    <2> SUFFICES ASSUME NEW d \in Channel PROVE Fresh(d)' <=> Fresh(d)
      OBVIOUS
    <2>1. activities[d] # <<>> => told'[Head(activities[d])] = told[Head(activities[d])]
      <3> SUFFICES ASSUME activities[d] # <<>> PROVE told'[Head(activities[d])] = told[Head(activities[d])]
        OBVIOUS
      <3>1. Head(activities[d]) \in Range(activities[d])
        BY <1>2, OnChannelsAre
      <3>2. Head(activities[d]) # p
        BY <1>9, <1>10, <3>1 DEF act
      <3> QED
        BY <1>9, <1>14, <3>1, <3>2
    <2> QED
      BY <1>11, <1>12, <2>1 DEF Fresh, WillHear
  <1>22. SecondsPause'
    <2>1. ASSUME NEW d \in Channel, NEW i \in DOMAIN activities'[d], i >= 2
          PROVE  \/ told'[activities'[d][i]] = [focus |-> "BACKGROUND", behavior |-> "MUST_PAUSE"]
                 \/ WillHear(activities'[d][i])
                 \/ Fresh(d)
      <3>1. PICK l \in DOMAIN activities[d] : l >= 2 /\ activities'[d][i] = activities[d][l]
        <4>1. CASE d = c
          BY <1>7, <1>8, <2>1, <4>1 DEF act
        <4>2. CASE d # c
          BY <1>7, <2>1, <4>2
        <4> QED
          BY <4>1, <4>2
      <3>2. activities'[d][i] \in Range(activities'[d])
        BY <2>1 DEF Range
      <3>3. activities[d][l] # p /\ activities[d][l] \in Activity
        BY <1>9, <1>12, <3>1, <3>2
      <3>4. \/ told[activities[d][l]] = [focus |-> "BACKGROUND", behavior |-> "MUST_PAUSE"]
            \/ WillHear(activities[d][l])
            \/ Fresh(d)
        BY <1>2, <3>1 DEF SecondsPause
      <3> QED
        BY <1>14, <3>1, <3>3, <3>4
    <2>2. Leaves => \A d \in Channel : ~Fresh(d)
      BY <1>2 DEF SecondsPause
    <2> QED
      BY <1>11, <1>16, <1>21, <2>1, <2>2 DEF SecondsPause, WillHear
  <1>23. ForegroundIsOne'
    BY <1>2, <1>7, <1>11 DEF ForegroundIsOne, OneForegroundChannel
  <1>24. StopsReach'
    <2>1. \A x : WillStop(x) => WillStop(x)'
      BY <1>1, <1>11 DEF WillStop
    <2>2. \A a \in stopped : a \in OnChannels' \/ told'[a] # Untold
      <3>1. stopped \subseteq Activity
        BY <1>2 DEF TypeOK
      <3> QED
        BY <1>2, <1>7, <1>10, <1>11, <1>15, <3>1 DEF StopsReach
    <2>3. ASSUME NEW a \in stopped \cap OnChannels'
          PROVE  /\ WillStop(a)' /\ IsFirst(a)'
                 /\ \A s \in Steps : s.op = "attach" /\ ChannelOf[s.activity] = ChannelOf[a] =>
                       a = Head(activities'[ChannelOf[a]])
      <3>1. a \in OnChannels /\ ChannelOf[a] \in Channel
        BY <1>7, <1>9, FocusAssumption
      <3>2. Head(activities'[ChannelOf[a]]) = Head(activities[ChannelOf[a]])
        BY <1>12, <3>1
      <3> QED
        BY <1>2, <1>7, <2>1, <2>3, <3>1, <3>2 DEF StopsReach
    <2> QED
      BY <1>1, <1>11, <2>2, <2>3 DEF StopsReach
  <1> QED
    BY <1>7, <1>16, <1>17, <1>18, <1>19, <1>20, <1>22, <1>23, <1>24 DEF IInv, Floor

-----------------------------------------------------------------------------
(***************************************************************************)
(* The executor removes an activity.                                       *)
(***************************************************************************)
\* The first activity of an interface is on the channel, and it is the one that a
\* stop has captured.
LEMMA FirstIs ==
    ASSUME TypeOK, Placed, NEW c \in Channel, NEW interface
    PROVE  /\ First(c, interface) \in SUBSET Range(activities[c])
           /\ \A a \in Activity : /\ IsFirst(a) /\ InterfaceOf[a] = interface
                                  /\ a \in Range(activities[c])
                                  => a \in First(c, interface)
  <1> DEFINE act == activities[c]
             at == {i \in DOMAIN activities[c] : InterfaceOf[activities[c][i]] = interface}
  <1>1. act \in Seq(Activity) /\ DOMAIN act = 1..Len(act) /\ Len(act) \in Nat
    BY DEF TypeOK
  <1>2. at = {i \in DOMAIN activities[c] : Interfaces(c)[i] = interface}
    BY DEF Interfaces
  <1>3. First(c, interface) = IF at = {} THEN {} ELSE {act[Min(at)]}
    BY <1>2 DEF First
  <1>4. at \in SUBSET Nat /\ at \subseteq DOMAIN act
    BY <1>1
  <1>5. at # {} => Min(at) \in at /\ \A x \in at : Min(at) <= x
    BY <1>4, MinIsLeast
  <1>6. \A i \in DOMAIN act : act[i] \in Range(act)
    BY DEF Range
  <1>7. First(c, interface) \in SUBSET Range(activities[c])
    BY <1>3, <1>4, <1>5, <1>6
  <1>8. ASSUME NEW a \in Activity, IsFirst(a), InterfaceOf[a] = interface, a \in Range(activities[c])
        PROVE  a \in First(c, interface)
    <2>1. PICK j \in DOMAIN act : act[j] = a
      BY <1>8 DEF Range
    <2>2. j \in at
      BY <1>8, <2>1
    <2>3. Min(at) \in DOMAIN act /\ Min(at) <= j /\ InterfaceOf[act[Min(at)]] = interface
      BY <1>4, <1>5, <2>2
    <2>4. ~(Min(at) < j)
      BY <1>8, <2>1, <2>3 DEF IsFirst
    <2> HIDE DEF at
    <2>5. Min(at) = j
      BY <1>1, <2>3, <2>4
    <2> QED
      BY <1>3, <2>1, <2>2, <2>5
  <1> QED
    BY <1>7, <1>8

\* What removing some activities does to the activities and the clock of c.
LEMMA RemoveAllIs ==
    ASSUME IInv, NEW c \in Channel, NEW removed \in SUBSET Range(activities[c]),
           RemoveAll(c, removed), UNCHANGED <<activeChannels, focus, late, stuck, clients>>
    PROVE  /\ TypeOK' /\ Floor' /\ Left' /\ OnChannels' = OnChannels \ removed
           /\ activities'[c] = Without(c, removed)
           /\ \A d \in Channel \ {c} : activities'[d] = activities[d]
           /\ \A a \in Activity : told'[a] = IF a \in removed THEN Gone ELSE told[a]
           /\ \A a \in acquired : IF a \notin OnChannels /\ told[a] = Untold
                                  THEN a \notin OnChannels' /\ told'[a] = Untold
                                  ELSE a \in OnChannels' \/ told'[a] # Untold
           /\ \A a \in Activity \ acquired : told'[a] = told[a]
           /\ \A x : IsFirst(x) => IsFirst(x)'
           /\ Foregrounded' \subseteq Foregrounded
  <1>1. TypeOK
    BY DEF IInv
  <1>2. /\ activities' = [activities EXCEPT ![c] = Without(c, removed)]
        /\ told' = ToldGone(c, removed)
        /\ UNCHANGED <<activeChannels, focus, late, stuck, acquired, released, stopped, stops>>
    BY DEF RemoveAll, clients, observers
  <1>3. /\ timer' \in [Channel -> {"off", "waiting", "firing"}]
        /\ initiator' \in [Channel -> Activity \cup {None}]
        /\ receiver' \in [Channel -> Activity \cup {None}]
    BY <1>1 DEF RemoveAll, TypeOK, patience
  <1>4. \A d \in Channel \ {c} :
               timer'[d] = timer[d] /\ initiator'[d] = initiator[d] /\ receiver'[d] = receiver[d]
    BY <1>1 DEF RemoveAll, TypeOK, patience
  <1>5. CASE StopsTimer(c, removed)
    <2>1. timer'[c] = "off" /\ ~(initiator[c] \notin removed /\ receiver[c] \notin removed)
      BY <1>1, <1>5 DEF RemoveAll, StopsTimer, TypeOK
    <2>2. initiator[c] \notin removed /\ receiver[c] \notin removed =>
               timer'[c] = timer[c] /\ initiator'[c] = initiator[c] /\ receiver'[c] = receiver[c]
      BY <2>1
    <2>3. timer'[c] # "off" =>
               timer[c] # "off" /\ initiator[c] \notin removed /\ receiver[c] \notin removed
      BY <2>1
    <2>4. /\ Floor' /\ Left' /\ OnChannels' = OnChannels \ removed
          /\ activities' \in [Channel -> Seq(Activity)]
          /\ told' \in [Activity -> [focus : FocusState, behavior : Behavior]]
          /\ activities'[c] = Without(c, removed)
          /\ \A d \in Channel \ {c} : activities'[d] = activities[d]
          /\ \A a \in Activity : told'[a] = IF a \in removed THEN Gone ELSE told[a]
          /\ \A a \in acquired : IF a \notin OnChannels /\ told[a] = Untold
                                 THEN a \notin OnChannels' /\ told'[a] = Untold
                                 ELSE a \in OnChannels' \/ told'[a] # Untold
          /\ \A a \in Activity \ acquired : told'[a] = told[a]
          /\ \A x : IsFirst(x) => IsFirst(x)'
          /\ Foregrounded' \subseteq Foregrounded
      BY <1>2, <1>4, <2>2, <2>3, Departure
    <2>5. TypeOK'
      BY <1>1, <1>2, <1>3, <2>4 DEF TypeOK
    <2> QED
      BY <2>4, <2>5
  <1>6. CASE ~StopsTimer(c, removed)
    <2>1. timer'[c] = timer[c] /\ initiator'[c] = initiator[c] /\ receiver'[c] = receiver[c]
      BY <1>6 DEF RemoveAll, patience
    <2>2. initiator[c] \notin removed /\ receiver[c] \notin removed =>
               timer'[c] = timer[c] /\ initiator'[c] = initiator[c] /\ receiver'[c] = receiver[c]
      BY <2>1
    <2>3. timer'[c] # "off" =>
               timer[c] # "off" /\ initiator[c] \notin removed /\ receiver[c] \notin removed
      BY <1>6, <2>1 DEF StopsTimer
    <2>4. /\ Floor' /\ Left' /\ OnChannels' = OnChannels \ removed
          /\ activities' \in [Channel -> Seq(Activity)]
          /\ told' \in [Activity -> [focus : FocusState, behavior : Behavior]]
          /\ activities'[c] = Without(c, removed)
          /\ \A d \in Channel \ {c} : activities'[d] = activities[d]
          /\ \A a \in Activity : told'[a] = IF a \in removed THEN Gone ELSE told[a]
          /\ \A a \in acquired : IF a \notin OnChannels /\ told[a] = Untold
                                 THEN a \notin OnChannels' /\ told'[a] = Untold
                                 ELSE a \in OnChannels' \/ told'[a] # Untold
          /\ \A a \in Activity \ acquired : told'[a] = told[a]
          /\ \A x : IsFirst(x) => IsFirst(x)'
          /\ Foregrounded' \subseteq Foregrounded
      BY <1>2, <1>4, <2>2, <2>3, Departure
    <2>5. TypeOK'
      BY <1>1, <1>2, <1>3, <2>4 DEF TypeOK
    <2> QED
      BY <2>4, <2>5
  <1> QED
    BY <1>5, <1>6

\* Some leave c, and what is left to do is to clear channels.
LEMMA ClearingKeeps ==
    ASSUME IInv, NEW c \in Channel, NEW removed \in SUBSET Range(activities[c]),
           RemoveAll(c, removed), UNCHANGED <<activeChannels, focus, late, stuck, clients>>,
           \/ tasks' = tasks
           \/ tasks # <<>> /\ Head(tasks).op \notin {"acquire", "stopAll"} /\ tasks' = Tail(tasks),
           todo' \in Seq(Step), InOrder(todo'),
           \A s \in Steps' : s.op \in {"remove", "deactivate", "foreground"},
           \E s \in Steps' : s.op = "foreground",
           \E s \in Steps' : s.op = "deactivate" /\ s.channel = c,
           \A s \in Steps : s.op \in {"remove", "deactivate", "foreground"},
           \A s \in Steps : s.op = "deactivate" => s \in Steps',
           \A s \in Steps' : s.op = "remove" => s \in Steps,
           \A s \in Steps : s.op = "remove" =>
               s \in Steps' \/ (s.channel = c /\ removed = First(c, s.interface)),
           \A d \in Channel : ~Fresh(d)
    PROVE  IInv'
  <1>1. /\ TypeOK /\ TasksOK /\ Placed /\ Active /\ StepsAreRight /\ SecondsPause /\ ForegroundIsOne
        /\ Waiting /\ Known /\ StopsFirst /\ StopsReach
    BY DEF IInv
  <1>2. /\ TypeOK' /\ Floor' /\ Left' /\ OnChannels' = OnChannels \ removed
        /\ activities'[c] = Without(c, removed)
        /\ \A d \in Channel \ {c} : activities'[d] = activities[d]
        /\ \A a \in Activity : told'[a] = IF a \in removed THEN Gone ELSE told[a]
        /\ \A a \in acquired : IF a \notin OnChannels /\ told[a] = Untold
                               THEN a \notin OnChannels' /\ told'[a] = Untold
                               ELSE a \in OnChannels' \/ told'[a] # Untold
        /\ \A a \in Activity \ acquired : told'[a] = told[a]
        /\ \A x : IsFirst(x) => IsFirst(x)'
        /\ Foregrounded' \subseteq Foregrounded
    BY RemoveAllIs
  <1>3. UNCHANGED <<activeChannels, focus, stuck, acquired, released, stopped, stops>>
    BY DEF clients, observers
  <1> DEFINE act == activities[c]
             w == Without(c, removed)
  <1>4. /\ w \in Seq(Activity) /\ act \in Seq(Activity) /\ Range(w) = Range(act) \ removed
        /\ \A j \in DOMAIN w : j >= 2 => \E l \in DOMAIN act : l >= 2 /\ w[j] = act[l]
    BY <1>1, ThoseThatStay
  <1>5. /\ OnChannels \subseteq Activity \cap acquired
        /\ \A a \in OnChannels : a \in Range(activities[ChannelOf[a]])
        /\ \A d \in Channel : \A a \in Range(activities[d]) :
                  a \in OnChannels /\ ChannelOf[a] = d /\ a \in Activity \cap acquired
        /\ \A d \in Channel : \A i \in DOMAIN activities[d] : activities[d][i] \in Range(activities[d])
        /\ \A d \in Channel : activities[d] # <<>> => Head(activities[d]) \in Range(activities[d])
    BY <1>1, OnChannelsAre
  <1> HIDE DEF act, w
  <1>6. \A d \in Channel : activities'[d] # <<>> =>
            activities[d] # <<>> /\ Head(activities'[d]) \in Range(activities[d]) \ removed
    <2> SUFFICES ASSUME NEW d \in Channel, activities'[d] # <<>>
        PROVE  activities[d] # <<>> /\ Head(activities'[d]) \in Range(activities[d]) \ removed
      OBVIOUS
    <2>1. CASE d = c
      <3>1. Head(w) \in Range(w)
        <4>1. 1 \in DOMAIN w /\ Head(w) = w[1]
          BY <1>2, <1>4, <2>1 DEF w
        <4> QED
          BY <4>1 DEF Range
      <3>2. act # <<>>
        <4>1. Range(<<>>) = {}
          BY DEF Range
        <4> QED
          BY <1>4, <3>1, <4>1
      <3> QED
        BY <1>2, <1>4, <2>1, <3>1, <3>2 DEF act, w
    <2>2. CASE d # c
      <3>1. Head(activities[d]) \in Range(activities[d])
        BY <1>2, <1>5, <2>2
      <3>2. ChannelOf[Head(activities[d])] # c
        BY <1>5, <2>2, <3>1
      <3> QED
        BY <1>2, <1>5, <2>2, <3>1, <3>2
    <2> QED
      BY <2>1, <2>2
  <1>7. Gone # Untold /\ Untold' = Untold
    BY DEF Gone, Untold
  <1>8. tasks' \in Seq(Task) /\ Waiting' /\ Known' /\ StopsFirst'
        /\ \A i \in DOMAIN tasks : tasks[i].op = "stopAll" => \E k \in DOMAIN tasks' : tasks'[k] = tasks[i]
    <2>1. (\A s \in Steps' : s.op # "attach") /\ (\A s \in Steps : s.op # "attach")
      OBVIOUS
    <2> QED
      BY <1>1, <1>2, <1>3, <2>1, QueueGoesOn
  <1>9. TasksOK' /\ Ordered' /\ Phased' /\ Leaves'
    BY <1>8 DEF TasksOK, Ordered, Phased, Leaves, Leaving
  <1>10. Active'
    <2> SUFFICES ASSUME NEW d \in Channel
        PROVE  /\ activities'[d] # <<>> => d \in activeChannels
               /\ d \in activeChannels /\ activities'[d] = <<>> =>
                      \E s \in Steps' : s.op = "deactivate" /\ s.channel = d
               /\ d \notin activeChannels => focus[d] = "NONE"
      BY <1>3 DEF Active
    <2>1. activities'[d] # <<>> => d \in activeChannels
      BY <1>1, <1>6 DEF Active
    <2>2. ASSUME d \in activeChannels, activities'[d] = <<>>
          PROVE  \E s \in Steps' : s.op = "deactivate" /\ s.channel = d
      <3>1. CASE d = c
        BY <3>1
      <3>2. CASE d # c
        <4>1. \E s \in Steps : s.op = "deactivate" /\ s.channel = d
          BY <1>1, <1>2, <2>2, <3>2 DEF Active
        <4> QED
          BY <4>1
      <3> QED
        BY <3>1, <3>2
    <2>3. d \notin activeChannels => focus[d] = "NONE"
      BY <1>1 DEF Active
    <2> QED
      BY <2>1, <2>2, <2>3
  <1>11. StepsAreRight'
    <2> SUFFICES ASSUME NEW s \in Steps' PROVE StepIsRight(s)'
      BY DEF StepsAreRight
    <2>1. s.op = "remove" => \E t \in Steps' : t.op = "deactivate" /\ t.channel = s.channel
      <3> SUFFICES ASSUME s.op = "remove" PROVE \E t \in Steps' : t.op = "deactivate" /\ t.channel = s.channel
        OBVIOUS
      <3>1. RemoveIsRight(s)
        BY <1>1 DEF StepsAreRight, StepIsRight
      <3> QED
        BY <3>1 DEF RemoveIsRight
    <2>2. s.op \in {"remove", "deactivate", "foreground"}
      OBVIOUS
    <2> QED
      BY <2>1, <2>2 DEF StepIsRight, AttachIsRight, RemoveIsRight, BackgroundIsRight, FocusIsRight, NoticeIsRight
  <1>12. Settling'
    BY <1>9 DEF Settling
  <1>13. SecondsPause'
    <2>1. ASSUME NEW d \in Channel, NEW i \in DOMAIN activities'[d], i >= 2
          PROVE  told'[activities'[d][i]] = [focus |-> "BACKGROUND", behavior |-> "MUST_PAUSE"]
      <3>1. PICK l \in DOMAIN activities[d] : l >= 2 /\ activities'[d][i] = activities[d][l]
        <4>1. CASE d = c
          BY <1>2, <1>4, <2>1, <4>1 DEF act, w
        <4>2. CASE d # c
          BY <1>2, <2>1, <4>2
        <4> QED
          BY <4>1, <4>2
      <3>2. told[activities[d][l]] = [focus |-> "BACKGROUND", behavior |-> "MUST_PAUSE"]
        BY <1>1, <3>1 DEF SecondsPause, WillHear
      <3>3. activities[d][l] \in Range(activities[d]) /\ activities[d][l] \in Activity
        BY <1>5, <3>1
      <3>4. activities[d][l] \notin removed
        <4>1. CASE d = c
          <5>1. activities'[d][i] \in Range(w)
            BY <1>2, <2>1, <4>1 DEF Range, w
          <5> QED
            BY <1>4, <3>1, <5>1
        <4>2. CASE d # c
          BY <1>5, <3>3, <4>2
        <4> QED
          BY <4>1, <4>2
      <3> QED
        BY <1>2, <3>1, <3>2, <3>3, <3>4
    <2>2. ASSUME NEW d \in Channel, Fresh(d)' PROVE FALSE
      <3>1. activities'[d] # <<>> /\ told'[Head(activities'[d])] = Untold
        BY <1>7, <2>2 DEF Fresh
      <3>2. Head(activities'[d]) \in OnChannels /\ Head(activities'[d]) \notin removed
        BY <1>5, <1>6, <3>1
      <3>3. Head(activities'[d]) \in Activity /\ told'[Head(activities'[d])] = told[Head(activities'[d])]
        BY <1>2, <1>5, <3>2
      <3>4. /\ activities[d] # <<>> /\ Head(activities[d]) \in Range(activities[d])
            /\ Head(activities'[d]) \in Range(activities[d])
        BY <1>5, <1>6, <3>1
      <3>5. Head(activities'[d]) # Head(activities[d])
        BY <3>1, <3>3, <3>4 DEF Fresh, WillHear
      <3>6. PICK l \in DOMAIN activities[d] : activities[d][l] = Head(activities'[d])
        BY <3>4 DEF Range
      <3>7. l >= 2
        <4>1. activities[d] \in Seq(Activity)
          BY <1>1 DEF TypeOK
        <4> QED
          BY <3>4, <3>5, <3>6, <4>1
      <3>8. told[activities[d][l]] = [focus |-> "BACKGROUND", behavior |-> "MUST_PAUSE"]
        BY <1>1, <3>6, <3>7 DEF SecondsPause, WillHear
      <3>9. told[activities[d][l]] = Untold
        BY <3>1, <3>3, <3>6
      <3> QED
        BY <3>8, <3>9 DEF Untold
    <2> QED
      BY <2>1, <2>2 DEF SecondsPause
  <1>14. ForegroundIsOne'
    BY <1>1, <1>2 DEF ForegroundIsOne, OneForegroundChannel
  <1>15. StopsReach'
    <2>1. \A a \in stopped : a \in OnChannels' \/ told'[a] # Untold
      <3> SUFFICES ASSUME NEW a \in stopped PROVE a \in OnChannels' \/ told'[a] # Untold
        OBVIOUS
      <3>1. a \in Activity /\ (a \in OnChannels \/ told[a] # Untold)
        BY <1>1 DEF TypeOK, StopsReach
      <3> QED
        BY <1>2, <1>7, <3>1
    <2>2. ASSUME NEW a \in stopped \cap OnChannels' PROVE WillStop(a)' /\ IsFirst(a)'
      <3>1. a \in OnChannels /\ a \notin removed /\ WillStop(a) /\ IsFirst(a) /\ a \in Activity
        BY <1>1, <1>2, <1>5, <2>2 DEF StopsReach
      <3>2. CASE \E i \in DOMAIN tasks :
                    /\ tasks[i].op = "stopAll"
                    /\ ChannelOf[a] \in DOMAIN tasks[i].owners
                    /\ tasks[i].owners[ChannelOf[a]] = InterfaceOf[a]
        <4>1. PICK i \in DOMAIN tasks : /\ tasks[i].op = "stopAll"
                                       /\ ChannelOf[a] \in DOMAIN tasks[i].owners
                                       /\ tasks[i].owners[ChannelOf[a]] = InterfaceOf[a]
          BY <3>2
        <4>2. PICK k \in DOMAIN tasks' : tasks'[k] = tasks[i]
          BY <1>8, <4>1
        <4>3. WillStop(a)'
          BY <4>1, <4>2 DEF WillStop
        <4> QED
          BY <1>2, <3>1, <4>3
      <3>3. CASE \E s \in Steps :
                    s.op = "remove" /\ s.channel = ChannelOf[a] /\ s.interface = InterfaceOf[a]
        <4>1. PICK s \in Steps : s.op = "remove" /\ s.channel = ChannelOf[a] /\ s.interface = InterfaceOf[a]
          BY <3>3
        <4>2. ~(s.channel = c /\ removed = First(c, s.interface))
          <5> SUFFICES ASSUME s.channel = c, removed = First(c, InterfaceOf[a]) PROVE FALSE
            BY <4>1
          <5>1. a \in Range(activities[c])
            BY <1>5, <3>1, <4>1
          <5>2. a \in First(c, InterfaceOf[a])
            BY <1>1, <3>1, <5>1, FirstIs
          <5> QED
            BY <3>1, <5>2
        <4>3. s \in Steps'
          BY <4>1, <4>2
        <4> QED
          BY <1>2, <3>1, <4>1, <4>3 DEF WillStop
      <3> QED
        BY <3>1, <3>2, <3>3 DEF WillStop
    <2>3. \A s \in Steps' : s.op # "attach"
      OBVIOUS
    <2> QED
      BY <1>3, <1>7, <2>1, <2>2, <2>3 DEF StopsReach
  <1> QED
    BY <1>2, <1>8, <1>9, <1>10, <1>11, <1>12, <1>13, <1>14, <1>15 DEF IInv, Floor

\* A task that makes an activity leave, or none, and clears its channel.
LEMMA ReleaseTaskKeeps ==
    ASSUME IInv, todo = <<>>, tasks # <<>>, tasks' = Tail(tasks),
           Head(tasks).op \in {"release", "stop"},
           NEW c \in Channel, NEW removed \in SUBSET Range(activities[c]),
           RemoveAll(c, removed), UNCHANGED <<activeChannels, focus, late, stuck, clients>>,
           todo' = <<Deactivate(c), Foreground>>
    PROVE  IInv'
  <1>1. Steps = {} /\ \A d \in Channel : ~Fresh(d)
    BY BetweenTasks
  <1>2. Deactivate(c) \in Step /\ Deactivate(c).op = "deactivate" /\ Deactivate(c).channel = c
    BY DEF Deactivate, Step
  <1>3. Foreground \in Step /\ Foreground.op = "foreground"
    BY DEF Foreground, Step
  <1>4. Before(Deactivate(c), Foreground)
    BY <1>2, <1>3 DEF Before, Rank
  <1> DEFINE x == Deactivate(c)
             y == Foreground
  <1>5. todo' = <<x, y>> /\ x \in Step /\ y \in Step /\ Before(x, y)
    BY <1>2, <1>3, <1>4
  <1> HIDE DEF x, y
  <1>6. todo' \in Seq(Step) /\ Steps' = {x, y}
    BY <1>5 DEF Steps, Range
  <1>7. InOrder(todo')
    <2> SUFFICES ASSUME NEW i \in DOMAIN todo', NEW j \in DOMAIN todo', i < j
                 PROVE  Before(todo'[i], todo'[j])
      BY DEF InOrder
    <2>1. i = 1 /\ j = 2
      BY <1>5
    <2> QED
      BY <1>5, <2>1
  <1>8. /\ \A s \in Steps' : s.op \in {"deactivate", "foreground"}
        /\ \E s \in Steps' : s.op = "foreground"
        /\ \E s \in Steps' : s.op = "deactivate" /\ s.channel = c
    BY <1>2, <1>3, <1>6 DEF x, y
  <1>9. Head(tasks).op \notin {"acquire", "stopAll"}
    OBVIOUS
  <1> QED
    BY <1>1, <1>6, <1>7, <1>8, <1>9, ClearingKeeps

\* What a task or a step names.
LEMMA TaskNames ==
    ASSUME TasksOK, tasks # <<>>, Head(tasks).op \in {"release", "stop"}
    PROVE  Head(tasks).channel \in Channel
  <1>1. Head(tasks) \in Task
    BY DEF TasksOK
  <1> QED
    BY <1>1 DEF Task

\* Nobody leaves: nothing changes.
LEMMA NobodyLeaves ==
    ASSUME TypeOK, NEW c \in Channel, RemoveAll(c, {})
    PROVE  UNCHANGED <<activities, told, patience>>
  <1>1. Without(c, {}) = activities[c]
    <2> DEFINE none == {}
    <2>1. activities[c] \in Seq(Activity) /\ Range(activities[c]) \cap none = {}
      BY DEF TypeOK
    <2> HIDE DEF none
    <2>2. Without(c, none) = activities[c]
      BY <2>1, WithoutNone
    <2> QED
      BY <2>2 DEF none
  <1>2. activities' = activities
    BY <1>1 DEF RemoveAll, TypeOK
  <1>3. told' = told
    BY DEF RemoveAll, ToldGone, TypeOK
  <1>4. UNCHANGED patience
    BY DEF RemoveAll, StopsTimer
  <1> QED
    BY <1>2, <1>3, <1>4

LEMMA RunReleaseKeeps ==
    ASSUME IInv, RunRelease
    PROVE  IInv'
  <1> DEFINE task == Head(tasks)
             c == task.channel
             removed == First(c, task.interface)
  <1>1. todo = <<>> /\ stuck = {} /\ tasks # <<>> /\ task.op = "release"
    BY DEF RunRelease, Takes
  <1>2. TypeOK /\ TasksOK /\ Placed
    BY DEF IInv
  <1>3. c \in Channel
    BY <1>1, <1>2, TaskNames
  <1>4. removed \in SUBSET Range(activities[c])
    BY <1>2, <1>3, FirstIs
  <1>5. CASE StopsTimer(c, removed) /\ timer[c] = "firing"
    <2>1. GetStuck(c)
      BY <1>5 DEF RunRelease, Release
    <2> QED
      BY <1>3, <2>1, GetStuckKeeps
  <1>6. CASE ~(StopsTimer(c, removed) /\ timer[c] = "firing")
    <2>1. /\ RemoveAll(c, removed)
          /\ todo' = IF removed = {} THEN <<>> ELSE <<Deactivate(c), Foreground>>
          /\ UNCHANGED <<activeChannels, focus, late, stuck, clients>>
      BY <1>6 DEF RunRelease, Release
    <2>2. tasks' = Tail(tasks)
      BY <1>1, <2>1 DEF RunRelease
    <2> HIDE DEF task, c, removed
    <2>3. CASE removed = {}
      <3>1. UNCHANGED <<activities, told, patience>>
        BY <1>2, <1>3, <2>1, <2>3, NobodyLeaves
      <3>2. UNCHANGED <<todo, activeChannels, channels, told, late, stuck, clients>>
        BY <1>1, <2>1, <2>3, <3>1 DEF channels
      <3>3. Head(tasks).op \notin {"acquire", "stopAll"}
        BY <1>1 DEF task
      <3> QED
        BY <1>1, <2>2, <3>2, <3>3, NoEffectKeeps
    <2>4. CASE removed # {}
      <3>1. Head(tasks).op \in {"release", "stop"} /\ todo' = <<Deactivate(c), Foreground>>
        BY <1>1, <2>1, <2>4 DEF task
      <3> QED
        BY <1>1, <1>3, <1>4, <2>1, <2>2, <3>1, ReleaseTaskKeeps
    <2> QED
      BY <2>3, <2>4
  <1> QED
    BY <1>5, <1>6

LEMMA RunStopKeeps ==
    ASSUME IInv, RunStop
    PROVE  IInv'
  <1> DEFINE task == Head(tasks)
             c == task.channel
             removed == First(c, task.interface)
  <1>1. todo = <<>> /\ stuck = {} /\ tasks # <<>> /\ task.op = "stop"
    BY DEF RunStop, Takes
  <1>2. TypeOK /\ TasksOK /\ Placed
    BY DEF IInv
  <1>3. c \in Channel
    BY <1>1, <1>2, TaskNames
  <1>4. removed \in SUBSET Range(activities[c])
    BY <1>2, <1>3, FirstIs
  <1>5. CASE task.interface # Interface(c)
    <2>1. UNCHANGED <<todo, activeChannels, channels, told, late, stuck, clients>>
      BY <1>5 DEF RunStop, observers
    <2>2. tasks' = Tail(tasks)
      BY <1>1, <2>1 DEF RunStop
    <2>3. Head(tasks).op \notin {"acquire", "stopAll"}
      BY <1>1
    <2> QED
      BY <1>1, <2>1, <2>2, <2>3, NoEffectKeeps
  <1>6. CASE task.interface = Interface(c) /\ StopsTimer(c, removed) /\ timer[c] = "firing"
    <2>1. GetStuck(c)
      BY <1>6 DEF RunStop, Release
    <2> QED
      BY <1>3, <2>1, GetStuckKeeps
  <1>7. CASE task.interface = Interface(c) /\ ~(StopsTimer(c, removed) /\ timer[c] = "firing")
    <2>1. /\ RemoveAll(c, removed)
          /\ todo' = <<Deactivate(c), Foreground>>
          /\ UNCHANGED <<activeChannels, focus, late, stuck, clients>>
      BY <1>7 DEF RunStop, Release
    <2>2. tasks' = Tail(tasks)
      BY <1>1, <2>1 DEF RunStop
    <2>3. Head(tasks).op \in {"release", "stop"}
      BY <1>1
    <2> HIDE DEF task, c, removed
    <2> QED
      BY <1>1, <1>3, <1>4, <2>1, <2>2, <2>3, ReleaseTaskKeeps
  <1> QED
    BY <1>5, <1>6, <1>7

LEMMA RemoveActivityKeeps ==
    ASSUME IInv, RemoveActivity
    PROVE  IInv'
  <1> DEFINE h == Head(todo)
             rest == Range(Tail(todo))
             c == h.channel
             removed == First(c, h.interface)
  <1>1. todo # <<>> /\ h.op = "remove" /\ UNCHANGED tasks
    BY DEF RemoveActivity, Does
  <1>2. TypeOK /\ TasksOK /\ Placed /\ Ordered /\ Phased /\ StepsAreRight /\ SecondsPause
    BY DEF IInv
  <1>3. /\ h \in Step /\ h \in Steps /\ Tail(todo) \in Seq(Step) /\ InOrder(Tail(todo))
        /\ Steps = {h} \cup rest /\ rest \subseteq Step
        /\ \A t \in rest : \/ t.op \in {"remove", "background", "deactivate", "foreground"}
                           \/ t.op = "focus" /\ t.focus = "FOREGROUND"
    BY <1>1, <1>2, FirstStep
  <1>4. c \in Channel
    BY <1>1, <1>3, StepKinds
  <1>5. removed \in SUBSET Range(activities[c])
    BY <1>2, <1>4, FirstIs
  <1>6. CASE StopsTimer(c, removed) /\ timer[c] = "firing"
    <2>1. GetStuck(c)
      BY <1>6 DEF RemoveActivity, Release
    <2> QED
      BY <1>4, <2>1, GetStuckKeeps
  <1>7. CASE ~(StopsTimer(c, removed) /\ timer[c] = "firing")
    <2>1. /\ RemoveAll(c, removed)
          /\ todo' = Tail(todo)
          /\ UNCHANGED <<activeChannels, focus, late, stuck, clients>>
      BY <1>7 DEF RemoveActivity, Release
    <2>2. Steps' = rest
      BY <2>1 DEF Steps
    <2> HIDE DEF h, rest, c, removed
    <2>3. Leaves
      BY <1>1, <1>2, <1>3 DEF Phased, Leaving
    <2>4. \A s \in Steps : s.op \in {"remove", "deactivate", "foreground"}
      <3> SUFFICES ASSUME NEW s \in Steps PROVE s.op \in {"remove", "deactivate", "foreground"}
        OBVIOUS
      <3>1. Leaving(s)
        BY <1>2, <2>3 DEF Phased
      <3> QED
        BY <1>1, <1>3, <3>1 DEF Leaving
    <2>5. \E s \in Steps' : s.op = "foreground"
      BY <1>1, <1>3, <2>2, <2>3 DEF Leaves
    <2>6. \E s \in Steps' : s.op = "deactivate" /\ s.channel = c
      <3>1. RemoveIsRight(h)
        BY <1>2, <1>3 DEF StepsAreRight, StepIsRight
      <3> QED
        BY <1>1, <1>3, <2>2, <3>1 DEF RemoveIsRight, c
    <2>7. \A s \in Steps' : s.op \in {"remove", "deactivate", "foreground"}
      BY <1>3, <2>2, <2>4
    <2>8. \A s \in Steps : s.op = "deactivate" => s \in Steps'
      BY <1>1, <1>3, <2>2
    <2>9. \A s \in Steps' : s.op = "remove" => s \in Steps
      BY <1>3, <2>2
    <2>10. \A s \in Steps : s.op = "remove" =>
               s \in Steps' \/ (s.channel = c /\ removed = First(c, s.interface))
      BY <1>3, <2>2 DEF c, removed
    <2>11. \A d \in Channel : ~Fresh(d)
      BY <1>2, <2>3 DEF SecondsPause
    <2>12. todo' \in Seq(Step) /\ InOrder(todo')
      BY <1>3, <2>1
    <2> QED
      BY <1>1, <1>4, <1>5, <2>1, <2>4, <2>5, <2>6, <2>7, <2>8, <2>9, <2>10, <2>11, <2>12, ClearingKeeps
  <1> QED
    BY <1>6, <1>7

-----------------------------------------------------------------------------
(***************************************************************************)
(* The executor attaches an activity.                                      *)
(***************************************************************************)
\* Those on the channel that must go.
Ousted(a, c) == IF activities[c] = <<>> THEN {} ELSE Kicked(a, c) \cap Range(activities[c])

\* What attaching a to c does: to an empty channel, to one whose first activity has
\* the same interface, with a patience, and without one.
LEMMA AttachIs ==
    ASSUME TypeOK, Placed, Patiently, NEW c \in Channel, NEW a \in Activity, Attach(a, c)
    PROVE  LET act    == activities[c]
               ousted == Ousted(a, c)
           IN  /\ ousted \in SUBSET Range(act)
               /\ activities' = [activities EXCEPT ![c] = <<a>> \o Without(c, ousted)]
               /\ told' = ToldGone(c, ousted)
               /\ timer' \in [Channel -> {"off", "waiting", "firing"}]
               /\ initiator' \in [Channel -> Activity \cup {None}]
               /\ receiver' \in [Channel -> Activity \cup {None}]
               /\ \A d \in Channel \ {c} :
                      timer'[d] = timer[d] /\ initiator'[d] = initiator[d] /\ receiver'[d] = receiver[d]
               /\ \/ act = <<>> /\ timer'[c] = "off"
                  \/ /\ act # <<>> /\ InterfaceOf[a] = InterfaceOf[Head(act)]
                     /\ ousted = {Head(act)} /\ timer'[c] = "off"
                  \/ /\ act # <<>> /\ InterfaceOf[a] # InterfaceOf[Head(act)] /\ a \in Patient
                     /\ Head(act) \notin ousted
                     /\ timer[c] # "off" => ousted = {act[2]}
                     /\ timer[c] = "off" => ousted = {}
                     /\ timer'[c] = "waiting" /\ initiator'[c] = a /\ receiver'[c] = Head(act)
                  \/ /\ act # <<>> /\ Head(act) \in ousted
                     /\ timer[c] # "off" => act[2] \in ousted
                     /\ timer'[c] = "off"
  <1> DEFINE act == activities[c]
             ousted == Ousted(a, c)
  <1>1. /\ act \in Seq(Activity) /\ DOMAIN act = 1..Len(act) /\ Len(act) \in Nat
        /\ \A i, j \in DOMAIN act : i # j => act[i] # act[j]
    BY DEF TypeOK, Placed
  <1>2. /\ activities \in [Channel -> Seq(Activity)] /\ told \in [Activity -> [focus : FocusState, behavior : Behavior]]
        /\ timer \in [Channel -> {"off", "waiting", "firing"}]
        /\ initiator \in [Channel -> Activity \cup {None}]
        /\ receiver \in [Channel -> Activity \cup {None}]
    BY DEF TypeOK
  <1>3. ousted \in SUBSET Range(act)
    BY DEF Ousted
  <1>4. timer[c] # "off" => /\ Len(act) >= 2 /\ act[1] = initiator[c] /\ act[2] = receiver[c]
                            /\ 1 \in DOMAIN act /\ 2 \in DOMAIN act /\ act[1] # act[2]
                            /\ act[2] \in Range(act)
    <2> SUFFICES ASSUME timer[c] # "off"
        PROVE  /\ Len(act) >= 2 /\ act[1] = initiator[c] /\ act[2] = receiver[c]
               /\ 1 \in DOMAIN act /\ 2 \in DOMAIN act /\ act[1] # act[2] /\ act[2] \in Range(act)
      OBVIOUS
    <2>1. Len(act) >= 2 /\ act[1] = initiator[c] /\ act[2] = receiver[c]
      BY DEF Patiently
    <2>2. 1 \in DOMAIN act /\ 2 \in DOMAIN act
      BY <1>1, <2>1
    <2> QED
      BY <1>1, <2>1, <2>2 DEF Range
  <1>5. CASE act = <<>>
    <2>1. ousted = {}
      BY <1>5 DEF Ousted
    <2>2. Without(c, {}) = activities[c]
      <3> DEFINE none == {}
      <3>1. Range(activities[c]) \cap none = {}
        OBVIOUS
      <3> HIDE DEF none
      <3>2. Without(c, none) = activities[c]
        BY <1>1, <3>1, WithoutNone
      <3> QED
        BY <3>2 DEF none
    <2>3. <<a>> \o Without(c, ousted) = <<a>>
      <3> DEFINE w == Without(c, ousted)
      <3>1. w = <<>>
        <4> HIDE DEF ousted
        <4> QED
          BY <1>5, <2>1, <2>2 DEF act
      <3> HIDE DEF w
      <3>2. <<a>> \o w = <<a>>
        BY <3>1
      <3> QED
        BY <3>2 DEF w
    <2>4. /\ activities' = [activities EXCEPT ![c] = <<a>>] /\ told' = told
          /\ timer' = timer /\ initiator' = initiator /\ receiver' = receiver
      BY <1>5 DEF Attach, patience
    <2>5. activities' = [activities EXCEPT ![c] = <<a>> \o Without(c, ousted)]
      BY <2>3, <2>4
    <2>6. told' = ToldGone(c, ousted)
      BY <1>2, <2>1, <2>4 DEF ToldGone
    <2>7. timer[c] = "off"
      BY <1>1, <1>4, <1>5
    <2> HIDE DEF act, ousted
    <2>8. act = <<>> /\ timer'[c] = "off"
      BY <1>5, <2>4, <2>7
    <2>9. /\ timer' \in [Channel -> {"off", "waiting", "firing"}]
          /\ initiator' \in [Channel -> Activity \cup {None}]
          /\ receiver' \in [Channel -> Activity \cup {None}]
          /\ \A d \in Channel \ {c} :
                 timer'[d] = timer[d] /\ initiator'[d] = initiator[d] /\ receiver'[d] = receiver[d]
      BY <1>2, <2>4
    <2> QED
      BY <1>3, <2>5, <2>6, <2>8, <2>9 DEF act, ousted
  <1>6. CASE act # <<>>
    <2> DEFINE K == Kicked(a, c)
    <2>1. ousted = K \cap Range(act)
      BY <1>6 DEF Ousted
    <2>2. /\ activities' = [activities EXCEPT ![c] = <<a>> \o Without(c, K)]
          /\ told' = ToldGone(c, K)
          /\ timer' = [timer EXCEPT ![c] = Patience(a, c).timer]
          /\ initiator' = [initiator EXCEPT ![c] = Patience(a, c).initiator]
          /\ receiver' = [receiver EXCEPT ![c] = Patience(a, c).receiver]
      BY <1>6 DEF Attach
    <2>3. Head(act) = act[1] /\ 1 \in DOMAIN act /\ Head(act) \in Range(act) /\ Head(act) \in Activity
      <3>1. Head(act) = act[1] /\ 1 \in DOMAIN act
        BY <1>1, <1>6
      <3> QED
        BY <1>1, <3>1 DEF Range
    <2>4. Without(c, ousted) = Without(c, K)
      <3>1. {i \in DOMAIN activities[c] : activities[c][i] \notin ousted}
              = {i \in DOMAIN activities[c] : activities[c][i] \notin K}
        <4>1. \A i \in DOMAIN activities[c] : activities[c][i] \in Range(activities[c])
          BY DEF Range
        <4> HIDE DEF ousted, K
        <4> QED
          BY <2>1, <4>1
      <3> HIDE DEF ousted, K
      <3> QED
        BY <3>1 DEF Without
    <2>5. ToldGone(c, ousted) = ToldGone(c, K)
      <3> HIDE DEF ousted, K
      <3>1. ousted \cap Range(activities[c]) = K \cap Range(activities[c])
        BY <2>1
      <3> QED
        BY <3>1 DEF ToldGone
    <2>6. timer'[c] = Patience(a, c).timer /\ initiator'[c] = Patience(a, c).initiator
          /\ receiver'[c] = Patience(a, c).receiver
      BY <1>2, <2>2
    <2>7. /\ Patience(a, c).timer \in {"off", "waiting", "firing"}
          /\ Patience(a, c).initiator \in Activity \cup {None}
          /\ Patience(a, c).receiver \in Activity \cup {None}
      BY <1>2, <2>3 DEF Patience
    <2>8. /\ timer' \in [Channel -> {"off", "waiting", "firing"}]
          /\ initiator' \in [Channel -> Activity \cup {None}]
          /\ receiver' \in [Channel -> Activity \cup {None}]
          /\ \A d \in Channel \ {c} :
                 timer'[d] = timer[d] /\ initiator'[d] = initiator[d] /\ receiver'[d] = receiver[d]
      BY <1>2, <2>2, <2>7
    <2>9. \/ act = <<>> /\ timer'[c] = "off"
          \/ /\ act # <<>> /\ InterfaceOf[a] = InterfaceOf[Head(act)]
             /\ ousted = {Head(act)} /\ timer'[c] = "off"
          \/ /\ act # <<>> /\ InterfaceOf[a] # InterfaceOf[Head(act)] /\ a \in Patient
             /\ Head(act) \notin ousted
             /\ timer[c] # "off" => ousted = {act[2]}
             /\ timer[c] = "off" => ousted = {}
             /\ timer'[c] = "waiting" /\ initiator'[c] = a /\ receiver'[c] = Head(act)
          \/ /\ act # <<>> /\ Head(act) \in ousted
             /\ timer[c] # "off" => act[2] \in ousted
             /\ timer'[c] = "off"
      <3>1. CASE InterfaceOf[a] = InterfaceOf[Head(act)]
        <4>1. K = {Head(act)}
          BY <3>1 DEF Kicked
        <4>2. ousted = {Head(act)}
          BY <2>1, <2>3, <4>1
        <4>3. timer'[c] = IF StopsTimer(c, {Head(act)}) THEN "off" ELSE timer[c]
          BY <2>6, <3>1 DEF Patience
        <4>4. timer[c] # "off" => StopsTimer(c, {Head(act)})
          BY <1>4, <2>3 DEF StopsTimer
        <4> QED
          BY <1>6, <3>1, <4>2, <4>3, <4>4
      <3>2. CASE InterfaceOf[a] # InterfaceOf[Head(act)] /\ a \in Patient
        <4>1. K = IF timer[c] # "off" THEN {receiver[c]} ELSE {}
          BY <3>2 DEF Kicked
        <4>2. timer'[c] = "waiting" /\ initiator'[c] = a /\ receiver'[c] = Head(act)
          BY <2>6, <3>2 DEF Patience
        <4> HIDE DEF act, ousted, K
        <4>3. timer[c] # "off" => ousted = {act[2]}
          BY <1>4, <2>1, <4>1
        <4>4. timer[c] = "off" => ousted = {}
          BY <2>1, <4>1
        <4>5. Head(act) \notin ousted
          BY <1>4, <2>3, <4>3, <4>4
        <4> QED
          BY <1>6, <3>2, <4>2, <4>3, <4>4, <4>5
      <3>3. CASE InterfaceOf[a] # InterfaceOf[Head(act)] /\ a \notin Patient
        <4>1. K = (IF timer[c] # "off" THEN {receiver[c]} ELSE {}) \cup {initiator[c], Head(act)}
          BY <3>3 DEF Kicked
        <4>2. timer'[c] = "off"
          BY <2>6, <3>3 DEF Patience
        <4> HIDE DEF act, ousted, K
        <4>3. Head(act) \in ousted
          BY <2>1, <2>3, <4>1
        <4>4. timer[c] # "off" => act[2] \in ousted
          BY <1>4, <2>1, <4>1
        <4> QED
          BY <1>6, <4>2, <4>3, <4>4
      <3> QED
        BY <3>1, <3>2, <3>3
    <2>10. /\ activities' = [activities EXCEPT ![c] = <<a>> \o Without(c, ousted)]
           /\ told' = ToldGone(c, ousted)
      BY <2>2, <2>4, <2>5
    <2> HIDE DEF act, ousted
    <2> QED
      BY <1>3, <2>8, <2>9, <2>10 DEF act, ousted
  <1> QED
    BY <1>5, <1>6

\* What the arrival of a changes on its channel, and what it does not.
LEMMA Arrival ==
    ASSUME IInv, NEW c \in Channel, NEW a \in Activity, ChannelOf[a] = c, Unborn(a), Attach(a, c),
           UNCHANGED <<acquired, stopped, late>>
    PROVE  LET ousted == Ousted(a, c)
           IN  /\ ousted \in SUBSET Range(activities[c])
               /\ activities' \in [Channel -> Seq(Activity)]
               /\ told' \in [Activity -> [focus : FocusState, behavior : Behavior]]
               /\ timer' \in [Channel -> {"off", "waiting", "firing"}]
               /\ initiator' \in [Channel -> Activity \cup {None}]
               /\ receiver' \in [Channel -> Activity \cup {None}]
               /\ activities'[c] # <<>> /\ Head(activities'[c]) = a
               /\ \A d \in Channel \ {c} : activities'[d] = activities[d]
               /\ OnChannels' = (OnChannels \ ousted) \cup {a}
               /\ \A x \in Activity : told'[x] = IF x \in ousted THEN Gone ELSE told[x]
               /\ Foregrounded' \subseteq Foregrounded
               /\ Floor' /\ Left'
               /\ \A x \in Range(activities[c]) \ ousted :
                      x = Head(activities[c]) /\ IsFirst(x) => IsFirst(x)'
  <1> DEFINE act == activities[c]
             ousted == Ousted(a, c)
             w == Without(c, ousted)
             new == activities'[c]
  <1>1. TypeOK /\ Placed /\ Told /\ Patiently /\ SecondsMayWait /\ SecondPlaceEnds /\ Left
    BY DEF IInv
  <1>2. /\ ousted \in SUBSET Range(act)
        /\ activities' = [activities EXCEPT ![c] = <<a>> \o w]
        /\ told' = ToldGone(c, ousted)
        /\ timer' \in [Channel -> {"off", "waiting", "firing"}]
        /\ initiator' \in [Channel -> Activity \cup {None}]
        /\ receiver' \in [Channel -> Activity \cup {None}]
        /\ \A d \in Channel \ {c} :
               timer'[d] = timer[d] /\ initiator'[d] = initiator[d] /\ receiver'[d] = receiver[d]
        /\ \/ act = <<>> /\ timer'[c] = "off"
           \/ /\ act # <<>> /\ InterfaceOf[a] = InterfaceOf[Head(act)]
              /\ ousted = {Head(act)} /\ timer'[c] = "off"
           \/ /\ act # <<>> /\ InterfaceOf[a] # InterfaceOf[Head(act)] /\ a \in Patient
              /\ Head(act) \notin ousted
              /\ timer[c] # "off" => ousted = {act[2]}
              /\ timer[c] = "off" => ousted = {}
              /\ timer'[c] = "waiting" /\ initiator'[c] = a /\ receiver'[c] = Head(act)
           \/ /\ act # <<>> /\ Head(act) \in ousted
              /\ timer[c] # "off" => act[2] \in ousted
              /\ timer'[c] = "off"
    BY <1>1, AttachIs
  <1>3. told' \in [Activity -> [focus : FocusState, behavior : Behavior]]
    <2>1. Gone \in [focus : FocusState, behavior : Behavior]
      BY DEF Gone, FocusState, Behavior
    <2> HIDE DEF ousted
    <2> QED
      BY <1>1, <1>2, <2>1 DEF TypeOK, ToldGone
  <1>4. \A x \in Activity : told'[x] = IF x \in ousted THEN Gone ELSE told[x]
    <2> HIDE DEF ousted
    <2> QED
      BY <1>2 DEF ToldGone
  <1>5. /\ act \in Seq(Activity) /\ w \in Seq(Activity) /\ Range(w) = Range(act) \ ousted
        /\ \A i, j \in DOMAIN act : i # j => act[i] # act[j]
        /\ \A i, j \in DOMAIN w : i # j => w[i] # w[j]
        /\ \A j \in DOMAIN w : j >= 2 => \E l \in DOMAIN act : l >= 2 /\ w[j] = act[l]
    BY <1>1, ThoseThatStay
  <1>6. act # <<>> /\ Head(act) \notin ousted => w # <<>> /\ Head(w) = Head(act)
    BY <1>5, WithoutKeepsFirst
  <1>7. /\ OnChannels \subseteq Activity \cap acquired
        /\ \A x \in OnChannels : x \in Range(activities[ChannelOf[x]])
        /\ \A d \in Channel : \A x \in Range(activities[d]) :
                  x \in OnChannels /\ ChannelOf[x] = d /\ x \in Activity \cap acquired
        /\ \A d \in Channel : \A i \in DOMAIN activities[d] : activities[d][i] \in Range(activities[d])
    BY <1>1, OnChannelsAre
  <1>8. a \notin OnChannels /\ a \in acquired /\ told[a] = Untold
    BY DEF Unborn
  <1> HIDE DEF ousted, w
  <1>9. /\ new = <<a>> \o w /\ new \in Seq(Activity) /\ Len(new) = Len(w) + 1
        /\ new # <<>> /\ Head(new) = a /\ new[1] = a /\ DOMAIN new = 1..(Len(w) + 1)
        /\ \A i \in 2..(Len(w) + 1) : new[i] = w[i - 1]
        /\ \A d \in Channel \ {c} : activities'[d] = activities[d]
    <2>1. new = <<a>> \o w /\ \A d \in Channel \ {c} : activities'[d] = activities[d]
      BY <1>1, <1>2 DEF TypeOK
    <2> HIDE DEF new
    <2> QED
      BY <1>5, <2>1
  <1>10. activities' \in [Channel -> Seq(Activity)]
    <2>1. <<a>> \o w \in Seq(Activity)
      BY <1>9
    <2> HIDE DEF new
    <2> QED
      BY <1>1, <1>2, <2>1 DEF TypeOK
  <1> HIDE DEF act, new
  <1>11. Len(w) \in Nat /\ DOMAIN w = 1..Len(w) /\ Len(act) \in Nat /\ DOMAIN act = 1..Len(act)
    BY <1>5
  <1>12. \A i \in DOMAIN new : i >= 2 => i - 1 \in DOMAIN w /\ new[i] = w[i - 1]
    BY <1>9, <1>11
  <1>13. Range(new) = Range(w) \cup {a}
    <2>1. ASSUME NEW x \in Range(new) PROVE x \in Range(w) \cup {a}
      <3>1. PICK i \in DOMAIN new : new[i] = x
        BY <2>1 DEF Range
      <3>2. CASE i = 1
        BY <1>9, <3>1, <3>2
      <3>3. CASE i # 1
        <4>1. i >= 2
          BY <1>9, <1>11, <3>1, <3>3
        <4> QED
          BY <1>12, <3>1, <4>1 DEF Range
      <3> QED
        BY <3>2, <3>3
    <2>2. ASSUME NEW x \in Range(w) PROVE x \in Range(new)
      <3>1. PICK i \in DOMAIN w : w[i] = x
        BY <2>2 DEF Range
      <3>2. i + 1 \in DOMAIN new /\ new[i + 1] = w[i]
        <4>1. i + 1 \in 2..(Len(w) + 1) /\ (i + 1) - 1 = i
          BY <1>11, <3>1
        <4> QED
          BY <1>9, <1>11, <4>1
      <3> QED
        BY <3>1, <3>2 DEF Range
    <2>3. a \in Range(new)
      <3>1. 1 \in DOMAIN new
        BY <1>9, <1>11
      <3> QED
        BY <1>9, <3>1 DEF Range
    <2> QED
      BY <2>1, <2>2, <2>3
  <1>14. a \notin ousted /\ a \notin Range(act) /\ a \notin Range(w)
    BY <1>2, <1>5, <1>7, <1>8 DEF act
  <1>15. OnChannels' = (OnChannels \ ousted) \cup {a}
    <2>1. \A d \in Channel \ {c} : Range(activities'[d]) = Range(activities[d])
      BY <1>9
    <2>2. \A d \in Channel \ {c} : Range(activities[d]) \cap ousted = {}
      BY <1>2, <1>7 DEF act
    <2>3. \A x : x \in OnChannels' <=> \E d \in Channel : x \in Range(activities'[d])
      BY DEF OnChannels
    <2>4. \A x : x \in OnChannels <=> \E d \in Channel : x \in Range(activities[d])
      BY DEF OnChannels
    <2>5. Range(activities'[c]) = (Range(activities[c]) \ ousted) \cup {a}
      BY <1>5, <1>13 DEF act, new
    <2>6. ASSUME NEW x PROVE x \in OnChannels' => x \in (OnChannels \ ousted) \cup {a}
      <3> SUFFICES ASSUME NEW d \in Channel, x \in Range(activities'[d])
                   PROVE  x \in (OnChannels \ ousted) \cup {a}
        BY <2>3
      <3>1. CASE d = c
        BY <2>4, <2>5, <3>1
      <3>2. CASE d # c
        BY <2>1, <2>2, <2>4, <3>2
      <3> QED
        BY <3>1, <3>2
    <2>7. ASSUME NEW x PROVE x \in (OnChannels \ ousted) \cup {a} => x \in OnChannels'
      <3>1. CASE x = a
        BY <2>3, <2>5, <3>1
      <3>2. CASE x \in OnChannels \ ousted
        <4>1. PICK d \in Channel : x \in Range(activities[d])
          BY <2>4, <3>2
        <4>2. x \in Range(activities'[d])
          BY <2>1, <2>5, <3>2, <4>1
        <4> QED
          BY <2>3, <4>2
      <3> QED
        BY <3>1, <3>2
    <2> QED
      BY <2>6, <2>7
  <1>16. Gone # Untold /\ Gone.focus = "NONE" /\ Gone' = Gone /\ Untold' = Untold
    BY DEF Gone, Untold
  <1>17. Foregrounded' \subseteq Foregrounded
    BY <1>4, <1>16 DEF Foregrounded
  <1>18. Left'
    <2>1. ASSUME NEW x \in acquired, x \notin OnChannels'
          PROVE  told'[x].focus = "NONE" \/ x \in late
      <3>1. x \in Activity
        BY <1>1 DEF TypeOK
      <3>2. CASE x \in ousted
        BY <1>4, <1>16, <3>1, <3>2
      <3>3. CASE x \notin ousted
        BY <1>1, <1>4, <1>15, <2>1, <3>1, <3>3 DEF Left
      <3> QED
        BY <3>2, <3>3
    <2>2. ASSUME NEW x \in late
          PROVE  x \in acquired \ OnChannels' /\ told'[x] = Paused /\ MayWait(x)
      <3>1. x \in acquired \ OnChannels /\ told[x] = Paused /\ MayWait(x)
        BY <1>1 DEF Left
      <3>2. x # a
        BY <1>8, <3>1 DEF Paused, Untold
      <3>3. x \in Activity /\ x \notin ousted
        BY <1>1, <1>2, <1>7, <3>1 DEF TypeOK, act
      <3> QED
        BY <1>4, <1>15, <3>1, <3>2, <3>3
    <2> QED
      BY <2>1, <2>2 DEF Left, Paused, MayWait
  <1>19. ASSUME NEW x \in Range(activities[c]) \ ousted, x = Head(activities[c]), IsFirst(x)
         PROVE  IsFirst(x)'
    <2>1. act # <<>> /\ Head(act) = x /\ x \notin ousted
      <3>1. Range(<<>>) = {}
        BY DEF Range
      <3> QED
        BY <1>19, <3>1 DEF act
    <2>2. InterfaceOf[a] # InterfaceOf[x]
      BY <1>2, <2>1
    <2>3. w # <<>> /\ Head(w) = x /\ 1 \in DOMAIN w /\ w[1] = x
      BY <1>5, <1>6, <2>1
    <2> SUFFICES ASSUME NEW d \in Channel, NEW i \in DOMAIN activities'[d], NEW j \in DOMAIN activities'[d],
                        activities'[d][j] = x, i < j
                 PROVE  InterfaceOf[activities'[d][i]] # InterfaceOf[x]
      BY DEF IsFirst
    <2>4. CASE d = c
      <3>1. i \in DOMAIN new /\ j \in DOMAIN new /\ new[j] = x /\ activities'[d][i] = new[i]
        BY <2>4 DEF new
      <3>2. i \in Nat /\ i >= 1 /\ j >= 2 /\ j \in Nat
        BY <1>9, <1>11, <3>1
      <3>3. j - 1 \in DOMAIN w /\ w[j - 1] = x
        BY <1>12, <3>1, <3>2
      <3>4. j - 1 = 1
        BY <1>5, <2>3, <3>3
      <3>5. i = 1
        BY <3>2, <3>4
      <3> QED
        BY <1>9, <2>2, <3>1, <3>5
    <2>5. CASE d # c
      BY <1>9, <1>19, <2>5 DEF IsFirst
    <2> QED
      BY <2>4, <2>5
  <1>20. Placed'
    <2> SUFFICES ASSUME NEW d \in Channel
        PROVE  /\ \A x \in Range(activities'[d]) : ChannelOf[x] = d /\ x \in acquired
               /\ \A i, j \in DOMAIN activities'[d] : i # j => activities'[d][i] # activities'[d][j]
      BY DEF Placed
    <2>1. CASE d = c
      <3>1. \A x \in Range(new) : ChannelOf[x] = d /\ x \in acquired
        BY <1>5, <1>7, <1>8, <1>13, <2>1 DEF act
      <3>2. \A j \in DOMAIN new : j >= 2 => new[j] \in Range(w)
        BY <1>12 DEF Range
      <3>3. ASSUME NEW i \in DOMAIN new, NEW j \in DOMAIN new, i # j PROVE new[i] # new[j]
        <4>1. CASE i = 1
          <5>1. j >= 2
            BY <1>9, <1>11, <3>3, <4>1
          <5> QED
            BY <1>9, <1>14, <3>2, <4>1, <5>1
        <4>2. CASE j = 1
          <5>1. i >= 2
            BY <1>9, <1>11, <3>3, <4>2
          <5> QED
            BY <1>9, <1>14, <3>2, <4>2, <5>1
        <4>3. CASE i # 1 /\ j # 1
          <5>1. i >= 2 /\ j >= 2 /\ i \in Nat /\ j \in Nat
            BY <1>9, <1>11, <4>3
          <5>2. /\ i - 1 \in DOMAIN w /\ new[i] = w[i - 1]
                /\ j - 1 \in DOMAIN w /\ new[j] = w[j - 1] /\ i - 1 # j - 1
            BY <1>12, <3>3, <5>1
          <5> QED
            BY <1>5, <5>2
        <4> QED
          BY <4>1, <4>2, <4>3
      <3> QED
        BY <2>1, <3>1, <3>3 DEF new
    <2>2. CASE d # c
      BY <1>1, <1>9, <2>2 DEF Placed
    <2> QED
      BY <2>1, <2>2
  <1>21. Told'
    BY <1>1, <1>4, <1>16 DEF Told
  <1>22. \A x \in Range(w) : MayWait(x)
    <2> SUFFICES ASSUME NEW x \in Range(w) PROVE MayWait(x)
      OBVIOUS
    <2>1. PICK l \in DOMAIN act : act[l] = x
      BY <1>5 DEF Range
    <2>2. CASE l >= 2
      BY <1>1, <2>1, <2>2 DEF SecondsMayWait, act
    <2>3. CASE l < 2
      <3>1. act # <<>> /\ Head(act) = x /\ x \notin ousted /\ x \in Range(act)
        <4>1. l = 1
          BY <1>11, <2>1, <2>3
        <4> QED
          BY <1>5, <2>1, <4>1
      <3>2. a \in Patient
        BY <1>2, <3>1
      <3>3. ChannelOf[x] = c /\ x # a
        BY <1>7, <1>14, <3>1 DEF act
      <3> QED
        BY <3>2, <3>3 DEF MayWait
    <2> QED
      BY <1>11, <2>1, <2>2, <2>3
  <1>23. SecondsMayWait'
    <2> SUFFICES ASSUME NEW d \in Channel, NEW i \in DOMAIN activities'[d], i >= 2
                 PROVE  MayWait(activities'[d][i])
      BY DEF SecondsMayWait, MayWait
    <2>1. CASE d = c
      <3>1. new[i] \in Range(w)
        BY <1>12, <2>1 DEF Range, new
      <3> QED
        BY <1>22, <2>1, <3>1 DEF new
    <2>2. CASE d # c
      BY <1>1, <1>9, <2>2 DEF SecondsMayWait
    <2> QED
      BY <2>1, <2>2
  <1>24. timer'[c] # "off" => /\ Len(new) >= 2 /\ new[1] = initiator'[c] /\ new[2] = receiver'[c]
                              /\ initiator'[c] \in Patient /\ initiator'[c] = a
                              /\ receiver'[c] = Head(act)
    <2> SUFFICES ASSUME timer'[c] # "off"
        PROVE  /\ Len(new) >= 2 /\ new[1] = initiator'[c] /\ new[2] = receiver'[c]
               /\ initiator'[c] \in Patient /\ initiator'[c] = a /\ receiver'[c] = Head(act)
      OBVIOUS
    <2>1. /\ act # <<>> /\ a \in Patient /\ Head(act) \notin ousted
          /\ initiator'[c] = a /\ receiver'[c] = Head(act)
      BY <1>2
    <2>2. w # <<>> /\ Head(w) = Head(act) /\ 1 \in DOMAIN w /\ Len(w) >= 1 /\ w[1] = Head(act)
      BY <1>5, <1>6, <2>1
    <2>3. 2 \in DOMAIN new /\ new[2] = w[1]
      BY <1>9, <1>11, <2>2
    <2> QED
      BY <1>9, <1>11, <2>1, <2>2, <2>3
  <1>25. Patiently'
    <2> SUFFICES ASSUME NEW d \in Channel, timer'[d] # "off"
        PROVE  /\ Len(activities'[d]) >= 2
               /\ activities'[d][1] = initiator'[d] /\ activities'[d][2] = receiver'[d]
               /\ initiator'[d] \in Patient
      BY DEF Patiently
    <2>1. CASE d = c
      BY <1>24, <2>1 DEF new
    <2>2. CASE d # c
      BY <1>1, <1>2, <1>9, <2>2 DEF Patiently
    <2> QED
      BY <2>1, <2>2
  <1>26. SecondPlaceEnds'
    <2>1. \A d \in Channel : WasReplaced(d) => WasReplaced(d)'
      <3>1. \A x \in OnChannels' \ OnChannels : told[x] = Untold
        BY <1>8, <1>15
      <3>2. \A x \in Activity : told[x] # Untold => told'[x] # Untold
        BY <1>4, <1>16
      <3> QED
        BY <1>1, <3>1, <3>2, ReplacedForEver
    <2>2. ASSUME Len(new) > 1, ~WasReplaced(c)
          PROVE  \/ timer'[c] # "off" /\ new = <<initiator'[c], receiver'[c]>>
                 \/ WasReplaced(c)'
      <3>0. Len(w) >= 1 /\ w[1] \in Range(w) /\ 1 \in DOMAIN w
        <4>1. Len(w) >= 1 /\ 1 \in DOMAIN w
          BY <1>9, <1>11, <2>2
        <4> QED
          BY <4>1 DEF Range
      <3>1. \/ Len(act) <= 1
            \/ timer[c] # "off" /\ act = <<initiator[c], receiver[c]>>
        BY <1>1, <1>11, <2>2 DEF SecondPlaceEnds, act
      <3>2. act # <<>>
        <4>1. Range(<<>>) = {}
          BY DEF Range
        <4> QED
          BY <1>5, <3>0, <4>1
      <3>3. /\ Len(act) = 1 => Range(act) = {Head(act)}
            /\ Len(act) = 2 => Range(act) = {Head(act), act[2]}
        <4>1. Head(act) = act[1]
          BY <1>5, <3>2
        <4>2. Len(act) = 1 => DOMAIN act = {1}
          BY <1>11
        <4>3. Len(act) = 2 => DOMAIN act = {1, 2}
          BY <1>11
        <4> QED
          BY <4>1, <4>2, <4>3 DEF Range
      <3>4. \/ Len(act) = 1
            \/ /\ Len(act) = 2 /\ timer[c] # "off" /\ Head(act) = initiator[c] /\ act[2] = receiver[c]
        <4>1. Len(act) # 0
          BY <1>5, <3>2
        <4> QED
          BY <1>11, <3>1, <4>1
      <3>5. ~(Head(act) \in ousted /\ (timer[c] # "off" => act[2] \in ousted))
        BY <1>5, <3>0, <3>3, <3>4
      <3>6. CASE timer'[c] # "off"
        <4>1. Head(act) \notin ousted /\ (timer[c] # "off" => ousted = {act[2]})
              /\ initiator'[c] = a /\ receiver'[c] = Head(act) /\ new[1] = a /\ new[2] = Head(act)
          BY <1>2, <1>24, <3>6
        <4>2. Range(w) \subseteq {Head(act)}
          BY <1>5, <3>3, <3>4, <4>1
        <4>3. Len(w) = 1
          <5> SUFFICES ASSUME Len(w) >= 2 PROVE FALSE
            BY <1>11, <3>0
          <5>1. 1 \in DOMAIN w /\ 2 \in DOMAIN w
            BY <1>11
          <5>2. w[1] \in Range(w) /\ w[2] \in Range(w)
            BY <5>1 DEF Range
          <5> QED
            BY <1>5, <4>2, <5>1, <5>2
        <4>4. Len(new) = 2
          BY <1>9, <4>3
        <4>5. new = <<new[1], new[2]>>
          <5> DEFINE x == new[1]
                     y == new[2]
          <5>1. x \in Activity /\ y \in Activity
            BY <1>9, <4>4
          <5> HIDE DEF x, y
          <5>2. <<x, y>> \in Seq(Activity) /\ Len(<<x, y>>) = 2 /\ <<x, y>>[1] = x /\ <<x, y>>[2] = y
            BY <5>1
          <5>3. \A i \in 1..Len(new) : new[i] = <<x, y>>[i]
            <6>1. \A i \in 1..2 : i = 1 \/ i = 2
              OBVIOUS
            <6> QED
              BY <4>4, <5>2, <6>1 DEF x, y
          <5>4. new = <<x, y>>
            BY <1>9, <4>4, <5>2, <5>3, SeqEqual
          <5> QED
            BY <5>4 DEF x, y
        <4> QED
          BY <3>6, <4>1, <4>5
      <3>7. CASE timer'[c] = "off"
        <4>1. InterfaceOf[a] = InterfaceOf[Head(act)] /\ ousted = {Head(act)}
          BY <1>2, <3>2, <3>5, <3>7
        <4>2. Len(act) = 2 /\ timer[c] # "off" /\ Head(act) = initiator[c]
          BY <1>5, <3>0, <3>3, <3>4, <4>1
        <4>3. initiator[c] \in Patient /\ initiator[c] \in Range(act)
          <5>1. initiator[c] \in Patient
            BY <1>1, <4>2 DEF Patiently
          <5> QED
            BY <3>3, <4>2, <5>1
        <4>4. /\ initiator[c] \in acquired /\ ChannelOf[initiator[c]] = c /\ initiator[c] \in Activity
              /\ initiator[c] # a
          BY <1>7, <1>14, <4>3 DEF act
        <4>5. initiator[c] \notin OnChannels' /\ told'[initiator[c]] # Untold
          BY <1>4, <1>15, <1>16, <4>1, <4>2, <4>4
        <4>6. a \in acquired \ {initiator[c]} /\ ChannelOf[a] = c /\ InterfaceOf[a] = InterfaceOf[initiator[c]]
          BY <1>8, <4>1, <4>2, <4>4
        <4> DEFINE i == initiator[c]
        <4>7. /\ i \in acquired' /\ i \in Patient /\ i \notin OnChannels' /\ ChannelOf[i] = c
              /\ told'[i] # Untold' /\ a \in acquired' \ {i} /\ InterfaceOf[a] = InterfaceOf[i]
          BY <1>16, <4>3, <4>4, <4>5, <4>6
        <4> HIDE DEF i
        <4>8. WasReplaced(c)'
          BY <4>6, <4>7 DEF WasReplaced
        <4> QED
          BY <4>8
      <3> QED
        BY <3>6, <3>7
    <2> SUFFICES ASSUME NEW d \in Channel, Len(activities'[d]) > 1
        PROVE  \/ timer'[d] # "off" /\ activities'[d] = <<initiator'[d], receiver'[d]>>
               \/ WasReplaced(d)'
      BY DEF SecondPlaceEnds
    <2>3. CASE d = c
      BY <2>1, <2>2, <2>3 DEF new
    <2>4. CASE d # c
      BY <1>1, <1>2, <1>9, <2>1, <2>4 DEF SecondPlaceEnds
    <2> QED
      BY <2>3, <2>4
  <1>27. Floor'
    BY <1>20, <1>21, <1>23, <1>25, <1>26 DEF Floor
  <1> QED
    BY <1>2, <1>3, <1>4, <1>9, <1>10, <1>15, <1>17, <1>18, <1>19, <1>27 DEF act, new, ousted

LEMMA AttachActivityKeeps ==
    ASSUME IInv, AttachActivity
    PROVE  IInv'
  <1> DEFINE h == Head(todo)
             rest == Range(Tail(todo))
             a == h.activity
             c == ChannelOf[a]
             ousted == Ousted(a, c)
  <1>1. todo # <<>> /\ h.op = "attach"
    BY DEF AttachActivity, Does
  <1>2. /\ TypeOK /\ TasksOK /\ Placed /\ Ordered /\ Phased /\ StepsAreRight /\ SecondsPause /\ Active
        /\ Waiting /\ Known /\ Settling /\ ForegroundIsOne /\ StopsFirst /\ StopsReach
    BY DEF IInv
  <1>3. /\ h \in Step /\ h \in Steps /\ Tail(todo) \in Seq(Step) /\ InOrder(Tail(todo))
        /\ Steps = {h} \cup rest /\ rest \subseteq Step
        /\ \A t \in rest : \/ t.op \in {"remove", "background", "deactivate", "foreground"}
                           \/ t.op = "focus" /\ t.focus = "FOREGROUND"
    BY <1>1, <1>2, FirstStep
  <1>4. a \in Activity /\ c \in Channel
    BY <1>1, <1>3, StepKinds, FocusAssumption
  <1>5. Unborn(a)
    BY <1>1, <1>2, <1>3 DEF Waiting
  <1>6. c \in activeChannels /\ Pending(c)
    BY <1>1, <1>2, <1>3 DEF StepsAreRight, StepIsRight, AttachIsRight
  <1>7. CASE AttachStopsTimer(a, c)
    <2>1. GetStuck(c)
      BY <1>7 DEF AttachActivity
    <2> QED
      BY <1>4, <2>1, GetStuckKeeps
  <1>8. CASE ~AttachStopsTimer(a, c)
    <2>1. Attach(a, c) /\ todo' = Tail(todo) /\ UNCHANGED <<tasks, activeChannels, focus, late, stuck, clients>>
      BY <1>8 DEF AttachActivity
    <2>2. UNCHANGED <<tasks, activeChannels, focus, late, stuck, acquired, released, stopped, stops>>
      BY <2>1 DEF clients, observers
    <2>3. /\ ousted \in SUBSET Range(activities[c])
          /\ activities' \in [Channel -> Seq(Activity)]
          /\ told' \in [Activity -> [focus : FocusState, behavior : Behavior]]
          /\ timer' \in [Channel -> {"off", "waiting", "firing"}]
          /\ initiator' \in [Channel -> Activity \cup {None}]
          /\ receiver' \in [Channel -> Activity \cup {None}]
          /\ activities'[c] # <<>> /\ Head(activities'[c]) = a
          /\ \A d \in Channel \ {c} : activities'[d] = activities[d]
          /\ OnChannels' = (OnChannels \ ousted) \cup {a}
          /\ \A x \in Activity : told'[x] = IF x \in ousted THEN Gone ELSE told[x]
          /\ Foregrounded' \subseteq Foregrounded
          /\ Floor' /\ Left'
          /\ \A x \in Range(activities[c]) \ ousted :
                 x = Head(activities[c]) /\ IsFirst(x) => IsFirst(x)'
      <3> HIDE DEF h
      <3>1. a \in Activity /\ c \in Channel /\ ChannelOf[a] = c /\ Unborn(a) /\ Attach(a, c)
            /\ UNCHANGED <<acquired, stopped, late>>
        BY <1>4, <1>5, <2>1, <2>2
      <3> HIDE DEF a, c
      <3> QED
        BY <3>1, Arrival
    <2>4. Steps' = rest
      BY <2>1 DEF Steps
    <2>5. ~Leaving(h)
      BY <1>1 DEF Leaving
    <2> HIDE DEF h, rest, a, c, ousted
    <2>6. ~Leaves /\ \A s \in Steps : ~Leaving(s)
      BY <1>2, <1>3, <2>5 DEF Phased
    <2>7. \A s \in rest : s.op = "background" \/ (s.op = "focus" /\ s.focus = "FOREGROUND")
      BY <1>3, <2>6 DEF Leaving
    <2>8. Steps = {h} \cup Steps' /\ \A s \in Steps' : s.op \in {"background", "focus"}
      BY <1>3, <2>4, <2>7
    <2>9. Highest' = Highest /\ Untold' = Untold /\ Gone # Untold
      BY <2>2 DEF Highest, Untold, Gone
    <2>10. /\ OnChannels \subseteq Activity \cap acquired
           /\ \A x \in OnChannels : x \in Range(activities[ChannelOf[x]])
           /\ \A d \in Channel : \A x \in Range(activities[d]) :
                  x \in OnChannels /\ ChannelOf[x] = d /\ x \in Activity \cap acquired
           /\ \A d \in Channel : \A i \in DOMAIN activities[d] : activities[d][i] \in Range(activities[d])
           /\ \A d \in Channel : activities[d] # <<>> => Head(activities[d]) \in Range(activities[d])
      BY <1>2, OnChannelsAre
    <2>11. \A d \in Channel \ {c} : \A x \in Range(activities[d]) : told'[x] = told[x]
      BY <1>4, <2>3, <2>10
    <2>12. a \notin ousted /\ told'[a] = Untold /\ ousted \subseteq OnChannels /\ ousted \subseteq Activity
      BY <1>4, <1>5, <2>3, <2>10 DEF Unborn
    <2>13. TypeOK' /\ TasksOK' /\ Ordered'
      BY <1>2, <1>3, <2>1, <2>2, <2>3 DEF TypeOK, TasksOK, Ordered
    <2>14. ~Leaves' /\ Phased'
      BY <2>6, <2>8 DEF Phased, Leaves
    <2>15. Waiting'
      <3>1. ASSUME NEW i \in DOMAIN tasks, tasks[i].op = "acquire"
            PROVE  /\ tasks[i].activity \in acquired'
                   /\ tasks[i].activity \notin OnChannels'
                   /\ told'[tasks[i].activity] = Untold
        <4>1. Unborn(tasks[i].activity) /\ tasks[i].activity # a
          BY <1>1, <1>2, <1>3, <3>1 DEF Waiting, Awaits, a
        <4>2. tasks[i].activity \in Activity
          BY <1>2, <4>1 DEF TypeOK, Unborn
        <4> QED
          BY <2>2, <2>3, <2>12, <4>1, <4>2 DEF Unborn
      <3>2. \A x \in Activity \ acquired : told'[x] = Untold
        BY <1>2, <2>3, <2>10, <2>12 DEF Waiting
      <3>3. \A i \in DOMAIN tasks : tasks[i].op = "acquire" =>
                \A j \in DOMAIN tasks \ {i} : tasks[j].op = "acquire" => tasks[j].activity # tasks[i].activity
        BY <1>2 DEF Waiting, Awaits
      <3>4. \A s \in Steps' : s.op # "attach"
        BY <2>8
      <3> QED
        BY <2>2, <2>9, <3>1, <3>2, <3>3, <3>4 DEF Waiting, Awaits, Unborn
    <2>16. Known'
      <3> SUFFICES ASSUME NEW x \in acquired
          PROVE  \/ told'[x] # Untold
                 \/ x \in OnChannels'
                 \/ \E i \in DOMAIN tasks : tasks[i].op = "acquire" /\ tasks[i].activity = x
        BY <2>2, <2>9 DEF Known, Awaits
      <3>1. x \in Activity
        BY <1>2 DEF TypeOK
      <3>2. CASE told[x] # Untold
        BY <2>3, <2>9, <3>1, <3>2
      <3>3. CASE x \in OnChannels
        BY <2>3, <2>9, <3>1, <3>3
      <3>4. CASE \E i \in DOMAIN tasks : Awaits(i) /\ tasks[i].activity = x
        BY <3>4 DEF Awaits
      <3>5. CASE \E s \in Steps : s.op = "attach" /\ s.activity = x
        <4>1. PICK s \in Steps : s.op = "attach" /\ s.activity = x
          BY <3>5
        <4>2. s = h
          BY <2>8, <4>1
        <4> QED
          BY <2>3, <4>1, <4>2 DEF a
      <3> QED
        BY <1>2, <3>2, <3>3, <3>4, <3>5 DEF Known
    <2>17. StopsFirst'
      BY <1>2, <2>2 DEF StopsFirst
    <2>18. Active'
      <3> SUFFICES ASSUME NEW d \in Channel
          PROVE  /\ activities'[d] # <<>> => d \in activeChannels
                 /\ d \in activeChannels => activities'[d] # <<>>
                 /\ d \notin activeChannels => focus[d] = "NONE"
        BY <2>2 DEF Active
      <3>1. d \notin activeChannels => focus[d] = "NONE"
        <4>1. \A s \in Steps : ~(s.op = "focus" /\ s.focus = "NONE")
          BY <2>6 DEF Leaving
        <4> QED
          BY <1>2, <4>1 DEF Active
      <3>2. CASE d = c
        BY <1>6, <2>3, <3>1, <3>2
      <3>3. CASE d # c
        <4>1. activities'[d] = activities[d]
          BY <2>3, <3>3
        <4>2. ASSUME d \in activeChannels, activities[d] = <<>> PROVE FALSE
          <5>1. PICK s \in Steps : \/ s.op = "deactivate" /\ s.channel = d
                                   \/ s.op = "attach" /\ ChannelOf[s.activity] = d
            BY <1>2, <4>2 DEF Active
          <5>2. s = h
            BY <1>1, <2>8, <5>1
          <5> QED
            BY <1>1, <3>3, <5>1, <5>2 DEF a, c
        <4>3. activities[d] # <<>> => d \in activeChannels
          BY <1>2 DEF Active
        <4> QED
          BY <3>1, <4>1, <4>2, <4>3
      <3> QED
        BY <3>2, <3>3
    <2>19. StepsAreRight'
      <3> SUFFICES ASSUME NEW s \in Steps' PROVE StepIsRight(s)'
        BY DEF StepsAreRight
      <3>1. s.op = "background" \/ (s.op = "focus" /\ s.focus = "FOREGROUND")
        BY <2>4, <2>7
      <3>2. BackgroundIsRight(s) /\ FocusIsRight(s)
        BY <1>2, <2>8 DEF StepsAreRight, StepIsRight
      <3>3. BackgroundIsRight(s)'
        BY <2>2, <2>9, <3>2 DEF BackgroundIsRight
      <3>4. FocusIsRight(s)'
        BY <2>2, <2>9, <3>1, <3>2 DEF FocusIsRight
      <3>5. AttachIsRight(s)' /\ RemoveIsRight(s)' /\ NoticeIsRight(s)'
        BY <3>1 DEF AttachIsRight, RemoveIsRight, NoticeIsRight
      <3> QED
        BY <3>3, <3>4, <3>5 DEF StepIsRight
    <2>20. Settling'
      <3> SUFFICES ASSUME NEW d \in activeChannels, ~Pending(d)' PROVE Settled(d)'
        BY <2>2 DEF Settling
      <3>1. \A s \in Steps : s.op \in {"background", "focus"} => s \in Steps'
        BY <1>1, <2>8
      <3>2. ~Pending(d)
        BY <3>1 DEF Pending
      <3>3. d # c /\ d \in Channel
        BY <1>2, <1>6, <3>2 DEF TypeOK
      <3>4. Settled(d) /\ activities'[d] = activities[d]
        BY <1>2, <2>3, <2>6, <3>2, <3>3 DEF Settling
      <3>5. \A s \in Steps : s.op # "notify"
        BY <1>1, <2>8
      <3>6. \A x \in Range(activities[d]) : IsRight(told[x], x, d)
        BY <3>4, <3>5 DEF Settled, WillHear
      <3>7. \A x \in Range(activities[d]) : told'[x] = told[x]
        BY <2>11, <3>3
      <3>8. \A x \in Range(activities'[d]) : IsRight(told[x], x, d)'
        BY <2>2, <2>9, <3>4, <3>6, <3>7 DEF IsRight
      <3> QED
        BY <2>2, <2>9, <3>4, <3>8 DEF Settled
    <2>21. \A s \in Steps' : s.op # "notify"
      BY <2>8
    <2>22. SecondsPause'
      <3> SUFFICES ASSUME NEW d \in Channel, NEW i \in DOMAIN activities'[d], i >= 2
          PROVE  \/ told'[activities'[d][i]] = [focus |-> "BACKGROUND", behavior |-> "MUST_PAUSE"]
                 \/ Fresh(d)'
        BY <2>14 DEF SecondsPause
      <3>1. CASE d = c
        BY <2>3, <2>9, <2>12, <2>21, <3>1 DEF Fresh, WillHear
      <3>2. CASE d # c
        <4>1. activities'[d] = activities[d]
          BY <2>3, <3>2
        <4>2. \/ told[activities[d][i]] = [focus |-> "BACKGROUND", behavior |-> "MUST_PAUSE"]
              \/ WillHear(activities[d][i])
              \/ Fresh(d)
          BY <1>2, <4>1 DEF SecondsPause
        <4>3. ~WillHear(activities[d][i])
          BY <1>1, <2>8 DEF WillHear
        <4>4. CASE Fresh(d)
          <5>1. activities[d] # <<>> /\ told'[Head(activities[d])] = Untold
            BY <2>10, <2>11, <3>2, <4>4 DEF Fresh
          <5> QED
            BY <2>9, <2>21, <4>1, <5>1 DEF Fresh, WillHear
        <4>5. CASE told[activities[d][i]] = [focus |-> "BACKGROUND", behavior |-> "MUST_PAUSE"]
          BY <2>10, <2>11, <3>2, <4>1, <4>5
        <4> QED
          BY <4>2, <4>3, <4>4, <4>5
      <3> QED
        BY <3>1, <3>2
    <2>23. ForegroundIsOne'
      BY <1>2, <2>3, <2>21 DEF ForegroundIsOne, OneForegroundChannel
    <2>24. StopsReach'
      <3>1. \A x \in stopped : x \in OnChannels' \/ told'[x] # Untold
        <4> SUFFICES ASSUME NEW x \in stopped PROVE x \in OnChannels' \/ told'[x] # Untold
          OBVIOUS
        <4>1. x \in Activity /\ (x \in OnChannels \/ told[x] # Untold)
          BY <1>2 DEF TypeOK, StopsReach
        <4> QED
          BY <2>3, <2>9, <4>1
      <3>2. ASSUME NEW x \in stopped \cap OnChannels' PROVE WillStop(x)' /\ IsFirst(x)'
        <4>1. x # a
          BY <1>2, <1>5, <3>2 DEF StopsReach, Unborn
        <4>2. x \in OnChannels /\ x \notin ousted /\ WillStop(x) /\ IsFirst(x)
          BY <1>2, <2>3, <3>2, <4>1 DEF StopsReach
        <4>3. WillStop(x)'
          <5>1. \A s \in Steps : s.op = "remove" => s \in Steps'
            BY <1>1, <2>8
          <5> QED
            BY <2>2, <4>2, <5>1 DEF WillStop
        <4>4. CASE ChannelOf[x] = c
          <5>1. x = Head(activities[c])
            BY <1>1, <1>2, <1>3, <3>2, <4>2, <4>4 DEF StopsReach, a, c
          <5>2. x \in Range(activities[c])
            BY <2>10, <4>2, <4>4
          <5> QED
            BY <2>3, <4>2, <4>3, <5>1, <5>2
        <4>5. CASE ChannelOf[x] # c
          <5>1. ASSUME NEW d \in Channel, NEW i \in DOMAIN activities'[d], NEW j \in DOMAIN activities'[d],
                       activities'[d][j] = x, i < j
                PROVE  InterfaceOf[activities'[d][i]] # InterfaceOf[x]
            <6>1. d = ChannelOf[x]
              <7>1. x \in Range(activities'[d])
                BY <5>1 DEF Range
              <7> QED
                BY <2>3, <7>1 DEF Floor, Placed
            <6>2. activities'[d] = activities[d]
              BY <2>3, <4>5, <6>1
            <6> QED
              BY <4>2, <5>1, <6>2 DEF IsFirst
          <5> QED
            BY <4>3, <5>1 DEF IsFirst
        <4> QED
          BY <4>4, <4>5
      <3>3. \A s \in Steps' : s.op # "attach"
        BY <2>8
      <3> QED
        BY <2>2, <2>9, <3>1, <3>2, <3>3 DEF StopsReach
    <2> QED
      BY <2>3, <2>13, <2>14, <2>15, <2>16, <2>17, <2>18, <2>19, <2>20, <2>22, <2>23, <2>24 DEF IInv, Floor
  <1> QED
    BY <1>7, <1>8

-----------------------------------------------------------------------------
(***************************************************************************)
(* The invariant, and the properties that follow from it.                  *)
(***************************************************************************)
LEMMA NextKeeps ==
    ASSUME IInv, [Next]_vars
    PROVE  IInv'
  <1>1. CASE \E a \in Activity : AcquireChannel(a) \/ ReleaseChannel(a)
    BY <1>1, AcquireKeeps, ReleaseKeeps
  <1>2. CASE StopForegroundActivity \/ StopAllActivities
    BY <1>2, StopsKeep
  <1>3. CASE RunAcquire \/ RunRelease \/ RunStop \/ RunStopAll
    BY <1>3, RunAcquireKeeps, RunReleaseKeeps, RunStopKeeps, RunStopAllKeeps
  <1>4. CASE AttachActivity \/ RemoveActivity \/ DeactivateChannel \/ ForegroundHighest
    BY <1>4, AttachActivityKeeps, RemoveActivityKeeps, DeactivateChannelKeeps, ForegroundHighestKeeps
  <1>5. CASE BackgroundChannel \/ ChangeFocus \/ NotifyActivity
    BY <1>5, BackgroundChannelKeeps, ChangeFocusKeeps, NotifyActivityKeeps
  <1>6. CASE \E c \in Channel : TimerExpires(c) \/ PatienceIsOver(c)
    BY <1>6, TimerExpiresKeeps, PatienceIsOverKeeps
  <1>7. CASE UNCHANGED vars
    <2>1. /\ UNCHANGED <<executor, activeChannels, activities, focus, initiator, receiver, told, late, clients>>
          /\ timer' = timer /\ stuck' = stuck
      BY <1>7 DEF vars, channels, patience, observers
    <2>2. TypeOK'
      BY <2>1 DEF IInv, TypeOK, clients, observers
    <2> QED
      BY <2>1, <2>2, TimerKeeps
  <1> QED
    BY <1>1, <1>2, <1>3, <1>4, <1>5, <1>6, <1>7 DEF Next, Executor

LEMMA InvHolds == Spec => []IInv
  <1>1. Init => IInv
    BY InitInv
  <1>2. IInv /\ [Next]_vars => IInv'
    BY NextKeeps
  <1> QED
    BY <1>1, <1>2, PTL DEF Spec

\* Every variable keeps its type: a patience that runs out, a stop or a release never
\* leaves a channel or an observer in a state that the code has no value for.
THEOREM FocusTypeCorrect == Spec => []TypeOK
  <1>1. IInv => TypeOK
    BY DEF IInv
  <1> QED
    BY <1>1, InvHolds, PTL

\* Those who were last told that they are in the foreground are on one channel, at any
\* time: a channel that comes to the foreground does so after the others have left it,
\* whichever call, release or end of a patience makes it come.
THEOREM ForegroundIsOneChannel == Spec => []OneForegroundChannel
  <1>1. IInv => OneForegroundChannel
    BY DEF IInv, ForegroundIsOne
  <1> QED
    BY <1>1, InvHolds, PTL

\* An executor with nothing left to do has settled all: the active channels are those
\* with activities, the highest is in the foreground, the others are not, and each
\* activity has been told what is right for it.
THEOREM RestIsSettled == Spec => []IdleIsSettled
  <1>1. IInv => IdleIsSettled
    <2> SUFFICES ASSUME IInv, Idle
        PROVE  /\ activeChannels = {c \in Channel : activities[c] # <<>>}
               /\ \A c \in Channel :
                      /\ focus[c] = IF c \notin activeChannels THEN "NONE"
                                    ELSE IF c = Highest THEN "FOREGROUND" ELSE "BACKGROUND"
                      /\ \A a \in Range(activities[c]) : IsRight(told[a], a, c)
               /\ \A a \in acquired : told[a] # Untold
      BY DEF IdleIsSettled
    <2>1. todo = <<>> /\ tasks = <<>> /\ TypeOK /\ Placed /\ Known
      BY DEF Idle, IInv
    <2>2. /\ Steps = {}
          /\ \A c \in Channel : c \in activeChannels <=> activities[c] # <<>>
          /\ \A c \in Channel : c \notin activeChannels => focus[c] = "NONE"
          /\ \A c \in activeChannels :
                 /\ focus[c] = IF c = Highest THEN "FOREGROUND" ELSE "BACKGROUND"
                 /\ \A a \in Range(activities[c]) : IsRight(told[a], a, c) /\ told[a] # Untold
      BY <2>1, BetweenTasks
    <2>3. activeChannels = {c \in Channel : activities[c] # <<>>}
      BY <2>1, <2>2 DEF TypeOK
    <2>4. ASSUME NEW c \in Channel
          PROVE  /\ focus[c] = IF c \notin activeChannels THEN "NONE"
                               ELSE IF c = Highest THEN "FOREGROUND" ELSE "BACKGROUND"
                 /\ \A a \in Range(activities[c]) : IsRight(told[a], a, c)
      <3>1. CASE c \in activeChannels
        BY <2>2, <3>1
      <3>2. CASE c \notin activeChannels
        <4>1. activities[c] = <<>>
          BY <2>2, <3>2
        <4>2. Range(activities[c]) = {}
          BY <4>1 DEF Range
        <4> QED
          BY <2>2, <3>2, <4>2
      <3> QED
        BY <3>1, <3>2
    <2>5. ASSUME NEW a \in acquired PROVE told[a] # Untold
      <3>1. \/ told[a] # Untold
            \/ a \in OnChannels
        BY <2>1, <2>2 DEF Known
      <3>2. ASSUME a \in OnChannels PROVE told[a] # Untold
        <4>1. PICK c \in Channel : a \in Range(activities[c])
          BY <3>2 DEF OnChannels
        <4>2. activities[c] # <<>>
          <5>1. Range(<<>>) = {}
            BY DEF Range
          <5> QED
            BY <4>1, <5>1
        <4> QED
          BY <2>2, <4>1, <4>2
      <3> QED
        BY <3>1, <3>2
    <2> QED
      BY <2>3, <2>4, <2>5
  <1> QED
    BY <1>1, InvHolds, PTL

\* Whoever has left its channel, by whatever way, was told NONE in that step, and hears
\* nothing more.  But one that the timer removes between the copy that
\* notifyActivities() makes and its calls hears once, and only, that it is to pause in
\* the background.
THEOREM WhoLeftIsTold == Spec => []LeftIsTold
  <1>1. IInv => LeftIsTold
    <2> SUFFICES ASSUME IInv PROVE LeftIsTold
      OBVIOUS
    <2>1. TypeOK /\ TasksOK /\ Known /\ Told /\ Left /\ StepsAreRight
      BY DEF IInv
    <2>2. Steps = {todo[i] : i \in DOMAIN todo}
      BY DEF Steps, Range
    <2>3. ASSUME NEW a \in acquired \ OnChannels
          PROVE  \/ told[a] = Gone /\ a \notin late
                 \/ told[a] = Paused /\ a \in late /\ MayWait(a)
                 \/ told[a] = Untold /\ IsComing(a)
      <3>1. a \in Activity
        BY <2>1 DEF TypeOK
      <3>2. CASE a \in late
        BY <2>1, <3>2 DEF Left
      <3>3. CASE a \notin late /\ told[a] = Untold
        <4>1. \/ \E i \in DOMAIN tasks : tasks[i].op = "acquire" /\ tasks[i].activity = a
              \/ \E s \in Steps : s.op = "attach" /\ s.activity = a
          BY <2>1, <3>3 DEF Known, Awaits
        <4> QED
          BY <2>2, <3>3, <4>1 DEF IsComing
      <3>4. CASE a \notin late /\ told[a] # Untold
        <4>1. told[a].focus = "NONE"
          BY <2>1, <3>4 DEF Left
        <4>2. told[a] = Gone
          BY <2>1, <3>1, <3>4, <4>1 DEF Told
        <4> QED
          BY <3>4, <4>2
      <3> QED
        BY <3>2, <3>3, <3>4
    <2>4. late \cap OnChannels = {}
      BY <2>1 DEF Left
    <2>5. ASSUME NEW i \in DOMAIN todo, todo[i].op = "notify"
          PROVE  todo[i].activity \notin late
      <3>1. todo[i] \in Steps
        BY <2>2
      <3>2. NoticeIsRight(todo[i])
        BY <2>1, <3>1 DEF StepsAreRight, StepIsRight
      <3> QED
        BY <2>4, <2>5, <3>2 DEF NoticeIsRight
    <2> QED
      BY <2>3, <2>4, <2>5 DEF LeftIsTold
  <1> QED
    BY <1>1, InvHolds, PTL

\* Two activities are on a channel only while the patience of the first for the second
\* runs, but for a patient activity that was replaced by one of its interface.
THEOREM SecondPlaceIsAPatience == Spec => []SecondPlaceEnds
  <1>1. IInv => SecondPlaceEnds
    BY DEF IInv
  <1> QED
    BY <1>1, InvHolds, PTL

\* What had the first place on its channel when stopAllActivities() was called is off
\* it when the executor has nothing left to do.
THEOREM StoppedAreGone == Spec => []StoppedIsGone
  <1>1. IInv => StoppedIsGone
    <2> SUFFICES ASSUME IInv, Idle, NEW a \in stopped \cap OnChannels PROVE FALSE
      BY DEF StoppedIsGone
    <2>1. todo = <<>> /\ tasks = <<>> /\ StopsReach
      BY DEF Idle, IInv
    <2>2. Steps = {}
      BY <2>1, BetweenTasks
    <2>3. DOMAIN tasks = {}
      BY <2>1
    <2> QED
      BY <2>1, <2>2, <2>3 DEF StopsReach, WillStop
  <1> QED
    BY <1>1, InvHolds, PTL
=============================================================================
