------------------------- MODULE DirectiveRouterProofs -------------------------
(***************************************************************************)
(* Theorems about the DirectiveRouter, for any handlers, threads and       *)
(* configurations.                                                         *)
(***************************************************************************)
EXTENDS DirectiveRouter, SequenceTheorems, FiniteSetTheorems, FunctionTheorems, TLAPS

-----------------------------------------------------------------------------
(***************************************************************************)
(* Looking up a directive.  A valid rule that applies to a directive is    *)
(* one of the five that the router looks for, and none of the five is more *)
(* specific than an earlier one.                                           *)
(***************************************************************************)
LEMMA FieldsOfTarget ==
    ASSUME NEW target \in Target
    PROVE  /\ target.endpoint # Wildcard /\ target.instance # Wildcard
           /\ target.nameSpace # Wildcard /\ target.name # Wildcard
  BY WildcardAssumption DEF Target

LEMMA MatcherRecords ==
    ASSUME NEW target \in Target
    PROVE  /\ Matchers(target)[1] = target
           /\ Matchers(target)[2] =
                [endpoint |-> target.endpoint, instance |-> target.instance,
                 nameSpace |-> target.nameSpace, name |-> Wildcard]
           /\ Matchers(target)[3] =
                [endpoint |-> target.endpoint, instance |-> target.instance,
                 nameSpace |-> Wildcard, name |-> Wildcard]
           /\ Matchers(target)[4] =
                [endpoint |-> target.endpoint, instance |-> Wildcard,
                 nameSpace |-> target.nameSpace, name |-> Wildcard]
           /\ Matchers(target)[5] =
                [endpoint |-> target.endpoint, instance |-> Wildcard,
                 nameSpace |-> Wildcard, name |-> Wildcard]
  BY DEF Matchers, Target

\* What a rule's fields are, one by one.
Fields(rule, endpoint, instance, nameSpace, name) ==
    /\ rule["endpoint"] = endpoint /\ rule["instance"] = instance
    /\ rule["nameSpace"] = nameSpace /\ rule["name"] = name

LEMMA MatcherFields ==
    ASSUME NEW target \in Target
    PROVE  /\ Fields(Matchers(target)[1], target.endpoint, target.instance,
                     target.nameSpace, target.name)
           /\ Fields(Matchers(target)[2], target.endpoint, target.instance,
                     target.nameSpace, Wildcard)
           /\ Fields(Matchers(target)[3], target.endpoint, target.instance, Wildcard, Wildcard)
           /\ Fields(Matchers(target)[4], target.endpoint, Wildcard, target.nameSpace, Wildcard)
           /\ Fields(Matchers(target)[5], target.endpoint, Wildcard, Wildcard, Wildcard)
  <1> DEFINE e == target.endpoint
             i == target.instance
             ns == target.nameSpace
             m == Matchers(target)
  <1>a. /\ m[1] = target
        /\ m[2] = [endpoint |-> e, instance |-> i, nameSpace |-> ns, name |-> Wildcard]
        /\ m[3] = [endpoint |-> e, instance |-> i, nameSpace |-> Wildcard, name |-> Wildcard]
        /\ m[4] = [endpoint |-> e, instance |-> Wildcard, nameSpace |-> ns, name |-> Wildcard]
        /\ m[5] = [endpoint |-> e, instance |-> Wildcard, nameSpace |-> Wildcard,
                   name |-> Wildcard]
    BY MatcherRecords
  <1>1. Fields(Matchers(target)[1], target.endpoint, target.instance,
               target.nameSpace, target.name)
    BY <1>a DEF Fields
  <1>2. Fields(Matchers(target)[2], target.endpoint, target.instance, target.nameSpace, Wildcard)
    BY <1>a DEF Fields
  <1>3. Fields(Matchers(target)[3], target.endpoint, target.instance, Wildcard, Wildcard)
    BY <1>a DEF Fields
  <1>4. Fields(Matchers(target)[4], target.endpoint, Wildcard, target.nameSpace, Wildcard)
    BY <1>a DEF Fields
  <1>5. Fields(Matchers(target)[5], target.endpoint, Wildcard, Wildcard, Wildcard)
    BY <1>a DEF Fields
  <1> QED
    BY <1>1, <1>2, <1>3, <1>4, <1>5

LEMMA ApplicableRuleIsMatcher ==
    ASSUME NEW target \in Target, NEW rule \in Rule, Applies(rule, target)
    PROVE  \E i \in 1..5 : rule = Matchers(target)[i]
  <1>1. /\ rule.endpoint = target.endpoint
        /\ rule.instance \in {target.instance, Wildcard}
        /\ rule.nameSpace \in {target.nameSpace, Wildcard}
        /\ rule.name \in {target.name, Wildcard}
    BY DEF Applies, Rule, IsValidRule, Field
  <1>2. rule.instance = Wildcard \/ rule.nameSpace = Wildcard => rule.name = Wildcard
    BY DEF Rule, IsValidRule
  <1>3. rule = [endpoint |-> rule.endpoint, instance |-> rule.instance,
                nameSpace |-> rule.nameSpace, name |-> rule.name]
    BY DEF Rule, CapabilityTag
  <1>4. target = [endpoint |-> target.endpoint, instance |-> target.instance,
                  nameSpace |-> target.nameSpace, name |-> target.name]
    BY DEF Target
  <1>5. CASE rule.name # Wildcard
    <2>1. rule = Matchers(target)[1]
      BY <1>1, <1>2, <1>3, <1>4, <1>5, MatcherRecords
    <2> QED
      BY <2>1
  <1>6. CASE rule.name = Wildcard /\ rule.instance # Wildcard /\ rule.nameSpace # Wildcard
    <2>1. rule = Matchers(target)[2]
      BY <1>1, <1>3, <1>6, MatcherRecords
    <2> QED
      BY <2>1
  <1>7. CASE rule.name = Wildcard /\ rule.instance # Wildcard /\ rule.nameSpace = Wildcard
    <2>1. rule = Matchers(target)[3]
      BY <1>1, <1>3, <1>7, MatcherRecords
    <2> QED
      BY <2>1
  <1>8. CASE rule.name = Wildcard /\ rule.instance = Wildcard /\ rule.nameSpace # Wildcard
    <2>1. rule = Matchers(target)[4]
      BY <1>1, <1>3, <1>8, MatcherRecords
    <2> QED
      BY <2>1
  <1>9. CASE rule.name = Wildcard /\ rule.instance = Wildcard /\ rule.nameSpace = Wildcard
    <2>1. rule = Matchers(target)[5]
      BY <1>1, <1>3, <1>9, MatcherRecords
    <2> QED
      BY <2>1
  <1> QED
    BY <1>5, <1>6, <1>7, <1>8, <1>9

LEMMA MatcherApplies ==
    ASSUME NEW target \in Target, NEW i \in 1..5
    PROVE  Applies(Matchers(target)[i], target)
  <1>1. /\ Applies(Matchers(target)[1], target)
        /\ Applies(Matchers(target)[2], target)
        /\ Applies(Matchers(target)[3], target)
        /\ Applies(Matchers(target)[4], target)
        /\ Applies(Matchers(target)[5], target)
    BY MatcherFields DEF Fields, Applies, Field
  <1>2. i = 1 \/ i = 2 \/ i = 3 \/ i = 4 \/ i = 5
    OBVIOUS
  <1> QED
    BY <1>1, <1>2

LEMMA LaterMatcherIsNotMoreSpecific ==
    ASSUME NEW target \in Target, NEW i \in 1..5, NEW j \in 1..5, i < j
    PROVE  ~MoreSpecific(Matchers(target)[j], Matchers(target)[i])
  <1> DEFINE m == Matchers(target)
  <1>1. \/ m[i].name # Wildcard /\ m[j].name = Wildcard
        \/ m[i].instance # Wildcard /\ m[j].instance = Wildcard
        \/ m[i].nameSpace # Wildcard /\ m[j].nameSpace = Wildcard
    <2>1. /\ m[1].name # Wildcard
          /\ m[2].instance # Wildcard /\ m[2].nameSpace # Wildcard /\ m[2].name = Wildcard
          /\ m[3].instance # Wildcard /\ m[3].nameSpace = Wildcard /\ m[3].name = Wildcard
          /\ m[4].instance = Wildcard /\ m[4].nameSpace # Wildcard /\ m[4].name = Wildcard
          /\ m[5].instance = Wildcard /\ m[5].nameSpace = Wildcard /\ m[5].name = Wildcard
      BY MatcherFields, FieldsOfTarget DEF Fields
    <2> HIDE DEF m
    <2>2. CASE i = 1
      <3>1. j = 2 \/ j = 3 \/ j = 4 \/ j = 5
        BY <2>2
      <3> QED
        BY <2>1, <2>2, <3>1
    <2>3. CASE i = 2
      <3>1. j = 3 \/ j = 4 \/ j = 5
        BY <2>3
      <3> QED
        BY <2>1, <2>3, <3>1
    <2>4. CASE i = 3
      <3>1. j = 4 \/ j = 5
        BY <2>4
      <3> QED
        BY <2>1, <2>4, <3>1
    <2>5. CASE i = 4
      <3>1. j = 5
        BY <2>5
      <3> QED
        BY <2>1, <2>5, <3>1
    <2>6. i = 1 \/ i = 2 \/ i = 3 \/ i = 4
      OBVIOUS
    <2> QED
      BY <2>2, <2>3, <2>4, <2>5, <2>6
  <1> HIDE DEF m
  <1>2. ~MoreSpecific(m[j], m[i])
    BY <1>1 DEF MoreSpecific, Field
  <1> QED
    BY <1>2 DEF m

LEMMA SomeMatcherIsFirst ==
    ASSUME NEW configured, NEW target, NEW j \in 1..5, Matchers(target)[j] \in configured
    PROVE  \E i \in 1..5 : /\ Matchers(target)[i] \in configured
                           /\ \A k \in 1..(i - 1) : Matchers(target)[k] \notin configured
  <1> DEFINE in(i) == Matchers(target)[i] \in configured
  <1>1. in(1) \/ in(2) \/ in(3) \/ in(4) \/ in(5)
    OBVIOUS
  <1> SUFFICES \E i \in 1..5 : in(i) /\ \A k \in 1..(i - 1) : ~in(k)
    OBVIOUS
  <1> HIDE DEF in
  <1>2. CASE in(1)
    BY <1>2
  <1>3. CASE ~in(1) /\ in(2)
    BY <1>3
  <1>4. CASE ~in(1) /\ ~in(2) /\ in(3)
    <2>1. \A k \in 1..(3 - 1) : k = 1 \/ k = 2
      OBVIOUS
    <2> QED
      BY <1>4, <2>1
  <1>5. CASE ~in(1) /\ ~in(2) /\ ~in(3) /\ in(4)
    <2>1. \A k \in 1..(4 - 1) : k = 1 \/ k = 2 \/ k = 3
      OBVIOUS
    <2> QED
      BY <1>5, <2>1
  <1>6. CASE ~in(1) /\ ~in(2) /\ ~in(3) /\ ~in(4) /\ in(5)
    <2>1. \A k \in 1..(5 - 1) : k = 1 \/ k = 2 \/ k = 3 \/ k = 4
      OBVIOUS
    <2> QED
      BY <1>6, <2>1
  <1> QED
    BY <1>1, <1>2, <1>3, <1>4, <1>5, <1>6

\* The lookup over any set of valid rules finds a most specific one.
LEMMA LookupIsMostSpecific ==
    ASSUME NEW configured \in SUBSET Rule, NEW target \in Target
    PROVE  /\ \A rule \in CapabilityTag :
                  IsFirstMatch(rule, configured, target) => IsMostSpecific(rule, configured, target)
           /\ (\E rule \in configured : Applies(rule, target)) =>
                  \E rule \in configured : IsFirstMatch(rule, configured, target)
  <1>1. ASSUME NEW rule \in CapabilityTag, IsFirstMatch(rule, configured, target),
               NEW other \in configured, Applies(other, target)
        PROVE  ~MoreSpecific(other, rule)
    <2>1. PICK i \in 1..5 : /\ rule = Matchers(target)[i]
                            /\ \A k \in 1..(i - 1) : Matchers(target)[k] \notin configured
      BY <1>1 DEF IsFirstMatch
    <2>2. PICK j \in 1..5 : other = Matchers(target)[j]
      BY <1>1, ApplicableRuleIsMatcher
    <2>3. ~(j < i)
      BY <2>1, <2>2
    <2>4. CASE j = i
      BY <2>1, <2>2, <2>4 DEF MoreSpecific
    <2>5. CASE i < j
      BY <2>1, <2>2, <2>5, LaterMatcherIsNotMoreSpecific
    <2> QED
      BY <2>3, <2>4, <2>5
  <1>2. ASSUME NEW rule \in CapabilityTag, IsFirstMatch(rule, configured, target)
        PROVE  rule \in configured /\ Applies(rule, target)
    BY <1>2, MatcherApplies DEF IsFirstMatch
  <1>3. ASSUME NEW rule \in configured, Applies(rule, target)
        PROVE  \E first \in configured : IsFirstMatch(first, configured, target)
    <2>1. PICK j \in 1..5 : rule = Matchers(target)[j]
      BY <1>3, ApplicableRuleIsMatcher
    <2>2. PICK i \in 1..5 : /\ Matchers(target)[i] \in configured
                            /\ \A k \in 1..(i - 1) : Matchers(target)[k] \notin configured
      BY <2>1, SomeMatcherIsFirst
    <2> QED
      BY <2>2 DEF IsFirstMatch
  <1> QED
    BY <1>1, <1>2, <1>3 DEF IsMostSpecific

-----------------------------------------------------------------------------
(***************************************************************************)
(* Type correctness.                                                       *)
(***************************************************************************)
Stage == {"idle", "adding", "scoped", "calling", "notifying", "stopping", "releasing"}

ThreadState == [stage : Stage, handler : Handler \cup {None}, released : Seq(Handler)]

LEMMA ListingIsSequence ==
    ASSUME NEW S, IsFiniteSet(S), NEW s \in SetToSeqs(S)
    PROVE  s \in Seq(S) /\ Range(s) = S
  <1> DEFINE n == Cardinality(S)
  <1>1. n \in Nat
    BY FS_CardinalityType
  <1>2. s \in [1..n -> S] /\ \A i, j \in 1..n : i # j => s[i] # s[j]
    BY DEF SetToSeqs
  <1>3. s \in Injection(1..n, S)
    BY <1>2, Fun_IsInj
  <1>4. IsFiniteSet(1..n) /\ Cardinality(1..n) = n
    BY <1>1, FS_Interval
  <1>5. s \in Surjection(1..n, S)
    BY <1>3, <1>4, FS_Injection
  <1>6. Range(s) = S
    BY <1>2, <1>5 DEF Range, Surjection
  <1>7. s \in Seq(S)
    BY <1>1, <1>2, SeqDef
  <1> QED
    BY <1>6, <1>7

LEMMA ThreadStates ==
    /\ Idle \in ThreadState
    /\ \A stage \in Stage, h \in Handler \cup {None} : Busy(stage, h) \in ThreadState
    /\ \A s \in ThreadState, stage \in Stage : [s EXCEPT !.stage = stage] \in ThreadState
    /\ \A s \in ThreadState, q \in Seq(Handler) : [s EXCEPT !.released = q] \in ThreadState
  <1>1. <<>> \in Seq(Handler)
    BY EmptySeq
  <1> QED
    BY <1>1 DEF Idle, Busy, ThreadState, Stage

LEMMA RegisteredIsFinite ==
    ASSUME NEW hs \in SUBSET Handler
    PROVE  IsFiniteSet(hs)
  BY RouterAssumption, FS_Subset

LEMMA RulesAreCounted ==
    \A h \in Handler : RulesOf[h] \in SUBSET CapabilityTag /\ Cardinality(RulesOf[h]) \in Nat
  BY RouterAssumption, FS_CardinalityType

\* The types but for the sign of the reference counts, which takes an argument
\* of its own (CountIsUse below).
Typed ==
    /\ configuration \in [CapabilityTag -> Handler \cup {None}]
    /\ referenceCount \in [Handler -> Int]
    /\ mutex \in Thread \cup {None}
    /\ shutdownMutex \in Thread \cup {None}
    /\ isShutdown \in BOOLEAN
    /\ thread \in [Thread -> ThreadState]
    /\ lastWord \in [Handler -> {"nothing", "added", "called", "deregistered"}]

\* A thread that is about to act on a handler has one.
HandlerAtHand ==
    \A t \in Thread :
        thread[t].stage \in {"adding", "scoped", "calling", "notifying"} =>
            thread[t].handler \in Handler

LEMMA InitTyped == Init => Typed /\ HandlerAtHand
  <1> SUFFICES ASSUME Init PROVE Typed /\ HandlerAtHand
    OBVIOUS
  <1>1. thread \in [Thread -> ThreadState]
    BY ThreadStates DEF Init
  <1>2. HandlerAtHand
    BY DEF Init, HandlerAtHand, Idle
  <1>3. configuration \in [CapabilityTag -> Handler \cup {None}]
    BY DEF Init
  <1>4. referenceCount \in [Handler -> Int]
    BY DEF Init
  <1>5. lastWord \in [Handler -> {"nothing", "added", "called", "deregistered"}]
    BY DEF Init
  <1>6. mutex = None /\ shutdownMutex = None /\ isShutdown \in BOOLEAN
    BY DEF Init
  <1> QED
    BY <1>1, <1>2, <1>3, <1>4, <1>5, <1>6 DEF Typed

\* What a thread does next is well-typed if the record it moves to is.
LEMMA GoesTyped ==
    ASSUME Typed, HandlerAtHand, NEW t \in Thread, NEW to \in ThreadState, Goes(t, to),
           to.stage \in {"adding", "scoped", "calling", "notifying"} => to.handler \in Handler
    PROVE  thread' \in [Thread -> ThreadState] /\ HandlerAtHand'
  <1>1. thread' = [thread EXCEPT ![t] = to] /\ thread \in [Thread -> ThreadState]
    BY DEF Goes, Typed
  <1>2. thread' \in [Thread -> ThreadState]
    BY <1>1
  <1>3. ASSUME NEW u \in Thread,
               thread'[u].stage \in {"adding", "scoped", "calling", "notifying"}
        PROVE  thread'[u].handler \in Handler
    <2>1. CASE u = t
      BY <1>1, <1>3, <2>1
    <2>2. CASE u # t
      BY <1>1, <1>3, <2>2 DEF HandlerAtHand
    <2> QED
      BY <2>1, <2>2
  <1> QED
    BY <1>2, <1>3 DEF HandlerAtHand

LEMMA HearsTyped ==
    ASSUME Typed, NEW h \in Handler, NEW word \in {"nothing", "added", "called", "deregistered"},
           Hears(h, word)
    PROVE  lastWord' \in [Handler -> {"nothing", "added", "called", "deregistered"}]
  BY DEF Typed, Hears

LEMMA BusyFields ==
    \A stage, h : Busy(stage, h).stage = stage /\ Busy(stage, h).handler = h
  BY DEF Busy

LEMMA CountWithoutTyped ==
    ASSUME Typed, NEW hs
    PROVE  CountWithout(hs) \in [Handler -> Int]
  <1>1. \A h \in Handler : referenceCount[h] \in Int
    BY DEF Typed
  <1>2. \A h \in Handler :
            referenceCount[h] - (IF h \in hs THEN Cardinality(RulesOf[h]) ELSE 0) \in Int
    BY <1>1, RulesAreCounted
  <1> QED
    BY <1>2 DEF CountWithout

LEMMA TypedStep ==
    ASSUME Typed, HandlerAtHand, [Next]_vars
    PROVE  Typed' /\ HandlerAtHand'
  <1> USE DEF Typed
  <1>0. /\ "idle" \in Stage /\ "adding" \in Stage /\ "scoped" \in Stage /\ "calling" \in Stage
        /\ "notifying" \in Stage /\ "stopping" \in Stage /\ "releasing" \in Stage
    BY DEF Stage
  <1>1. ASSUME NEW t \in Thread, NEW h \in Handler, StartAdding(t, h)
        PROVE  Typed' /\ HandlerAtHand'
    <2>1. Busy("adding", h) \in ThreadState
      BY <1>0, ThreadStates
    <2> QED
      BY <1>1, <2>1, GoesTyped, BusyFields DEF StartAdding
  <1>2. ASSUME NEW t \in Thread, RefuseHandler(t)
        PROVE  Typed' /\ HandlerAtHand'
    <2>1. thread' \in [Thread -> ThreadState] /\ HandlerAtHand'
      BY <1>2, GoesTyped, ThreadStates DEF RefuseHandler, FinishAdding, Idle
    <2> QED
      BY <1>2, <2>1 DEF RefuseHandler, FinishAdding, MutexReleased
  <1>3. ASSUME NEW t \in Thread, AddHandler(t)
        PROVE  Typed' /\ HandlerAtHand'
    <2> DEFINE h == thread[t].handler
    <2>1. h \in Handler
      BY <1>3 DEF AddHandler, FinishAdding, HandlerAtHand
    <2>2. thread' \in [Thread -> ThreadState] /\ HandlerAtHand'
      BY <1>3, GoesTyped, ThreadStates DEF AddHandler, FinishAdding, Idle
    <2>3. configuration' \in [CapabilityTag -> Handler \cup {None}]
      BY <1>3, <2>1 DEF AddHandler
    <2>4. Cardinality(RulesOf[h]) \in Int
      BY <2>1, RulesAreCounted
    <2>5. referenceCount' \in [Handler -> Int]
      BY <1>3, <2>1, <2>4 DEF AddHandler
    <2>6. lastWord' \in [Handler -> {"nothing", "added", "called", "deregistered"}]
      BY <1>3, <2>1, HearsTyped DEF AddHandler
    <2> QED
      BY <1>3, <2>2, <2>3, <2>5, <2>6 DEF AddHandler, FinishAdding, MutexReleased
  <1>4. ASSUME NEW t \in Thread, NEW h \in Handler, RemoveHandler(t, h)
        PROVE  Typed' /\ HandlerAtHand'
    <2>1. Busy("notifying", h) \in ThreadState
      BY <1>0, ThreadStates
    <2>2. thread' \in [Thread -> ThreadState] /\ HandlerAtHand'
      BY <1>4, <2>1, GoesTyped, BusyFields DEF RemoveHandler
    <2>3. configuration' \in [CapabilityTag -> Handler \cup {None}]
      BY <1>4 DEF RemoveHandler, Without
    <2>4. referenceCount' \in [Handler -> Int]
      BY <1>4, CountWithoutTyped DEF RemoveHandler
    <2> QED
      BY <1>4, <2>2, <2>3, <2>4 DEF RemoveHandler
  <1>5. ASSUME NEW t \in Thread, NotifyHandler(t)
        PROVE  Typed' /\ HandlerAtHand'
    <2>1. thread[t].handler \in Handler
      BY <1>5 DEF NotifyHandler, HandlerAtHand
    <2>2. thread' \in [Thread -> ThreadState] /\ HandlerAtHand'
      BY <1>5, GoesTyped, ThreadStates DEF NotifyHandler, Idle
    <2>3. lastWord' \in [Handler -> {"nothing", "added", "called", "deregistered"}]
      BY <1>5, <2>1, HearsTyped DEF NotifyHandler
    <2> QED
      BY <1>5, <2>2, <2>3 DEF NotifyHandler
  <1>6. ASSUME NEW t \in Thread, NEW target \in Target, StartCall(t, target)
        PROVE  Typed' /\ HandlerAtHand'
    <2>1. PICK rule \in CapabilityTag :
            /\ IsFirstMatch(rule, Configured, target)
            /\ referenceCount' = Counted(configuration[rule])
            /\ Goes(t, Busy("scoped", configuration[rule]))
      BY <1>6 DEF StartCall
    <2>2. configuration[rule] \in Handler
      BY <2>1 DEF IsFirstMatch, Configured
    <2>3. Busy("scoped", configuration[rule]) \in ThreadState
      BY <1>0, <2>2, ThreadStates
    <2>4. thread' \in [Thread -> ThreadState] /\ HandlerAtHand'
      BY <2>1, <2>2, <2>3, GoesTyped, BusyFields
    <2>5. referenceCount' \in [Handler -> Int]
      BY <2>1, <2>2 DEF Counted
    <2> QED
      BY <1>6, <2>4, <2>5 DEF StartCall
  <1>7. ASSUME NEW t \in Thread, EnterHandler(t)
        PROVE  Typed' /\ HandlerAtHand'
    <2> DEFINE to == [thread[t] EXCEPT !.stage = "calling"]
    <2>1. thread[t] \in ThreadState /\ thread[t].handler \in Handler
      BY <1>7 DEF EnterHandler, HandlerAtHand
    <2>2. to \in ThreadState
      BY <1>0, <2>1, ThreadStates
    <2>3. to.handler \in Handler
      BY <2>1 DEF ThreadState
    <2>4. thread' \in [Thread -> ThreadState] /\ HandlerAtHand'
      <3>1. Goes(t, to)
        BY <1>7 DEF EnterHandler
      <3> HIDE DEF to
      <3> QED
        BY <2>2, <2>3, <3>1, GoesTyped
    <2>5. lastWord' \in [Handler -> {"nothing", "added", "called", "deregistered"}]
      BY <1>7, <2>1, HearsTyped DEF EnterHandler
    <2> QED
      BY <1>7, <2>4, <2>5 DEF EnterHandler
  <1>8. ASSUME NEW t \in Thread, EndCall(t)
        PROVE  Typed' /\ HandlerAtHand'
    <2> DEFINE h == thread[t].handler
    <2>1. h \in Handler
      BY <1>8 DEF EndCall, HandlerAtHand
    <2>2. AfterCall(h) \in {Idle, Busy("notifying", h)}
      BY DEF AfterCall
    <2>3. /\ AfterCall(h) \in ThreadState
          /\ AfterCall(h).stage = "notifying" => AfterCall(h).handler \in Handler
          /\ AfterCall(h).stage \in {"idle", "notifying"}
      BY <1>0, <2>1, <2>2, ThreadStates, BusyFields DEF Idle
    <2>4. Goes(t, AfterCall(h))
      BY <1>8 DEF EndCall
    <2>5. thread' \in [Thread -> ThreadState] /\ HandlerAtHand'
      BY <2>3, <2>4, GoesTyped
    <2> QED
      BY <1>8, <2>1, <2>5 DEF EndCall
  <1>9. ASSUME NEW t \in Thread, BeginShutdown(t)
        PROVE  Typed' /\ HandlerAtHand'
    <2>1. Busy("stopping", None) \in ThreadState
      BY <1>0, ThreadStates
    <2> QED
      BY <1>9, <2>1, GoesTyped, BusyFields DEF BeginShutdown
  <1>10. ASSUME NEW t \in Thread, ReleaseHandlers(t)
         PROVE  Typed' /\ HandlerAtHand'
    <2> DEFINE hs == {h \in Registered : MayBeRemoved(h)}
    <2>1. hs \in SUBSET Handler
      BY DEF Registered
    <2>2. PICK released \in SetToSeqs(hs) :
            Goes(t, [stage |-> "releasing", handler |-> None, released |-> released])
      BY <1>10 DEF ReleaseHandlers
    <2>3. released \in Seq(Handler)
      BY <2>1, RegisteredIsFinite, ListingIsSequence, SeqMonotonic
    <2>4. thread' \in [Thread -> ThreadState] /\ HandlerAtHand'
      <3> DEFINE to == [stage |-> "releasing", handler |-> None, released |-> released]
      <3>1. to \in ThreadState
        BY <1>0, <2>3 DEF ThreadState
      <3>2. to.stage = "releasing"
        OBVIOUS
      <3> HIDE DEF to
      <3> QED
        BY <2>2, <3>1, <3>2, GoesTyped DEF to
    <2>5. referenceCount' \in [Handler -> Int]
      BY <1>10, CountWithoutTyped DEF ReleaseHandlers
    <2>6. configuration' \in [CapabilityTag -> Handler \cup {None}]
      BY <1>10 DEF ReleaseHandlers
    <2> QED
      BY <1>10, <2>4, <2>5, <2>6 DEF ReleaseHandlers
  <1>11. ASSUME NEW t \in Thread, NotifyReleased(t)
         PROVE  Typed' /\ HandlerAtHand'
    <2> DEFINE q == thread[t].released
               to == [thread[t] EXCEPT !.released = Tail(@)]
    <2>1. q \in Seq(Handler) /\ q # <<>>
      BY <1>11 DEF NotifyReleased, ThreadState
    <2>2. Head(q) \in Handler /\ Tail(q) \in Seq(Handler)
      BY <2>1, HeadTailProperties
    <2>3. thread[t] \in ThreadState
      OBVIOUS
    <2>4. to \in ThreadState
      BY <2>2, <2>3, ThreadStates
    <2>5. to.stage = "releasing"
      BY <1>11, <2>3 DEF NotifyReleased, ThreadState
    <2>6. thread' \in [Thread -> ThreadState] /\ HandlerAtHand'
      <3>1. Goes(t, to)
        BY <1>11 DEF NotifyReleased
      <3> HIDE DEF to
      <3> QED
        BY <2>4, <2>5, <3>1, GoesTyped
    <2>7. lastWord' \in [Handler -> {"nothing", "added", "called", "deregistered"}]
      BY <1>11, <2>2, HearsTyped DEF NotifyReleased
    <2> QED
      BY <1>11, <2>6, <2>7 DEF NotifyReleased
  <1>12. ASSUME NEW t \in Thread, EndShutdown(t)
         PROVE  Typed' /\ HandlerAtHand'
    BY <1>12, GoesTyped, ThreadStates DEF EndShutdown, Idle
  <1>13. CASE UNCHANGED vars
    BY <1>13 DEF vars, HandlerAtHand
  <1> QED
    BY <1>1, <1>2, <1>3, <1>4, <1>5, <1>6, <1>7, <1>8, <1>9, <1>10, <1>11, <1>12, <1>13
    DEF Next, Continue

LEMMA AlwaysTyped == Spec => [](Typed /\ HandlerAtHand)
  BY InitTyped, TypedStep, PTL DEF Spec

-----------------------------------------------------------------------------
(***************************************************************************)
(* What is registered.  Configured rules are valid, a handler has all of   *)
(* its rules or none, and only one thread is in shutdown(): it holds       *)
(* RequiresShutdown's mutex, so that nobody passes isShutdown() meanwhile.  *)
(***************************************************************************)
ShuttingDown == {t \in Thread : thread[t].stage \in {"stopping", "releasing"}}

ShutdownIsExclusive ==
    /\ \A t \in ShuttingDown : shutdownMutex = t
    /\ shutdownMutex # None => shutdownMutex \in ShuttingDown

RulesAreValid == Configured \subseteq Rule

RulesInv ==
    /\ ShutdownIsExclusive
    /\ RulesAreValid
    /\ AllRulesOrNone
    /\ NothingAddedAfterShutdown

LEMMA InitRules == Init => RulesInv
  <1> SUFFICES ASSUME Init PROVE RulesInv
    OBVIOUS
  <1>1. ShuttingDown = {} /\ \A t \in Thread : thread[t].stage = "idle"
    BY DEF Init, ShuttingDown, Idle
  <1>2. Configured = {} /\ Registered = {}
    BY RouterAssumption DEF Init, Configured, Registered, RulesMappedTo
  <1> QED
    BY <1>1, <1>2 DEF Init, RulesInv, ShutdownIsExclusive, RulesAreValid, AllRulesOrNone,
                      NothingAddedAfterShutdown

\* A step of a thread that is not in shutdown(), and does not enter it.
LEMMA OrdinaryStep ==
    ASSUME Typed, ShutdownIsExclusive, NEW t \in Thread, NEW to, Goes(t, to),
           thread[t].stage \notin {"stopping", "releasing"},
           to.stage \notin {"stopping", "releasing"},
           UNCHANGED <<shutdownMutex, isShutdown>>
    PROVE  /\ ShutdownIsExclusive'
           /\ \A u \in Thread : thread'[u].stage = "releasing" => thread[u].stage = "releasing"
  <1>1. \A u \in Thread : u # t => thread'[u] = thread[u]
    BY DEF Goes, Typed
  <1>2. thread'[t] = to
    BY DEF Goes, Typed
  <1>3. ShuttingDown' = ShuttingDown
    BY <1>1, <1>2 DEF ShuttingDown
  <1> QED
    BY <1>1, <1>2, <1>3 DEF ShutdownIsExclusive

\* Taking a handler's rules out leaves the other handlers theirs.
LEMMA RulesWithout ==
    ASSUME Typed, AllRulesOrNone, NEW h \in Handler, MayBeRemoved(h),
           configuration' = Without({h})
    PROVE  /\ RulesMappedTo(h)' = {}
           /\ \A other \in Handler \ {h} : RulesMappedTo(other)' = RulesMappedTo(other)
           /\ RulesMappedTo(h) = RulesOf[h]
           /\ Configured' \subseteq Configured
  <1>1. \A rule \in CapabilityTag :
            configuration'[rule] = IF rule \in RulesOf[h] THEN None ELSE configuration[rule]
    BY DEF Without
  <1>2. RulesMappedTo(h) = RulesOf[h]
    <2>1. RulesOf[h] \subseteq RulesMappedTo(h)
      BY RulesAreCounted DEF MayBeRemoved, RulesMappedTo
    <2> QED
      BY <2>1 DEF AllRulesOrNone, Registered
  <1>3. None \notin Handler
    BY RouterAssumption
  <1>4. RulesMappedTo(h)' = {}
    BY <1>1, <1>2, <1>3 DEF RulesMappedTo
  <1>5. ASSUME NEW other \in Handler \ {h}
        PROVE  RulesMappedTo(other)' = RulesMappedTo(other)
    BY <1>1, <1>3 DEF RulesMappedTo, MayBeRemoved
  <1>6. Configured' \subseteq Configured
    BY <1>1 DEF Configured
  <1> QED
    BY <1>2, <1>4, <1>5, <1>6

\* Putting a handler's rules in leaves the other handlers theirs.
LEMMA RulesAdded ==
    ASSUME Typed, AllRulesOrNone, NEW t \in Thread, AddHandler(t),
           NEW h \in Handler, h = thread[t].handler
    PROVE  /\ RulesMappedTo(h) = {}
           /\ RulesMappedTo(h)' = RulesOf[h]
           /\ \A other \in Handler \ {h} : RulesMappedTo(other)' = RulesMappedTo(other)
           /\ Configured' \subseteq Configured \cup {rule \in RulesOf[h] : IsValidRule(rule)}
  <1>2. RulesOf[h] \subseteq CapabilityTag
    BY RulesAreCounted
  <1>3. \A rule \in RulesOf[h] : IsValidRule(rule) /\ configuration[rule] = None
    BY DEF AddHandler, MayBeAdded
  <1>4. \A rule \in CapabilityTag :
            configuration'[rule] = IF rule \in RulesOf[h] THEN h ELSE configuration[rule]
    BY DEF AddHandler
  <1>5. None \notin Handler
    BY RouterAssumption
  <1>6. RulesMappedTo(h) = {}
    <2>1. CASE RulesMappedTo(h) # {}
      <3>1. RulesMappedTo(h) = RulesOf[h]
        BY <2>1 DEF AllRulesOrNone, Registered
      <3> QED
        BY <1>3, <1>5, <2>1, <3>1 DEF RulesMappedTo
    <2> QED
      BY <2>1
  <1>7. RulesMappedTo(h)' = RulesOf[h]
    BY <1>2, <1>4, <1>6 DEF RulesMappedTo
  <1>8. \A other \in Handler \ {h} : RulesMappedTo(other)' = RulesMappedTo(other)
    BY <1>3, <1>4, <1>5 DEF RulesMappedTo
  <1>9. Configured' \subseteq Configured \cup {rule \in RulesOf[h] : IsValidRule(rule)}
    BY <1>2, <1>3, <1>4 DEF Configured
  <1> QED
    BY <1>6, <1>7, <1>8, <1>9

\* A step that changes neither the configuration nor who is in shutdown().
LEMMA RulesUndisturbed ==
    ASSUME RulesInv, UNCHANGED <<configuration, isShutdown>>, ShutdownIsExclusive',
           \A u \in Thread : thread'[u].stage = "releasing" => thread[u].stage = "releasing"
    PROVE  RulesInv'
  <1>1. Configured' = Configured /\ Registered' = Registered
        /\ \A h \in Handler : RulesMappedTo(h)' = RulesMappedTo(h)
    BY DEF Configured, Registered, RulesMappedTo
  <1>2. RulesAreValid'
    BY <1>1 DEF RulesInv, RulesAreValid
  <1>3. AllRulesOrNone'
    BY <1>1 DEF RulesInv, AllRulesOrNone, Registered
  <1>4. NothingAddedAfterShutdown'
    BY <1>1 DEF RulesInv, NothingAddedAfterShutdown
  <1> QED
    BY <1>2, <1>3, <1>4 DEF RulesInv

LEMMA RulesStep ==
    ASSUME Typed, HandlerAtHand, RulesInv, [Next]_vars
    PROVE  RulesInv'
  <1> USE DEF RulesInv
  <1>1. ASSUME NEW t \in Thread, NEW h \in Handler, StartAdding(t, h)
        PROVE  RulesInv'
    <2>1. Busy("adding", h).stage = "adding" /\ thread[t].stage = "idle"
      BY <1>1 DEF StartAdding, Busy, Idle
    <2> QED
      BY <1>1, <2>1, OrdinaryStep, RulesUndisturbed DEF StartAdding
  <1>2. ASSUME NEW t \in Thread, RefuseHandler(t)
        PROVE  RulesInv'
    BY <1>2, OrdinaryStep, RulesUndisturbed DEF RefuseHandler, FinishAdding, Idle
  <1>3. ASSUME NEW t \in Thread, AddHandler(t)
        PROVE  RulesInv'
    <2>1. PICK h \in Handler : h = thread[t].handler
      BY <1>3 DEF AddHandler, FinishAdding, HandlerAtHand
    <2>2. /\ RulesMappedTo(h)' = RulesOf[h]
          /\ \A other \in Handler \ {h} : RulesMappedTo(other)' = RulesMappedTo(other)
          /\ Configured' \subseteq Configured \cup {rule \in RulesOf[h] : IsValidRule(rule)}
      BY <1>3, <2>1, RulesAdded
    <2>3. /\ ShutdownIsExclusive'
          /\ \A u \in Thread : thread'[u].stage = "releasing" => thread[u].stage = "releasing"
      BY <1>3, OrdinaryStep DEF AddHandler, FinishAdding, Idle
    <2>4. RulesAreValid'
      BY <2>2, RulesAreCounted DEF RulesAreValid, Rule
    <2>5. AllRulesOrNone'
      BY <2>2 DEF AllRulesOrNone, Registered
    <2>6. ~isShutdown' /\ \A u \in Thread : thread'[u].stage # "releasing"
      <3>1. ~isShutdown /\ isShutdown' = isShutdown /\ shutdownMutex = None
        BY <1>3 DEF AddHandler, FinishAdding, AddIsLate
      <3>2. None \notin Thread
        BY RouterAssumption
      <3> QED
        BY <2>3, <3>1, <3>2 DEF ShutdownIsExclusive, ShuttingDown
    <2>7. NothingAddedAfterShutdown'
      BY <2>6 DEF NothingAddedAfterShutdown
    <2> QED
      BY <2>3, <2>4, <2>5, <2>7
  <1>4. ASSUME NEW t \in Thread, NEW h \in Handler, RemoveHandler(t, h)
        PROVE  RulesInv'
    <2>1. /\ RulesMappedTo(h)' = {}
          /\ \A other \in Handler \ {h} : RulesMappedTo(other)' = RulesMappedTo(other)
          /\ Configured' \subseteq Configured
      BY <1>4, RulesWithout DEF RemoveHandler
    <2>2. /\ ShutdownIsExclusive'
          /\ \A u \in Thread : thread'[u].stage = "releasing" => thread[u].stage = "releasing"
      BY <1>4, OrdinaryStep, BusyFields DEF RemoveHandler, Idle
    <2>3. RulesAreValid'
      BY <2>1 DEF RulesAreValid
    <2>4. AllRulesOrNone' /\ Registered' \subseteq Registered
      BY <2>1 DEF AllRulesOrNone, Registered
    <2>5. NothingAddedAfterShutdown'
      BY <1>4, <2>2, <2>4 DEF NothingAddedAfterShutdown, RemoveHandler
    <2> QED
      BY <2>2, <2>3, <2>4, <2>5
  <1>5. ASSUME NEW t \in Thread, NotifyHandler(t)
        PROVE  RulesInv'
    BY <1>5, OrdinaryStep, RulesUndisturbed DEF NotifyHandler, Idle
  <1>6. ASSUME NEW t \in Thread, NEW target \in Target, StartCall(t, target)
        PROVE  RulesInv'
    BY <1>6, OrdinaryStep, RulesUndisturbed, BusyFields DEF StartCall, Idle
  <1>7. ASSUME NEW t \in Thread, EnterHandler(t)
        PROVE  RulesInv'
    <2>1. [thread[t] EXCEPT !.stage = "calling"].stage = "calling"
      BY DEF Typed, ThreadState
    <2> QED
      BY <1>7, <2>1, OrdinaryStep, RulesUndisturbed DEF EnterHandler
  <1>8. ASSUME NEW t \in Thread, EndCall(t)
        PROVE  RulesInv'
    <2>1. AfterCall(thread[t].handler).stage \in {"idle", "notifying"}
      BY BusyFields DEF AfterCall, Idle
    <2> QED
      BY <1>8, <2>1, OrdinaryStep, RulesUndisturbed DEF EndCall
  <1>9. ASSUME NEW t \in Thread, BeginShutdown(t)
        PROVE  RulesInv'
    <2>1. thread' = [thread EXCEPT ![t] = Busy("stopping", None)] /\ thread[t].stage = "idle"
      BY <1>9 DEF BeginShutdown, Goes, Idle
    <2>2. /\ thread'[t].stage = "stopping"
          /\ \A u \in Thread : u # t => thread'[u] = thread[u]
      BY <2>1, BusyFields DEF Typed
    <2>3. ShuttingDown = {}
      BY <1>9, RouterAssumption DEF BeginShutdown, ShutdownIsExclusive, ShuttingDown
    <2>4. ShuttingDown' = {t}
      BY <2>2, <2>3 DEF ShuttingDown
    <2>5. ShutdownIsExclusive'
      BY <1>9, <2>4 DEF ShutdownIsExclusive, BeginShutdown
    <2> QED
      BY <1>9, <2>2, <2>5, RulesUndisturbed DEF BeginShutdown
  <1>10. ASSUME NEW t \in Thread, ReleaseHandlers(t)
         PROVE  RulesInv'
    <2>1. PICK to : to.stage = "releasing" /\ Goes(t, to)
      BY <1>10 DEF ReleaseHandlers
    <2>2. thread'[t].stage = "releasing" /\ \A u \in Thread : u # t => thread'[u] = thread[u]
      BY <2>1 DEF Goes, Typed
    <2>3. ShuttingDown' = ShuttingDown
      BY <1>10, <2>2 DEF ShuttingDown, ReleaseHandlers
    <2>4. ShutdownIsExclusive'
      BY <1>10, <2>3 DEF ShutdownIsExclusive, ReleaseHandlers
    <2>5. Configured' = {} /\ Registered' = {}
      BY <1>10, RouterAssumption DEF ReleaseHandlers, Configured, Registered, RulesMappedTo
    <2> QED
      BY <2>4, <2>5 DEF RulesAreValid, AllRulesOrNone, NothingAddedAfterShutdown
  <1>11. ASSUME NEW t \in Thread, NotifyReleased(t)
         PROVE  RulesInv'
    <2>1. thread'[t].stage = "releasing" /\ \A u \in Thread : u # t => thread'[u] = thread[u]
      BY <1>11 DEF NotifyReleased, Goes, Typed, ThreadState
    <2>2. ShuttingDown' = ShuttingDown
      BY <1>11, <2>1 DEF ShuttingDown, NotifyReleased
    <2>3. ShutdownIsExclusive'
      BY <1>11, <2>2 DEF ShutdownIsExclusive, NotifyReleased
    <2> QED
      BY <1>11, <2>1, <2>3, RulesUndisturbed DEF NotifyReleased
  <1>12. ASSUME NEW t \in Thread, EndShutdown(t)
         PROVE  RulesInv'
    <2>1. thread'[t].stage = "idle" /\ \A u \in Thread : u # t => thread'[u] = thread[u]
      BY <1>12 DEF EndShutdown, Goes, Typed, Idle
    <2>2. ShuttingDown = {t}
      BY <1>12 DEF ShutdownIsExclusive, ShuttingDown, EndShutdown
    <2>3. ShuttingDown' = {}
      BY <2>1, <2>2 DEF ShuttingDown
    <2>4. ShutdownIsExclusive'
      BY <1>12, <2>3 DEF ShutdownIsExclusive, EndShutdown
    <2>5. Registered = {}
      BY <1>12 DEF NothingAddedAfterShutdown, EndShutdown
    <2>6. /\ Configured' = Configured /\ Registered' = Registered
          /\ \A h \in Handler : RulesMappedTo(h)' = RulesMappedTo(h)
      BY <1>12 DEF EndShutdown, Configured, Registered, RulesMappedTo
    <2> QED
      BY <2>4, <2>5, <2>6 DEF RulesAreValid, AllRulesOrNone, NothingAddedAfterShutdown
  <1>13. CASE UNCHANGED vars
    <2>1. ShutdownIsExclusive'
      BY <1>13 DEF vars, ShutdownIsExclusive, ShuttingDown
    <2> QED
      BY <1>13, <2>1, RulesUndisturbed DEF vars
  <1> QED
    BY <1>1, <1>2, <1>3, <1>4, <1>5, <1>6, <1>7, <1>8, <1>9, <1>10, <1>11, <1>12, <1>13
    DEF Next, Continue

LEMMA AlwaysRules == Spec => []RulesInv
  BY InitRules, RulesStep, AlwaysTyped, PTL DEF Spec

\* Whatever the configurations of the handlers and the order of adding and
\* removing them, a directive is routed by a most specific rule.
THEOREM RoutingIsMostSpecific == Spec => []RoutedByMostSpecific
  <1>1. RulesInv => RoutedByMostSpecific
    BY LookupIsMostSpecific DEF RulesInv, RulesAreValid, RoutedByMostSpecific
  <1> QED
    BY <1>1, AlwaysRules, PTL

\* Handlers are registered with all of their rules or with none.
THEOREM RegistrationIsAllOrNone == Spec => []AllRulesOrNone
  <1>1. RulesInv => AllRulesOrNone
    BY DEF RulesInv
  <1> QED
    BY <1>1, AlwaysRules, PTL

\* No handler is registered once shutdown() has released the handlers.
THEOREM ShutdownIsFinal == Spec => []NothingAddedAfterShutdown
  <1>1. RulesInv => NothingAddedAfterShutdown
    BY DEF RulesInv
  <1> QED
    BY <1>1, AlwaysRules, PTL

-----------------------------------------------------------------------------
(***************************************************************************)
(* The reference counts.                                                   *)
(***************************************************************************)
Calls(state, h) == state.stage \in {"scoped", "calling"} /\ state.handler = h

LEMMA CallersAreCounted ==
    \A h \in Handler : /\ IsFiniteSet(Callers(h))
                       /\ Cardinality(Callers(h)) \in Nat
                       /\ Cardinality(Callers(h)) = 0 <=> Callers(h) = {}
  <1>1. ASSUME NEW h \in Handler
        PROVE  IsFiniteSet(Callers(h))
    <2>1. Callers(h) \in SUBSET Thread
      BY DEF Callers
    <2> QED
      BY <2>1, RouterAssumption, FS_Subset
  <1> QED
    BY <1>1, FS_CardinalityType, FS_EmptySet

LEMMA NothingCountsZero == Cardinality({}) = 0
  BY FS_EmptySet

LEMMA MappedAreCounted ==
    ASSUME AllRulesOrNone, NEW h \in Handler
    PROVE  Cardinality(RulesMappedTo(h)) \in Nat
  <1>1. CASE RulesMappedTo(h) = {}
    BY <1>1, NothingCountsZero
  <1>2. CASE RulesMappedTo(h) # {}
    BY <1>2, RulesAreCounted DEF AllRulesOrNone, Registered
  <1> QED
    BY <1>1, <1>2

\* Only the thread that moves enters or leaves the callers of a handler.
LEMMA CallersStep ==
    ASSUME Typed, NEW t \in Thread, NEW to, Goes(t, to), NEW h \in Handler
    PROVE  Callers(h)' = IF Calls(to, h) THEN Callers(h) \cup {t} ELSE Callers(h) \ {t}
  <1>1. thread'[t] = to /\ \A u \in Thread : u # t => thread'[u] = thread[u]
    BY DEF Goes, Typed
  <1> QED
    BY <1>1 DEF Callers, Calls

LEMMA CallersSame ==
    ASSUME Typed, NEW t \in Thread, NEW to, Goes(t, to),
           thread[t].stage \notin {"scoped", "calling"}, to.stage \notin {"scoped", "calling"}
    PROVE  \A h \in Handler : Callers(h)' = Callers(h)
  BY CallersStep DEF Calls, Callers

LEMMA CountUndisturbed ==
    ASSUME CountIsUse, UNCHANGED <<configuration, referenceCount>>,
           \A h \in Handler : Callers(h)' = Callers(h)
    PROVE  CountIsUse'
  <1>1. \A h \in Handler : RulesMappedTo(h)' = RulesMappedTo(h)
    BY DEF RulesMappedTo
  <1> QED
    BY <1>1 DEF CountIsUse

LEMMA InitCount == Init => CountIsUse
  <1> SUFFICES ASSUME Init, NEW h \in Handler
               PROVE  referenceCount[h] = Cardinality(RulesMappedTo(h)) + Cardinality(Callers(h))
    BY DEF CountIsUse
  <1>1. RulesMappedTo(h) = {}
    BY RouterAssumption DEF Init, RulesMappedTo
  <1>2. Callers(h) = {}
    BY DEF Init, Callers, Idle
  <1> QED
    BY <1>1, <1>2, NothingCountsZero DEF Init

LEMMA CountStep ==
    ASSUME Typed, HandlerAtHand, RulesInv, CountIsUse, [Next]_vars
    PROVE  CountIsUse'
  <1>0. \A h \in Handler :
            /\ referenceCount[h] = Cardinality(RulesMappedTo(h)) + Cardinality(Callers(h))
            /\ referenceCount[h] \in Int
            /\ Cardinality(Callers(h)) \in Nat
            /\ Cardinality(RulesOf[h]) \in Nat
    BY CallersAreCounted, RulesAreCounted DEF CountIsUse, Typed
  <1>1. ASSUME NEW t \in Thread, NEW h \in Handler, StartAdding(t, h)
        PROVE  CountIsUse'
    BY <1>1, CallersSame, CountUndisturbed, BusyFields DEF StartAdding, Idle
  <1>2. ASSUME NEW t \in Thread, RefuseHandler(t)
        PROVE  CountIsUse'
    BY <1>2, CallersSame, CountUndisturbed DEF RefuseHandler, FinishAdding, Idle
  <1>3. ASSUME NEW t \in Thread, AddHandler(t)
        PROVE  CountIsUse'
    <2>1. PICK h \in Handler : h = thread[t].handler
      BY <1>3 DEF AddHandler, FinishAdding, HandlerAtHand
    <2>2. /\ RulesMappedTo(h) = {} /\ RulesMappedTo(h)' = RulesOf[h]
          /\ \A other \in Handler \ {h} : RulesMappedTo(other)' = RulesMappedTo(other)
      BY <1>3, <2>1, RulesAdded DEF RulesInv
    <2>3. \A any \in Handler : Callers(any)' = Callers(any)
      BY <1>3, CallersSame DEF AddHandler, FinishAdding, Idle
    <2>4. referenceCount' = [referenceCount EXCEPT ![h] = @ + Cardinality(RulesOf[h])]
      BY <1>3, <2>1 DEF AddHandler
    <2>5. referenceCount[h] = Cardinality(Callers(h))
      BY <1>0, <2>2, NothingCountsZero
    <2>6. referenceCount'[h] = Cardinality(RulesMappedTo(h)') + Cardinality(Callers(h)')
      BY <1>0, <2>2, <2>3, <2>4, <2>5 DEF Typed
    <2>7. ASSUME NEW other \in Handler \ {h}
          PROVE  referenceCount'[other] =
                     Cardinality(RulesMappedTo(other)') + Cardinality(Callers(other)')
      BY <1>0, <2>2, <2>3, <2>4 DEF Typed
    <2> QED
      BY <2>6, <2>7 DEF CountIsUse
  <1>4. ASSUME NEW t \in Thread, NEW h \in Handler, RemoveHandler(t, h)
        PROVE  CountIsUse'
    <2>1. /\ RulesMappedTo(h)' = {} /\ RulesMappedTo(h) = RulesOf[h]
          /\ \A other \in Handler \ {h} : RulesMappedTo(other)' = RulesMappedTo(other)
      BY <1>4, RulesWithout DEF RemoveHandler, RulesInv
    <2>2. \A any \in Handler : Callers(any)' = Callers(any)
      BY <1>4, CallersSame, BusyFields DEF RemoveHandler, Idle
    <2>3. /\ referenceCount'[h] = referenceCount[h] - Cardinality(RulesOf[h])
          /\ \A other \in Handler \ {h} : referenceCount'[other] = referenceCount[other]
      BY <1>0, <1>4 DEF RemoveHandler, CountWithout
    <2>4. referenceCount'[h] = Cardinality(RulesMappedTo(h)') + Cardinality(Callers(h)')
      BY <1>0, <2>1, <2>2, <2>3, NothingCountsZero
    <2>5. ASSUME NEW other \in Handler \ {h}
          PROVE  referenceCount'[other] =
                     Cardinality(RulesMappedTo(other)') + Cardinality(Callers(other)')
      BY <1>0, <2>1, <2>2, <2>3
    <2> QED
      BY <2>4, <2>5 DEF CountIsUse
  <1>5. ASSUME NEW t \in Thread, NotifyHandler(t)
        PROVE  CountIsUse'
    BY <1>5, CallersSame, CountUndisturbed DEF NotifyHandler, Idle
  <1>6. ASSUME NEW t \in Thread, NEW target \in Target, StartCall(t, target)
        PROVE  CountIsUse'
    <2>1. PICK h \in Handler : /\ referenceCount' = Counted(h)
                               /\ Goes(t, Busy("scoped", h))
                               /\ thread[t] = Idle
      BY <1>6 DEF StartCall, IsFirstMatch, Configured, Typed
    <2>2. t \notin Callers(h) /\ Callers(h)' = Callers(h) \cup {t}
      BY <2>1, CallersStep, BusyFields DEF Calls, Callers, Idle
    <2>3. \A other \in Handler \ {h} : Callers(other)' = Callers(other)
      BY <2>1, CallersStep, BusyFields DEF Calls, Callers, Idle
    <2>4. Cardinality(Callers(h)') = Cardinality(Callers(h)) + 1
      BY <2>2, CallersAreCounted, FS_AddElement
    <2>5. \A any \in Handler : RulesMappedTo(any)' = RulesMappedTo(any)
      BY <1>6 DEF StartCall, RulesMappedTo
    <2>6. /\ referenceCount'[h] = referenceCount[h] + 1
          /\ \A other \in Handler \ {h} : referenceCount'[other] = referenceCount[other]
      BY <2>1 DEF Counted, Typed
    <2>7. referenceCount'[h] = Cardinality(RulesMappedTo(h)') + Cardinality(Callers(h)')
      <3> DEFINE n == Cardinality(RulesMappedTo(h))
                 k == Cardinality(Callers(h))
                 c == referenceCount[h]
      <3>1. n \in Nat
        BY MappedAreCounted DEF RulesInv
      <3>2. c = n + k /\ k \in Nat
        BY <1>0
      <3>3. c + 1 = n + (k + 1)
        <4> HIDE DEF n, k, c
        <4> QED
          BY <3>1, <3>2
      <3> QED
        BY <2>4, <2>5, <2>6, <3>3
    <2>8. ASSUME NEW other \in Handler \ {h}
          PROVE  referenceCount'[other] =
                     Cardinality(RulesMappedTo(other)') + Cardinality(Callers(other)')
      BY <1>0, <2>3, <2>5, <2>6
    <2> QED
      BY <2>7, <2>8 DEF CountIsUse
  <1>7. ASSUME NEW t \in Thread, EnterHandler(t)
        PROVE  CountIsUse'
    <2> DEFINE to == [thread[t] EXCEPT !.stage = "calling"]
    <2>1. to.stage = "calling" /\ to.handler = thread[t].handler
      BY DEF Typed, ThreadState
    <2>2. Goes(t, to) /\ thread[t].stage = "scoped"
      BY <1>7 DEF EnterHandler
    <2> HIDE DEF to
    <2>3. \A h \in Handler : Callers(h)' = Callers(h)
      BY <2>1, <2>2, CallersStep DEF Calls, Callers
    <2> QED
      BY <1>7, <2>3, CountUndisturbed DEF EnterHandler
  <1>8. ASSUME NEW t \in Thread, EndCall(t)
        PROVE  CountIsUse'
    <2>1. PICK h \in Handler : h = thread[t].handler
      BY <1>8 DEF EndCall, HandlerAtHand
    <2>2. /\ thread[t].stage = "calling"
          /\ referenceCount' = [referenceCount EXCEPT ![h] = @ - 1]
          /\ Goes(t, AfterCall(h))
      BY <1>8, <2>1 DEF EndCall
    <2>3. \A any \in Handler : ~Calls(AfterCall(h), any)
      BY BusyFields DEF Calls, AfterCall, Idle
    <2>4. t \in Callers(h) /\ Callers(h)' = Callers(h) \ {t}
      BY <2>1, <2>2, <2>3, CallersStep DEF Callers
    <2>5. \A other \in Handler \ {h} : Callers(other)' = Callers(other)
      BY <2>1, <2>2, <2>3, CallersStep DEF Callers
    <2>6. Cardinality(Callers(h)') = Cardinality(Callers(h)) - 1
      BY <2>4, CallersAreCounted, FS_RemoveElement
    <2>7. \A any \in Handler : RulesMappedTo(any)' = RulesMappedTo(any)
      BY <1>8 DEF EndCall, RulesMappedTo
    <2>8. /\ referenceCount'[h] = referenceCount[h] - 1
          /\ \A other \in Handler \ {h} : referenceCount'[other] = referenceCount[other]
      BY <2>2 DEF Typed
    <2>9. referenceCount'[h] = Cardinality(RulesMappedTo(h)') + Cardinality(Callers(h)')
      <3> DEFINE n == Cardinality(RulesMappedTo(h))
                 k == Cardinality(Callers(h))
                 c == referenceCount[h]
      <3>1. n \in Nat
        BY MappedAreCounted DEF RulesInv
      <3>2. c = n + k /\ k \in Nat
        BY <1>0
      <3>3. c - 1 = n + (k - 1)
        <4> HIDE DEF n, k, c
        <4> QED
          BY <3>1, <3>2
      <3> QED
        BY <2>6, <2>7, <2>8, <3>3
    <2>10. ASSUME NEW other \in Handler \ {h}
           PROVE  referenceCount'[other] =
                      Cardinality(RulesMappedTo(other)') + Cardinality(Callers(other)')
      BY <1>0, <2>5, <2>7, <2>8
    <2> QED
      BY <2>9, <2>10 DEF CountIsUse
  <1>9. ASSUME NEW t \in Thread, BeginShutdown(t)
        PROVE  CountIsUse'
    BY <1>9, CallersSame, CountUndisturbed, BusyFields DEF BeginShutdown, Idle
  <1>10. ASSUME NEW t \in Thread, ReleaseHandlers(t)
         PROVE  CountIsUse'
    <2> DEFINE hs == {h \in Registered : MayBeRemoved(h)}
    <2>1. PICK to : to.stage = "releasing" /\ Goes(t, to)
      BY <1>10 DEF ReleaseHandlers
    <2>2. \A h \in Handler : Callers(h)' = Callers(h)
      BY <1>10, <2>1, CallersSame DEF ReleaseHandlers
    <2>3. \A h \in Handler : RulesMappedTo(h)' = {}
      BY <1>10, RouterAssumption DEF ReleaseHandlers, RulesMappedTo
    <2>4. ASSUME NEW h \in Handler
          PROVE  referenceCount'[h] = Cardinality(RulesMappedTo(h)') + Cardinality(Callers(h)')
      <3>1. referenceCount'[h] =
                referenceCount[h] - (IF h \in hs THEN Cardinality(RulesOf[h]) ELSE 0)
        BY <1>10 DEF ReleaseHandlers, CountWithout
      <3>2. CASE h \in Registered
        <4>1. RulesMappedTo(h) = RulesOf[h]
          BY <3>2 DEF RulesInv, AllRulesOrNone
        <4>2. h \in hs
          BY <3>2, <4>1 DEF MayBeRemoved, RulesMappedTo
        <4> QED
          <5>1. referenceCount'[h] = referenceCount[h] - Cardinality(RulesOf[h])
            BY <3>1, <4>2
          <5>2. Cardinality(RulesMappedTo(h)') = 0
            BY <2>3, NothingCountsZero
          <5>3. referenceCount'[h] = Cardinality(Callers(h))
            BY <1>0, <4>1, <5>1
          <5> QED
            BY <1>0, <2>2, <5>2, <5>3
      <3>3. CASE h \notin Registered
        <4>1. RulesMappedTo(h) = {}
          BY <3>3 DEF Registered
        <4> QED
          <5>1. h \notin hs
            BY <3>3
          <5>2. referenceCount'[h] = referenceCount[h]
            BY <1>0, <3>1, <5>1
          <5>3. RulesMappedTo(h)' = RulesMappedTo(h)
            BY <2>3, <4>1
          <5> QED
            BY <1>0, <2>2, <5>2, <5>3
      <3> QED
        BY <3>2, <3>3
    <2> QED
      BY <2>4 DEF CountIsUse
  <1>11. ASSUME NEW t \in Thread, NotifyReleased(t)
         PROVE  CountIsUse'
    <2>1. [thread[t] EXCEPT !.released = Tail(@)].stage = "releasing"
      BY <1>11 DEF NotifyReleased, Typed, ThreadState
    <2> QED
      BY <1>11, <2>1, CallersSame, CountUndisturbed DEF NotifyReleased
  <1>12. ASSUME NEW t \in Thread, EndShutdown(t)
         PROVE  CountIsUse'
    BY <1>12, CallersSame, CountUndisturbed DEF EndShutdown, Idle
  <1>13. CASE UNCHANGED vars
    BY <1>13, CountUndisturbed DEF vars, Callers
  <1> QED
    BY <1>1, <1>2, <1>3, <1>4, <1>5, <1>6, <1>7, <1>8, <1>9, <1>10, <1>11, <1>12, <1>13
    DEF Next, Continue

\* The reference count of a handler is the number of its rules and of the calls
\* in progress, for any number of threads.
THEOREM CountsAreUses == Spec => []CountIsUse
  BY InitCount, CountStep, AlwaysTyped, AlwaysRules, PTL DEF Spec

\* The variables keep their types; the counts, in particular, never go below 0.
THEOREM TypeCorrect == Spec => []TypeOK
  <1>1. Typed /\ RulesInv /\ CountIsUse => TypeOK
    <2> SUFFICES ASSUME Typed, RulesInv, CountIsUse PROVE TypeOK
      OBVIOUS
    <2>1. ASSUME NEW h \in Handler
          PROVE  referenceCount[h] \in Nat
      BY MappedAreCounted, CallersAreCounted DEF RulesInv, CountIsUse
    <2>2. referenceCount \in [Handler -> Nat]
      BY <2>1 DEF Typed
    <2> QED
      BY <2>2 DEF Typed, TypeOK, ThreadState, Stage
  <1> QED
    BY <1>1, AlwaysTyped, AlwaysRules, CountsAreUses, PTL

-----------------------------------------------------------------------------
(***************************************************************************)
(* The last word.  Whatever takes the last reference of a handler away     *)
(* leaves a thread that is about to notify it.                             *)
(***************************************************************************)
ReleasedInv ==
    \A t \in Thread : thread[t].stage # "releasing" => thread[t].released = <<>>

Reported(h) ==
    referenceCount[h] = 0 =>
        \/ lastWord[h] \in {"nothing", "deregistered"}
        \/ \E t \in Thread : Notifies(t, h)

LEMMA ReleasedStep ==
    ASSUME Typed, ReleasedInv, [Next]_vars
    PROVE  ReleasedInv'
  <1>1. ASSUME NEW t \in Thread, NEW to, Goes(t, to),
               to.stage # "releasing" => to.released = <<>>
        PROVE  ReleasedInv'
    <2>1. thread'[t] = to /\ \A u \in Thread : u # t => thread'[u] = thread[u]
      BY <1>1 DEF Goes, Typed
    <2> QED
      BY <1>1, <2>1 DEF ReleasedInv
  <1>2. Idle.released = <<>> /\ \A stage, h : Busy(stage, h).released = <<>>
    BY DEF Idle, Busy
  <1>3. ASSUME NEW t \in Thread, NEW h \in Handler, StartAdding(t, h) \/ RemoveHandler(t, h)
        PROVE  ReleasedInv'
    BY <1>1, <1>2, <1>3 DEF StartAdding, RemoveHandler
  <1>4. ASSUME NEW t \in Thread, NEW target \in Target, StartCall(t, target)
        PROVE  ReleasedInv'
    BY <1>1, <1>2, <1>4 DEF StartCall
  <1>5. ASSUME NEW t \in Thread, RefuseHandler(t) \/ AddHandler(t)
        PROVE  ReleasedInv'
    BY <1>1, <1>2, <1>5 DEF RefuseHandler, AddHandler, FinishAdding
  <1>6. ASSUME NEW t \in Thread, NotifyHandler(t) \/ EndShutdown(t) \/ BeginShutdown(t)
        PROVE  ReleasedInv'
    BY <1>1, <1>2, <1>6 DEF NotifyHandler, EndShutdown, BeginShutdown
  <1>7. ASSUME NEW t \in Thread, EnterHandler(t)
        PROVE  ReleasedInv'
    <2> DEFINE to == [thread[t] EXCEPT !.stage = "calling"]
    <2>1. to.released = <<>>
      BY <1>7 DEF EnterHandler, ReleasedInv, Typed, ThreadState
    <2>2. Goes(t, to)
      BY <1>7 DEF EnterHandler
    <2> HIDE DEF to
    <2> QED
      BY <1>1, <2>1, <2>2
  <1>8. ASSUME NEW t \in Thread, EndCall(t)
        PROVE  ReleasedInv'
    <2>1. \A h : AfterCall(h).released = <<>>
      BY <1>2 DEF AfterCall
    <2> QED
      BY <1>1, <1>8, <2>1 DEF EndCall
  <1>9. ASSUME NEW t \in Thread, ReleaseHandlers(t)
        PROVE  ReleasedInv'
    <2>1. PICK to : to.stage = "releasing" /\ Goes(t, to)
      BY <1>9 DEF ReleaseHandlers
    <2> QED
      BY <1>1, <2>1
  <1>10. ASSUME NEW t \in Thread, NotifyReleased(t)
         PROVE  ReleasedInv'
    <2> DEFINE to == [thread[t] EXCEPT !.released = Tail(@)]
    <2>1. to.stage = "releasing"
      BY <1>10 DEF NotifyReleased, Typed, ThreadState
    <2>2. Goes(t, to)
      BY <1>10 DEF NotifyReleased
    <2> HIDE DEF to
    <2> QED
      BY <1>1, <2>1, <2>2
  <1>11. CASE UNCHANGED vars
    BY <1>11 DEF vars, ReleasedInv
  <1> QED
    BY <1>3, <1>4, <1>5, <1>6, <1>7, <1>8, <1>9, <1>10, <1>11 DEF Next, Continue

\* A step that is not about handler h.
LEMMA QuietStep ==
    ASSUME Typed, NEW t \in Thread, NEW to, Goes(t, to), NEW h \in Handler,
           ~Notifies(t, h), Reported(h),
           lastWord'[h] = lastWord[h], referenceCount'[h] = referenceCount[h]
    PROVE  Reported(h)'
  <1>1. \A u \in Thread : u # t => thread'[u] = thread[u]
    BY DEF Goes, Typed
  <1>2. \A u \in Thread : Notifies(u, h) => Notifies(u, h)'
    BY <1>1 DEF Notifies
  <1> QED
    BY <1>2 DEF Reported

LEMMA NotNotifying ==
    ASSUME ReleasedInv, NEW t \in Thread, NEW h \in Handler,
           thread[t].stage \notin {"notifying", "releasing"}
    PROVE  ~Notifies(t, h)
  <1>1. thread[t].released = <<>>
    BY DEF ReleasedInv
  <1>2. Range(<<>>) = {}
    BY DEF Range
  <1> QED
    BY <1>1, <1>2 DEF Notifies

LEMMA ReportedStep ==
    ASSUME \A h \in Handler : RulesOf[h] # {},
           Typed, HandlerAtHand, RulesInv, TypeOK, CountIsUse, ReleasedInv, [Next]_vars,
           NEW h \in Handler, Reported(h)
    PROVE  Reported(h)'
  <1>0. referenceCount[h] \in Nat
    BY DEF TypeOK
  <1>1. ASSUME NEW t \in Thread, NEW g \in Handler, StartAdding(t, g)
        PROVE  Reported(h)'
    BY <1>1, QuietStep, NotNotifying DEF StartAdding, Idle
  <1>2. ASSUME NEW t \in Thread, RefuseHandler(t)
        PROVE  Reported(h)'
    BY <1>2, QuietStep, NotNotifying DEF RefuseHandler, FinishAdding
  <1>3. ASSUME NEW t \in Thread, AddHandler(t)
        PROVE  Reported(h)'
    <2>1. CASE h = thread[t].handler
      <3>1. referenceCount'[h] = referenceCount[h] + Cardinality(RulesOf[h])
        BY <1>3, <2>1 DEF AddHandler, Typed
      <3>2. Cardinality(RulesOf[h]) \in Nat \ {0}
        BY RulesAreCounted, RouterAssumption, FS_EmptySet
      <3>3. referenceCount'[h] # 0
        BY <1>0, <3>1, <3>2
      <3> QED
        BY <3>3 DEF Reported
    <2>2. CASE h # thread[t].handler
      <3>1. referenceCount'[h] = referenceCount[h] /\ lastWord'[h] = lastWord[h]
        BY <1>3, <2>2 DEF AddHandler, Hears, Typed
      <3>2. ~Notifies(t, h) /\ Goes(t, Idle)
        BY <1>3, NotNotifying DEF AddHandler, FinishAdding
      <3> QED
        BY <3>1, <3>2, QuietStep
    <2> QED
      BY <2>1, <2>2
  <1>4. ASSUME NEW t \in Thread, NEW g \in Handler, RemoveHandler(t, g)
        PROVE  Reported(h)'
    <2>1. Goes(t, Busy("notifying", g)) /\ thread[t].stage = "idle"
      BY <1>4 DEF RemoveHandler, Idle
    <2>2. CASE h = g
      <3>1. thread'[t].stage = "notifying" /\ thread'[t].handler = h
        BY <2>1, <2>2, BusyFields DEF Goes, Typed
      <3> QED
        BY <3>1 DEF Reported, Notifies
    <2>3. CASE h # g
      <3>1. referenceCount'[h] = referenceCount[h] /\ lastWord'[h] = lastWord[h]
        BY <1>0, <1>4, <2>3 DEF RemoveHandler, CountWithout
      <3> QED
        BY <2>1, <3>1, QuietStep, NotNotifying
    <2> QED
      BY <2>2, <2>3
  <1>5. ASSUME NEW t \in Thread, NotifyHandler(t)
        PROVE  Reported(h)'
    <2>1. CASE h = thread[t].handler
      <3>1. lastWord'[h] = "deregistered"
        BY <1>5, <2>1 DEF NotifyHandler, Hears, Typed
      <3> QED
        BY <3>1 DEF Reported
    <2>2. CASE h # thread[t].handler
      <3>1. referenceCount'[h] = referenceCount[h] /\ lastWord'[h] = lastWord[h]
        BY <1>5, <2>2 DEF NotifyHandler, Hears, Typed
      <3>2. thread[t].released = <<>> /\ Range(<<>>) = {}
        BY <1>5 DEF NotifyHandler, ReleasedInv, Range
      <3>3. ~Notifies(t, h)
        BY <2>2, <3>2 DEF Notifies
      <3>4. Goes(t, Idle)
        BY <1>5 DEF NotifyHandler
      <3> QED
        BY <3>1, <3>3, <3>4, QuietStep
    <2> QED
      BY <2>1, <2>2
  <1>6. ASSUME NEW t \in Thread, NEW target \in Target, StartCall(t, target)
        PROVE  Reported(h)'
    <2>1. PICK g \in Handler : /\ referenceCount' = Counted(g)
                               /\ Goes(t, Busy("scoped", g))
                               /\ thread[t].stage = "idle"
      BY <1>6 DEF StartCall, IsFirstMatch, Configured, Typed, Idle
    <2>2. CASE h = g
      <3>1. referenceCount'[h] = referenceCount[h] + 1
        BY <2>1, <2>2 DEF Counted, Typed
      <3> QED
        BY <1>0, <3>1 DEF Reported
    <2>3. CASE h # g
      <3>1. referenceCount'[h] = referenceCount[h] /\ lastWord'[h] = lastWord[h]
        BY <1>6, <2>1, <2>3 DEF StartCall, Counted, Typed
      <3> QED
        BY <2>1, <3>1, QuietStep, NotNotifying
    <2> QED
      BY <2>2, <2>3
  <1>7. ASSUME NEW t \in Thread, EnterHandler(t)
        PROVE  Reported(h)'
    <2>1. CASE h = thread[t].handler
      <3>1. t \in Callers(h)
        BY <1>7, <2>1 DEF EnterHandler, Callers
      <3>2. Cardinality(Callers(h)) \in Nat \ {0}
        BY <3>1, CallersAreCounted
      <3>3. referenceCount[h] # 0
        BY <3>2, MappedAreCounted DEF CountIsUse, RulesInv
      <3>4. referenceCount'[h] = referenceCount[h]
        BY <1>7 DEF EnterHandler
      <3> QED
        BY <3>3, <3>4 DEF Reported
    <2>2. CASE h # thread[t].handler
      <3>1. referenceCount'[h] = referenceCount[h] /\ lastWord'[h] = lastWord[h]
        BY <1>7, <2>2 DEF EnterHandler, Hears, Typed
      <3> QED
        BY <1>7, <3>1, QuietStep, NotNotifying DEF EnterHandler
    <2> QED
      BY <2>1, <2>2
  <1>8. ASSUME NEW t \in Thread, EndCall(t)
        PROVE  Reported(h)'
    <2>1. Goes(t, AfterCall(thread[t].handler))
      BY <1>8 DEF EndCall
    <2>2. CASE h = thread[t].handler
      <3>1. referenceCount'[h] = referenceCount[h] - 1
        BY <1>8, <2>2 DEF EndCall, Typed
      <3>2. CASE referenceCount[h] = 1
        <4>1. thread'[t] = Busy("notifying", h)
          BY <2>1, <2>2, <3>2 DEF AfterCall, Goes, Typed
        <4> QED
          BY <4>1, BusyFields DEF Reported, Notifies
      <3>3. CASE referenceCount[h] # 1
        <4>1. referenceCount'[h] # 0
          BY <1>0, <3>1, <3>3
        <4> QED
          BY <4>1 DEF Reported
      <3> QED
        BY <3>2, <3>3
    <2>3. CASE h # thread[t].handler
      <3>1. referenceCount'[h] = referenceCount[h] /\ lastWord'[h] = lastWord[h]
        BY <1>8, <2>3 DEF EndCall, Typed
      <3>2. ~Notifies(t, h)
        BY <1>8, NotNotifying DEF EndCall
      <3> QED
        BY <2>1, <3>1, <3>2, QuietStep
    <2> QED
      BY <2>2, <2>3
  <1>9. ASSUME NEW t \in Thread, BeginShutdown(t)
        PROVE  Reported(h)'
    BY <1>9, QuietStep, NotNotifying DEF BeginShutdown, Idle
  <1>10. ASSUME NEW t \in Thread, ReleaseHandlers(t)
         PROVE  Reported(h)'
    <2> DEFINE hs == {g \in Registered : MayBeRemoved(g)}
    <2>1. PICK released \in SetToSeqs(hs) :
            Goes(t, [stage |-> "releasing", handler |-> None, released |-> released])
      BY <1>10 DEF ReleaseHandlers
    <2>2. Range(released) = hs
      <3>1. hs \in SUBSET Handler
        BY DEF Registered
      <3> QED
        BY <3>1, RegisteredIsFinite, ListingIsSequence
    <2>3. CASE h \in hs
      <3>1. thread'[t].released = released
        BY <2>1 DEF Goes, Typed
      <3> QED
        BY <2>2, <2>3, <3>1 DEF Reported, Notifies
    <2>4. CASE h \notin hs
      <3>1. referenceCount'[h] =
                referenceCount[h] - (IF h \in hs THEN Cardinality(RulesOf[h]) ELSE 0)
        BY <1>10 DEF ReleaseHandlers, CountWithout
      <3>2. referenceCount'[h] = referenceCount[h] /\ lastWord'[h] = lastWord[h]
        BY <1>0, <1>10, <2>4, <3>1 DEF ReleaseHandlers
      <3>3. ~Notifies(t, h)
        BY <1>10, NotNotifying DEF ReleaseHandlers
      <3> QED
        BY <2>1, <3>2, <3>3, QuietStep
    <2> QED
      BY <2>3, <2>4
  <1>11. ASSUME NEW t \in Thread, NotifyReleased(t)
         PROVE  Reported(h)'
    <2> DEFINE q == thread[t].released
               to == [thread[t] EXCEPT !.released = Tail(@)]
    <2>1. q \in Seq(Handler) /\ q # <<>>
      BY <1>11 DEF NotifyReleased, Typed, ThreadState
    <2>2. CASE h = Head(q)
      <3>1. lastWord'[h] = "deregistered"
        BY <1>11, <2>2 DEF NotifyReleased, Hears, Typed
      <3> QED
        BY <3>1 DEF Reported
    <2>3. CASE h # Head(q)
      <3>1. referenceCount'[h] = referenceCount[h] /\ lastWord'[h] = lastWord[h]
        BY <1>11, <2>3 DEF NotifyReleased, Hears, Typed
      <3>2. Goes(t, to) /\ thread[t].stage = "releasing"
        BY <1>11 DEF NotifyReleased
      <3>3. CASE h \in Range(q)
        <4>1. PICK i \in 1..Len(q) : q[i] = h
          BY <2>1, <3>3, LenProperties DEF Range
        <4>2. i # 1
          BY <2>1, <2>3, <4>1, HeadTailProperties
        <4>3. i - 1 \in 1..Len(Tail(q)) /\ Tail(q)[i - 1] = h
          <5> HIDE DEF q
          <5>1. /\ Len(q) \in Nat /\ Len(Tail(q)) = Len(q) - 1
                /\ \A k \in 1..Len(Tail(q)) : Tail(q)[k] = q[k + 1]
            BY <2>1, HeadTailProperties, LenProperties
          <5>2. i - 1 \in 1..Len(Tail(q)) /\ (i - 1) + 1 = i
            BY <4>1, <4>2, <5>1
          <5> QED
            BY <4>1, <5>1, <5>2
        <4>4. h \in Range(Tail(q))
          BY <2>1, <4>3, HeadTailProperties, LenProperties DEF Range
        <4>5. thread'[t].released = Tail(q)
          BY <3>2 DEF Goes, Typed, ThreadState
        <4> QED
          BY <4>4, <4>5 DEF Reported, Notifies
      <3>4. CASE h \notin Range(q)
        <4>1. ~Notifies(t, h)
          BY <3>2, <3>4 DEF Notifies
        <4> HIDE DEF to
        <4> QED
          BY <3>1, <3>2, <4>1, QuietStep
      <3> QED
        BY <3>3, <3>4
    <2> QED
      BY <2>2, <2>3
  <1>12. ASSUME NEW t \in Thread, EndShutdown(t)
         PROVE  Reported(h)'
    <2>1. ~Notifies(t, h)
      <3>1. Range(<<>>) = {}
        BY DEF Range
      <3> QED
        BY <1>12, <3>1 DEF EndShutdown, Notifies
    <2> QED
      BY <1>12, <2>1, QuietStep DEF EndShutdown
  <1>13. CASE UNCHANGED vars
    BY <1>13 DEF vars, Reported, Notifies
  <1> QED
    BY <1>1, <1>2, <1>3, <1>4, <1>5, <1>6, <1>7, <1>8, <1>9, <1>10, <1>11, <1>12, <1>13
    DEF Next, Continue

\* A handler that is out of use hears of it after everything else.  A handler
\* with no rules at all is accepted and never heard of again: it is left out.
THEOREM LastWordIsReported ==
    ASSUME \A h \in Handler : RulesOf[h] # {}
    PROVE  Spec => []LastWordIsDeregistered
  <1>1. Init => ReleasedInv /\ LastWordIsDeregistered
    BY DEF Init, ReleasedInv, LastWordIsDeregistered, Idle
  <1>2. Typed /\ ReleasedInv /\ [Next]_vars => ReleasedInv'
    BY ReleasedStep
  <1>3. LastWordIsDeregistered <=> \A h \in Handler : Reported(h)
    BY DEF LastWordIsDeregistered, Reported
  <1>4. /\ Typed /\ HandlerAtHand /\ RulesInv /\ TypeOK /\ CountIsUse /\ ReleasedInv
        /\ LastWordIsDeregistered /\ [Next]_vars
        => LastWordIsDeregistered'
    <2>1. (\A h \in Handler : Reported(h)') => LastWordIsDeregistered'
      BY DEF LastWordIsDeregistered, Reported
    <2> QED
      BY <1>3, <2>1, ReportedStep
  <1> QED
    BY <1>1, <1>2, <1>4, AlwaysTyped, AlwaysRules, TypeCorrect, CountsAreUses, PTL DEF Spec
=============================================================================
