------------------------- MODULE KafkaSourceProofs -------------------------
(***************************************************************************)
(* Theorems about kafka_source: its types and runtime, the members that    *)
(* its thread reads, the accounts of its messages and its reports.         *)
(***************************************************************************)
EXTENDS KafkaSource, TLAPS

\* The message in hand has its topics, and so has the report its own.
InHand ==
  /\ thread \in Holding \cup {"entry"} => source \in KafkaTopics
  /\ thread \in Holding => target \in RosTopics
  /\ report # 0 => reading \in RosTopics

Typed == TypeOK /\ InHand

\* The types of the flags, which the provers handle apart from the rest.
Flags == /\ clean \in BOOLEAN /\ consumer \in BOOLEAN /\ isActive \in BOOLEAN
         /\ running \in BOOLEAN /\ timer \in BOOLEAN

\* What remains of the types.
Rest ==
  /\ state \in States
  /\ waiting \in {"none", "deactivate", "shutdown"}
  /\ thread \in {"none", "top", "consume", "entry", "exited"} \cup Holding
  /\ source \in KafkaTopics \cup {NoTopic}
  /\ target \in RosTopics \cup {NoTopic}
  /\ publishers \subseteq RosTopics \ Nameless
  /\ entries \subseteq RosTopics
  /\ report \in 0..3
  /\ reading \in RosTopics \cup {NoTopic}
  /\ unread \subseteq RosTopics
  /\ InHand

Counters == totals \in [RosTopics -> Counts] /\ reported \in [RosTopics -> Counts] /\ seen \in Counts
Parameters == params \in Values /\ members \in Values

\* Together they are Typed.
LEMMA Parts == Typed <=> Flags /\ Rest /\ Counters /\ Parameters
BY Zenon DEF Typed, TypeOK, Flags, Rest, Counters, Parameters

LEMMA PartsNext == Flags' /\ Rest' /\ Counters' /\ Parameters' => Typed'
BY Zenon DEF Typed, TypeOK, Flags, Rest, Counters, Parameters

\* Incrementing a counter changes that counter of that topic.
LEMMA Incremented ==
  ASSUME NEW topic \in RosTopics, NEW counter \in {"received", "decoded", "failed"},
         totals \in [RosTopics -> Counts], Increment(topic, counter)
  PROVE  /\ totals' \in [RosTopics -> Counts]
         /\ \A t \in RosTopics, c \in {"received", "decoded", "failed"} :
              totals'[t][c] = totals[t][c] + (IF t = topic /\ c = counter THEN 1 ELSE 0)
BY DEF Increment, Counts

\* A set of parameters keeps its type under an update.
LEMMA Updated ==
  ASSUME NEW old \in Values, NEW new \in Values, NEW names
  PROVE  Assign(old, names, new) \in Values
BY DEF Assign, Values, Names

\* The counters of a topic begin at zero.
LEMMA ZeroTyped == Zero \in Counts
BY DEF Zero, Counts

\* The members begin with legal values.
LEMMA DefaultsTyped == Defaults \in Values
BY SourceAssumption DEF SourceAssumption, Defaults, Values

LEMMA ZerosTyped == [t \in RosTopics |-> Zero] \in [RosTopics -> Counts]
BY ZeroTyped

LEMMA TypedInit == Init => Typed
<1> SUFFICES ASSUME Init PROVE Typed
  OBVIOUS
<1>1. Counters
  BY ZerosTyped, ZeroTyped, Zenon DEF Init, Counters
<1>2. Parameters
  BY DefaultsTyped, Zenon DEF Init, Parameters
<1>3. Flags
  BY Zenon DEF Init, Flags
<1>4. Rest
  <2>1. report = 0 /\ state = "unconfigured" /\ waiting = "none" /\ thread = "none"
    BY Zenon DEF Init
  <2>2. /\ source = NoTopic /\ target = NoTopic /\ reading = NoTopic
        /\ publishers = {} /\ entries = {} /\ unread = {}
    BY Zenon DEF Init
  <2>3. QED
    BY <2>1, <2>2 DEF Rest, InHand, States, Holding
<1>5. QED
  BY <1>1, <1>2, <1>3, <1>4, Parts, Zenon

\* Nor does the end of a process leave anything ill-typed behind.
LEMMA GoneTyped ==
  ASSUME ProcessGone, state' \in States
  PROVE  Counters' /\ Flags' /\ Rest'
<1>1. Counters'
  BY ZerosTyped, ZeroTyped, Zenon DEF ProcessGone, Counters
<1>2. Flags'
  BY Zenon DEF ProcessGone, Flags
<1>3. report' = 0 /\ waiting' = "none" /\ thread' = "none"
  BY Zenon DEF ProcessGone
<1>4. /\ source' = NoTopic /\ target' = NoTopic /\ reading' = NoTopic
      /\ publishers' = {} /\ entries' = {} /\ unread' = {}
  BY Zenon DEF ProcessGone
<1>5. Rest'
  BY <1>3, <1>4 DEF Rest, InHand, Holding
<1>6. QED
  BY <1>1, <1>2, <1>5

LEMMA TypedStep == Typed /\ [Next]_vars => Typed'
<1> SUFFICES ASSUME Typed, [Next]_vars PROVE Typed'
  OBVIOUS
<1> USE SourceAssumption DEF SourceAssumption, Typed, TypeOK, InHand, States, Holding
<1>1. CASE UNCHANGED vars
  BY <1>1 DEF vars, runtime, message, reportVars
<1>2. CASE Lifecycle
  <2>1. CASE OnConfigure
    BY <2>1 DEF OnConfigure, runtime, message, reportVars
  <2>2. CASE OnActivate
    BY <2>2 DEF OnActivate, message, reportVars, Values
  <2>3. CASE OnActivateFails
    BY <2>3, <1>1 DEF OnActivateFails
  <2>4. CASE OnActivateThrows
    BY <2>4 DEF OnActivateThrows, message, reportVars
  <2>5. CASE OnDeactivate
    BY <2>5 DEF OnDeactivate, message, reportVars
  <2>6. CASE OnCleanup
    BY <2>6, ZeroTyped DEF OnCleanup, message
  <2>7. CASE OnShutdown
    BY <2>7 DEF OnShutdown, message, reportVars
  <2>8. QED
    BY <1>2, <2>1, <2>2, <2>3, <2>4, <2>5, <2>6, <2>7 DEF Lifecycle
<1>3. CASE Joined
  BY <1>3 DEF Joined, Deactivated, ShutDown, message, reportVars
<1>4. CASE OnParametersSet
  <2>1. PICK names \in SUBSET Names, new \in Values :
          /\ members' = Assign(members, names, new)
          /\ params' = IF Valid(members') THEN Assign(params, names, new) ELSE params
          /\ clean' = (clean /\ Valid(members'))
    BY <1>4 DEF OnParametersSet
  <2>2. members' \in Values /\ params' \in Values
    BY <2>1, Updated
  <2>3. clean' \in BOOLEAN
    BY <2>1, <2>2 DEF Valid, Values
  <2>4. QED
    BY <1>4, <2>2, <2>3 DEF OnParametersSet, runtime, message, reportVars
<1>5. CASE ConsumerThread
  <2>1. CASE CheckRunning
    BY <2>1 DEF CheckRunning, runtime, message, reportVars
  <2>2. CASE NothingConsumed
    BY <2>2 DEF NothingConsumed, runtime, message, reportVars
  <2>3. CASE Consume
    BY <2>3 DEF Consume, runtime, reportVars
  <2>4. CASE FindEntry
    BY <2>4 DEF FindEntry, RosTopic, Values, runtime, reportVars
  <2>5. CASE CountReceived
    BY <2>5, Incremented DEF CountReceived, runtime, message, reportVars
  <2>6. CASE FindType
    BY <2>6 DEF FindType, runtime, message, reportVars
  <2>7. CASE FindPublisher
    BY <2>7 DEF FindPublisher, runtime, message, reportVars
  <2>8. CASE PublisherThrows
    <3>1. Counters' /\ Flags' /\ Rest'
      BY <2>8, GoneTyped DEF PublisherThrows
    <3>2. Parameters'
      BY <2>8 DEF PublisherThrows, Parameters
    <3>3. QED
      BY <3>1, <3>2, PartsNext, Zenon
  <2>9. CASE CountFailed
    BY <2>9, Incremented DEF CountFailed, Done, runtime, reportVars
  <2>10. CASE Publish
    BY <2>10, Incremented DEF Publish, Done, runtime, reportVars
  <2>11. QED
    BY <1>5, <2>1, <2>2, <2>3, <2>4, <2>5, <2>6, <2>7, <2>8, <2>9, <2>10 DEF ConsumerThread
<1>6. CASE PublishMetrics
  BY <1>6 DEF PublishMetrics, runtime, message
<1>7. CASE ReadCounter
  <2> DEFINE read == [seen EXCEPT ![Order[report]] = totals[reading][Order[report]]]
  <2>1. read \in Counts
    BY <1>7 DEF ReadCounter, Order, Counts
  <2>2. seen' \in Counts /\ reported' \in [RosTopics -> Counts] /\ report' \in 0..3
    <3> HIDE DEF read
    <3>1. CASE report < 3
      <4>1. seen' = read /\ report' = report + 1 /\ UNCHANGED reported
        BY <1>7, <3>1 DEF ReadCounter, read
      <4>2. QED
        BY <2>1, <3>1, <4>1
    <3>2. CASE ~(report < 3)
      <4>1. seen' = Zero /\ report' \in {0, 1} /\ reported' = [reported EXCEPT ![reading] = read]
        BY <1>7, <3>2 DEF ReadCounter, read
      <4>2. QED
        <5>1. seen' \in Counts
          BY <4>1, ZeroTyped, Zenon
        <5>2. reported' \in [RosTopics -> Counts] /\ report' \in 0..3
          <6>1. reported' = [reported EXCEPT ![reading] = read] /\ report' \in 0..3
            BY <4>1
          <6>2. QED
            BY <2>1, <6>1
        <5>3. QED
          BY <5>1, <5>2
    <3>3. QED
      BY <3>1, <3>2
  <2>3. /\ unread' \subseteq RosTopics
        /\ reading' \in RosTopics \cup {NoTopic}
        /\ report' # 0 => reading' \in RosTopics
    BY <1>7 DEF ReadCounter
  <2>4. QED
    BY <1>7, <2>2, <2>3 DEF ReadCounter, runtime, message
<1>8. CASE Launch
  <2>1. Counters' /\ Flags' /\ Rest'
    BY <1>8, GoneTyped DEF Launch
  <2>2. Parameters'
    BY <1>8, DefaultsTyped, Zenon DEF Launch, Parameters
  <2>3. QED
    BY <2>1, <2>2, PartsNext, Zenon
<1>9. QED
  BY <1>1, <1>2, <1>3, <1>4, <1>5, <1>6, <1>7, <1>8 DEF Next

LEMMA TypedAlways == Spec => []Typed
BY TypedInit, TypedStep, PTL DEF Spec

\* The source is well typed: no publisher has an illegal name, and counters,
\* reports and messages in hand belong to topics.
THEOREM TypeCorrect == Spec => []TypeOK
<1>1. Typed => TypeOK
  BY DEF Typed
<1>2. QED
  BY <1>1, TypedAlways, PTL

----------------------------------------------------------------------------
(* The lifecycle and the thread *)

\* A callback that joins the thread keeps the others out, reports included; and
\* is_active_ stays set until the thread is joined or on_shutdown has begun.
Joining ==
  /\ waiting # "none" => report = 0
  /\ waiting = "deactivate" => state = "active"
  /\ waiting = "shutdown" => state \in {"unconfigured", "inactive", "active"}
  /\ state = "active" /\ waiting # "shutdown" => isActive

Runtime == RuntimeFollowsState /\ Joining

LEMMA RuntimeInit == Init => Runtime
BY DEF Init, Runtime, RuntimeFollowsState, Joining

LEMMA RuntimeStep == Typed /\ Runtime /\ [Next]_vars => Runtime'
<1> SUFFICES ASSUME Typed, Runtime, [Next]_vars PROVE Runtime'
  OBVIOUS
<1> USE DEF Runtime, RuntimeFollowsState, Joining, GroupFree
<1>1. CASE UNCHANGED vars
  BY <1>1 DEF vars, runtime, message, reportVars
<1>2. CASE Lifecycle
  <2>1. CASE OnConfigure
    BY <2>1 DEF OnConfigure, runtime, message, reportVars
  <2>2. CASE OnActivate
    BY <2>2 DEF OnActivate, message, reportVars
  <2>3. CASE OnActivateFails
    BY <2>3, <1>1 DEF OnActivateFails
  <2>4. CASE OnActivateThrows
    BY <2>4 DEF OnActivateThrows, message, reportVars
  <2>5. CASE OnDeactivate
    BY <2>5 DEF OnDeactivate, message, reportVars
  <2>6. CASE OnCleanup
    BY <2>6 DEF OnCleanup, message
  <2>7. CASE OnShutdown
    BY <2>7 DEF OnShutdown, message, reportVars
  <2>8. QED
    BY <1>2, <2>1, <2>2, <2>3, <2>4, <2>5, <2>6, <2>7 DEF Lifecycle
<1>3. CASE Joined
  <2>1. CASE Deactivated
    BY <2>1 DEF Deactivated, message, reportVars
  <2>2. CASE ShutDown
    BY <2>2 DEF ShutDown, message, reportVars
  <2>3. QED
    BY <1>3, <2>1, <2>2 DEF Joined
<1>4. CASE OnParametersSet
  BY <1>4 DEF OnParametersSet, runtime, message, reportVars
<1>5. CASE ConsumerThread
  <2>1. CASE CheckRunning
    BY <2>1 DEF CheckRunning, runtime, message, reportVars
  <2>2. CASE NothingConsumed \/ Consume \/ FindType
    BY <2>2 DEF NothingConsumed, Consume, FindType, runtime, message, reportVars
  <2>3. CASE FindEntry \/ FindPublisher
    BY <2>3 DEF FindEntry, FindPublisher, runtime, message, reportVars
  <2>4. CASE CountReceived \/ CountFailed \/ Publish
    BY <2>4 DEF CountReceived, CountFailed, Publish, Done, runtime, message, reportVars
  <2>5. CASE PublisherThrows
    BY <2>5 DEF PublisherThrows, ProcessGone
  <2>6. QED
    BY <1>5, <2>1, <2>2, <2>3, <2>4, <2>5 DEF ConsumerThread
<1>6. CASE PublishMetrics
  BY <1>6 DEF PublishMetrics, runtime, message
<1>7. CASE ReadCounter
  BY <1>7 DEF ReadCounter, runtime, message
<1>8. CASE Launch
  BY <1>8 DEF Launch, ProcessGone
<1>9. QED
  BY <1>1, <1>2, <1>3, <1>4, <1>5, <1>6, <1>7, <1>8 DEF Next

LEMMA RuntimeAlways == Spec => []Runtime
BY RuntimeInit, RuntimeStep, TypedAlways, PTL DEF Spec

\* The thread runs exactly while the node is ACTIVE, with a consumer, and neither
\* it nor the reports outlive a deactivation, whatever updates were refused.
THEOREM RuntimeIsLifecycle == Spec => []RuntimeFollowsState
<1>1. Runtime => RuntimeFollowsState
  BY DEF Runtime
<1>2. QED
  BY <1>1, RuntimeAlways, PTL

----------------------------------------------------------------------------
(* The members that the thread reads *)

LEMMA FrozenStep ==
  Runtime /\ [Next]_vars => (thread \notin {"none", "exited"} => UNCHANGED members)
<1> SUFFICES ASSUME Runtime, [Next]_vars, thread \notin {"none", "exited"}
             PROVE  UNCHANGED members
  OBVIOUS
<1>1. state = "active"
  BY DEF Runtime, RuntimeFollowsState
<1>2. CASE UNCHANGED vars
  BY <1>2 DEF vars
<1>3. CASE Lifecycle \/ Joined
  BY <1>1, <1>3 DEF Lifecycle, Joined, OnConfigure, OnActivate, OnActivateFails, OnActivateThrows,
     OnDeactivate, OnCleanup, OnShutdown, Deactivated, ShutDown, vars
<1>4. ~OnParametersSet
  BY <1>1 DEF OnParametersSet, GroupFree, Locked, Runtime, Joining
<1>5. CASE ConsumerThread
  BY <1>5 DEF ConsumerThread, CheckRunning, NothingConsumed, Consume, FindEntry, CountReceived,
     FindType, FindPublisher, PublisherThrows, CountFailed, Publish
<1>6. CASE PublishMetrics \/ ReadCounter
  BY <1>6 DEF PublishMetrics, ReadCounter
<1>7. ~Launch
  BY <1>1 DEF Launch
<1>8. QED
  BY <1>2, <1>3, <1>4, <1>5, <1>6, <1>7 DEF Next

\* Nothing writes the members while the thread, which takes no lock, reads them.
THEOREM MembersFrozen == Spec => FrozenWhileRead
<1>1. Runtime /\ [Next]_vars
        => [thread \notin {"none", "exited"} => UNCHANGED members]_vars
  BY FrozenStep
<1>2. QED
  BY <1>1, RuntimeAlways, PTL DEF Spec, FrozenWhileRead

----------------------------------------------------------------------------
(* Where messages go *)

\* A configured node without refused updates has the members its parameters show.
Shown == clean /\ state \in {"inactive", "active"} => members = params

Routed == Shown /\ RoutedAsConfigured

LEMMA RoutedInit == Init => Routed
BY DEF Init, Routed, Shown, RoutedAsConfigured, Holding

LEMMA RoutedStep == Runtime /\ Routed /\ [Next]_vars => Routed'
<1> SUFFICES ASSUME Runtime, Routed, [Next]_vars PROVE Routed'
  OBVIOUS
<1> USE DEF Routed, Shown, RoutedAsConfigured, Holding
<1>1. thread # "none" <=> state = "active"
  BY DEF Runtime, RuntimeFollowsState
<1>2. CASE UNCHANGED vars
  BY <1>2 DEF vars, message
<1>3. CASE Lifecycle
  <2>1. CASE OnConfigure
    BY <1>1, <2>1 DEF OnConfigure, GroupFree, message
  <2>2. CASE OnActivate \/ OnActivateThrows
    BY <1>1, <2>2 DEF OnActivate, OnActivateThrows, message
  <2>3. CASE OnActivateFails
    BY <1>2, <2>3 DEF OnActivateFails
  <2>4. CASE OnDeactivate \/ OnCleanup \/ OnShutdown
    BY <1>1, <2>4 DEF OnDeactivate, OnCleanup, OnShutdown, message
  <2>5. QED
    BY <1>3, <2>1, <2>2, <2>3, <2>4 DEF Lifecycle
<1>4. CASE Joined
  <2>1. CASE Deactivated
    <3>1. state = "active"
      BY <2>1 DEF Deactivated, Runtime, Joining
    <3>2. QED
      BY <2>1, <3>1 DEF Deactivated, message
  <2>2. CASE ShutDown
    BY <2>2 DEF ShutDown, message
  <2>3. QED
    BY <1>4, <2>1, <2>2 DEF Joined
<1>5. CASE OnParametersSet
  <2>1. state # "active"
    BY <1>5 DEF OnParametersSet, GroupFree, Locked, Runtime, Joining
  <2>2. PICK names \in SUBSET Names, new \in Values :
          /\ members' = Assign(members, names, new)
          /\ params' = IF Valid(members') THEN Assign(params, names, new) ELSE params
          /\ clean' = (clean /\ Valid(members'))
    BY <1>5 DEF OnParametersSet
  <2>3. UNCHANGED <<state, thread>>
    BY <1>5 DEF OnParametersSet
  <2>4. clean' /\ state' \in {"inactive", "active"} => members' = params'
    BY <2>2, <2>3
  <2>5. QED
    BY <1>1, <2>1, <2>3, <2>4
<1>6. CASE ConsumerThread
  <2>1. CASE CheckRunning \/ NothingConsumed \/ Consume
    BY <2>1 DEF CheckRunning, NothingConsumed, Consume, message
  <2>2. CASE FindEntry
    BY <1>1, <2>2 DEF FindEntry, RosTopic
  <2>3. CASE CountReceived \/ FindType \/ FindPublisher
    BY <2>3 DEF CountReceived, FindType, FindPublisher, message
  <2>4. CASE CountFailed \/ Publish
    BY <2>4 DEF CountFailed, Publish, Done
  <2>5. CASE PublisherThrows
    BY <2>5 DEF PublisherThrows, ProcessGone
  <2>6. QED
    BY <1>6, <2>1, <2>2, <2>3, <2>4, <2>5 DEF ConsumerThread
<1>7. CASE PublishMetrics \/ ReadCounter
  BY <1>7 DEF PublishMetrics, ReadCounter, message
<1>8. CASE Launch
  BY <1>8 DEF Launch, ProcessGone
<1>9. QED
  BY <1>2, <1>3, <1>4, <1>5, <1>6, <1>7, <1>8 DEF Next

\* Without refused updates every message goes where the parameters say.
THEOREM MessagesRouted == Spec => []RoutedAsConfigured
<1>1. Routed => RoutedAsConfigured
  BY DEF Routed
<1>2. QED
  BY <1>1, RoutedInit, RoutedStep, RuntimeAlways, PTL DEF Spec

----------------------------------------------------------------------------
(* Accounts *)

\* The message in hand goes to t, has been counted and has not been answered.
Pending(t) == IF t = target /\ thread \in Holding \ {"count"} THEN 1 ELSE 0

\* The account of one topic.
Account(t) == totals[t].received = totals[t].decoded + totals[t].failed + Pending(t)

LEMMA AccountedIs == Accounted <=> \A t \in RosTopics : Account(t)
BY DEF Accounted, Account, Pending

\* Where every counter is zero and no message is in hand, the accounts agree.
LEMMA ZeroAccounted ==
  ASSUME totals' = [t \in RosTopics |-> Zero], thread' \notin Holding
  PROVE  \A t \in RosTopics : Account(t)'
BY DEF Account, Pending, Zero

\* What neither counts nor moves a message between accounts keeps them.
LEMMA AccountsKept ==
  ASSUME Accounted, UNCHANGED totals, \A t \in RosTopics : Pending(t)' = Pending(t)
  PROVE  \A t \in RosTopics : Account(t)'
BY AccountedIs DEF Account

LEMMA AccountedInit == Init => Accounted
BY DEF Init, Accounted, Holding, Zero

LEMMA AccountedStep == Typed /\ Runtime /\ Accounted /\ [Next]_vars => Accounted'
<1> SUFFICES ASSUME Typed, Runtime, Accounted, [Next]_vars
             PROVE  \A t \in RosTopics : Account(t)'
  BY AccountedIs DEF Accounted, Account, Pending
<1>t. totals \in [RosTopics -> Counts] /\ (thread \in Holding => target \in RosTopics)
  BY DEF Typed, TypeOK, InHand
<1>s. thread # "none" <=> state = "active"
  BY DEF Runtime, RuntimeFollowsState
<1>1. CASE UNCHANGED <<totals, thread, target>>
  BY <1>1, AccountsKept DEF Pending
<1>2. CASE Lifecycle
  <2>1. CASE OnConfigure \/ OnActivateFails \/ OnActivateThrows \/ OnDeactivate \/ OnShutdown
    BY <1>1, <2>1 DEF OnConfigure, OnActivateFails, OnActivateThrows, OnDeactivate, OnShutdown,
       vars, message
  <2>2. CASE OnActivate
    <3>1. thread \notin Holding /\ thread' \notin Holding /\ UNCHANGED totals
      BY <1>s, <2>2 DEF OnActivate, Holding
    <3>2. QED
      BY <3>1, AccountsKept DEF Pending
  <2>3. CASE OnCleanup
    <3>1. thread' \notin Holding /\ totals' = [t \in RosTopics |-> Zero]
      BY <1>s, <2>3 DEF OnCleanup, Holding
    <3>2. QED
      BY <3>1, ZeroAccounted
  <2>4. QED
    BY <1>2, <2>1, <2>2, <2>3 DEF Lifecycle
<1>3. CASE Joined
  <2>1. thread \notin Holding /\ thread' \notin Holding /\ UNCHANGED totals
    BY <1>3 DEF Joined, Deactivated, ShutDown, Holding
  <2>2. QED
    BY <2>1, AccountsKept DEF Pending
<1>4. CASE ConsumerThread
  <2>1. CASE CheckRunning \/ NothingConsumed \/ Consume \/ FindEntry
    <3>1. /\ thread \notin Holding /\ thread' \notin Holding \ {"count"}
          /\ UNCHANGED totals
      BY <2>1 DEF CheckRunning, NothingConsumed, Consume, FindEntry, Holding
    <3>2. QED
      BY <3>1, AccountsKept DEF Pending
  <2>2. CASE FindType \/ FindPublisher
    <3>1. /\ thread \in Holding \ {"count"} /\ thread' \in Holding \ {"count"}
          /\ UNCHANGED <<totals, target>>
      BY <2>2 DEF FindType, FindPublisher, Holding, message
    <3>2. QED
      BY <3>1, AccountsKept DEF Pending
  <2>3. CASE CountReceived
    <3>1. /\ thread = "count" /\ thread' = "type" /\ target' = target
          /\ target \in RosTopics /\ Increment(target, "received")
      BY <1>t, <2>3 DEF CountReceived, message, Holding
    <3>2. QED
      BY <1>t, <3>1, Incremented, AccountedIs DEF Account, Pending, Holding, Counts
  <2>4. CASE CountFailed
    <3>1. /\ thread = "failed" /\ thread' = "top"
          /\ target \in RosTopics /\ Increment(target, "failed")
      BY <1>t, <2>4 DEF CountFailed, Done, Holding
    <3>2. QED
      BY <1>t, <3>1, Incremented, AccountedIs DEF Account, Pending, Holding, Counts
  <2>5. CASE Publish
    <3>1. /\ thread = "publish" /\ thread' = "top"
          /\ target \in RosTopics /\ Increment(target, "decoded")
      BY <1>t, <2>5 DEF Publish, Done, Holding
    <3>2. QED
      BY <1>t, <3>1, Incremented, AccountedIs DEF Account, Pending, Holding, Counts
  <2>6. CASE PublisherThrows
    BY <2>6, ZeroAccounted DEF PublisherThrows, ProcessGone, Holding
  <2>7. QED
    BY <1>4, <2>1, <2>2, <2>3, <2>4, <2>5, <2>6 DEF ConsumerThread
<1>5. CASE Launch
  BY <1>5, ZeroAccounted DEF Launch, ProcessGone, Holding
<1>6. QED
  BY <1>1, <1>2, <1>3, <1>4, <1>5
     DEF Next, OnParametersSet, PublishMetrics, ReadCounter, vars, message

LEMMA AccountedAlways == Spec => []Accounted
BY AccountedInit, AccountedStep, TypedAlways, RuntimeAlways, PTL DEF Spec

\* Every message that was counted is published, failed or in hand.
THEOREM MessagesAccounted == Spec => []Accounted
BY AccountedAlways

----------------------------------------------------------------------------
(* Reports *)

\* The difference that a report may show, from what it has read of the counters of
\* its topic and what it would read of the others now.  A message that is past its
\* last use of cache_mutex_ can still be answered, once, before the report ends.
OpenReport(s, d, f) ==
  /\ s \in {d + f, d + f + 1}
  /\ thread = "failed" /\ target = reading => s = d + f + 1

Reading ==
  /\ report = 2 =>
       /\ OpenReport(seen.received, totals[reading].decoded, totals[reading].failed)
       /\ thread = "publish" /\ target = reading =>
            seen.received = totals[reading].decoded + totals[reading].failed + 1
  /\ report = 3 => OpenReport(seen.received, seen.decoded, totals[reading].failed)

Reports == Reading /\ ReportsNearlyBalance

LEMMA ReportsInit == Init => Reports
BY DEF Init, Reports, Reading, ReportsNearlyBalance, Zero

\* Between two reports only the prev_* values matter, and zeros balance.
LEMMA ZeroReports ==
  ASSUME report' = 0, reported' = [t \in RosTopics |-> Zero]
  PROVE  Reports'
BY DEF Reports, Reading, ReportsNearlyBalance, Zero

\* A step that counts nothing and brings no message past the mutex.
LEMMA ReportsKept ==
  ASSUME Reports, UNCHANGED <<totals, report, reading, seen, reported>>,
         report # 0 => thread' \notin {"failed", "publish"} \/ UNCHANGED <<thread, target>>
  PROVE  Reports'
BY DEF Reports, Reading, OpenReport, ReportsNearlyBalance

LEMMA CountedReports ==
  ASSUME Typed, Reports, NEW counter \in {"received", "decoded", "failed"},
         target \in RosTopics, Increment(target, counter),
         UNCHANGED <<report, reading, seen, reported>>,
         thread = (CASE counter = "received" -> "count" [] counter = "failed" -> "failed"
                     [] counter = "decoded" -> "publish"),
         thread' \in {"type", "top"}
  PROVE  Reports'
<1>1. ReportsNearlyBalance'
  BY DEF Reports, ReportsNearlyBalance
<1>2. ASSUME report # 0 PROVE Reading'
  <2>1. totals \in [RosTopics -> Counts] /\ seen \in Counts /\ reading \in RosTopics
    BY <1>2 DEF Typed, TypeOK, InHand
  <2>2. /\ totals[reading].decoded \in Nat /\ totals[reading].failed \in Nat
        /\ seen.received \in Nat /\ seen.decoded \in Nat
    BY <2>1 DEF Counts
  <2>3. \A c \in {"received", "decoded", "failed"} :
          totals'[reading][c]
            = totals[reading][c] + (IF reading = target /\ c = counter THEN 1 ELSE 0)
    BY <2>1, Incremented
  <2>4. CASE counter = "received"
    <3>1. totals'[reading].decoded = totals[reading].decoded
          /\ totals'[reading].failed = totals[reading].failed
      BY <2>2, <2>3, <2>4
    <3>2. QED
      BY <2>2, <3>1 DEF Reports, Reading, OpenReport
  <2>5. CASE counter = "failed"
    <3>1. totals'[reading].decoded = totals[reading].decoded
          /\ totals'[reading].failed
               = totals[reading].failed + (IF reading = target THEN 1 ELSE 0)
      BY <2>2, <2>3, <2>5
    <3>2. thread = "failed"
      BY <2>5
    <3>3. QED
      BY <2>2, <3>1, <3>2 DEF Reports, Reading, OpenReport
  <2>6. CASE counter = "decoded"
    <3>1. totals'[reading].failed = totals[reading].failed
          /\ totals'[reading].decoded
               = totals[reading].decoded + (IF reading = target THEN 1 ELSE 0)
      BY <2>2, <2>3, <2>6
    <3>2. thread = "publish"
      BY <2>6
    <3>3. QED
      BY <2>2, <3>1, <3>2 DEF Reports, Reading, OpenReport
  <2>7. QED
    BY <2>4, <2>5, <2>6
<1>3. report = 0 => Reading'
  BY DEF Reading
<1>4. QED
  BY <1>1, <1>2, <1>3 DEF Reports

LEMMA ReadReports == Typed /\ Accounted /\ Reports /\ ReadCounter => Reports'
<1> SUFFICES ASSUME Typed, Accounted, Reports, ReadCounter PROVE Reports'
  OBVIOUS
<1>1. /\ totals \in [RosTopics -> Counts] /\ reported \in [RosTopics -> Counts]
      /\ seen \in Counts /\ reading \in RosTopics /\ report \in 1..3
  BY DEF Typed, TypeOK, InHand, ReadCounter
<1>2. /\ totals[reading].received \in Nat /\ totals[reading].decoded \in Nat
      /\ totals[reading].failed \in Nat /\ seen.received \in Nat /\ seen.decoded \in Nat
  BY <1>1 DEF Counts
<1>3. UNCHANGED <<totals, thread, target>>
  BY DEF ReadCounter, message
<1>4. CASE report = 1
  <2>1. /\ seen' = [seen EXCEPT !.received = totals[reading].received]
        /\ report' = 2 /\ UNCHANGED <<reading, reported>>
    BY <1>4 DEF ReadCounter, Order
  <2>2. seen'.received = totals[reading].received
    BY <1>1, <2>1 DEF Counts
  <2>3. Account(reading)
    BY <1>1, AccountedIs
  <2>4. QED
    BY <1>2, <1>3, <2>1, <2>2, <2>3
       DEF Reports, Reading, OpenReport, ReportsNearlyBalance, Account, Pending, Holding
<1>5. CASE report = 2
  <2>1. /\ seen' = [seen EXCEPT !.decoded = totals[reading].decoded]
        /\ report' = 3 /\ UNCHANGED <<reading, reported>>
    BY <1>5 DEF ReadCounter, Order
  <2>2. seen'.received = seen.received /\ seen'.decoded = totals[reading].decoded
    BY <1>1, <2>1 DEF Counts
  <2>3. QED
    BY <1>2, <1>3, <1>5, <2>1, <2>2 DEF Reports, Reading, OpenReport, ReportsNearlyBalance
<1>6. CASE report = 3
  <2> DEFINE read == [seen EXCEPT !.failed = totals[reading].failed]
  <2>1. reported' = [reported EXCEPT ![reading] = read] /\ report' \in {0, 1}
    BY <1>6 DEF ReadCounter, Order
  <2>2. read.received \in {read.decoded + read.failed, read.decoded + read.failed + 1}
    BY <1>1, <1>2, <1>6 DEF Reports, Reading, OpenReport, Counts
  <2> HIDE DEF read
  <2>3. ReportsNearlyBalance'
    BY <1>1, <2>1, <2>2 DEF Reports, ReportsNearlyBalance
  <2>4. QED
    BY <2>1, <2>3 DEF Reports, Reading
<1>7. QED
  BY <1>1, <1>4, <1>5, <1>6

LEMMA ReportsStep == Typed /\ Runtime /\ Accounted /\ Reports /\ [Next]_vars => Reports'
<1> SUFFICES ASSUME Typed, Runtime, Accounted, Reports, [Next]_vars PROVE Reports'
  OBVIOUS
<1>t. thread \in Holding => target \in RosTopics
  BY DEF Typed, InHand
<1>1. CASE UNCHANGED <<totals, reportVars, thread, target>>
  BY <1>1, ReportsKept DEF reportVars
<1>2. CASE Lifecycle
  <2>1. CASE OnConfigure \/ OnActivateFails \/ OnActivateThrows \/ OnDeactivate \/ OnShutdown
    BY <1>1, <2>1 DEF OnConfigure, OnActivateFails, OnActivateThrows, OnDeactivate, OnShutdown,
       vars, message
  <2>2. CASE OnActivate
    BY <2>2, ReportsKept DEF OnActivate, reportVars
  <2>3. CASE OnCleanup
    BY <2>3, ZeroReports DEF OnCleanup, GroupFree
  <2>4. QED
    BY <1>2, <2>1, <2>2, <2>3 DEF Lifecycle
<1>3. CASE Joined
  BY <1>3, ReportsKept DEF Joined, Deactivated, ShutDown, reportVars
<1>4. CASE ConsumerThread
  <2>1. CASE CheckRunning \/ NothingConsumed \/ Consume \/ FindEntry
    BY <2>1, ReportsKept DEF CheckRunning, NothingConsumed, Consume, FindEntry, reportVars
  <2>2. CASE FindType \/ FindPublisher
    BY <2>2, ReportsKept DEF FindType, FindPublisher, CacheFree, reportVars
  <2>3. CASE CountReceived
    <3>1. thread = "count" /\ thread' = "type" /\ Increment(target, "received")
          /\ UNCHANGED <<report, reading, seen, reported>>
      BY <2>3 DEF CountReceived, reportVars
    <3>2. QED
      BY <1>t, <3>1, CountedReports DEF Holding
  <2>4. CASE CountFailed
    <3>1. thread = "failed" /\ thread' = "top" /\ Increment(target, "failed")
          /\ UNCHANGED <<report, reading, seen, reported>>
      BY <2>4 DEF CountFailed, Done, reportVars
    <3>2. QED
      BY <1>t, <3>1, CountedReports DEF Holding
  <2>5. CASE Publish
    <3>1. thread = "publish" /\ thread' = "top" /\ Increment(target, "decoded")
          /\ UNCHANGED <<report, reading, seen, reported>>
      BY <2>5 DEF Publish, Done, reportVars
    <3>2. QED
      BY <1>t, <3>1, CountedReports DEF Holding
  <2>6. CASE PublisherThrows
    BY <2>6, ZeroReports DEF PublisherThrows, ProcessGone
  <2>7. QED
    BY <1>4, <2>1, <2>2, <2>3, <2>4, <2>5, <2>6 DEF ConsumerThread
<1>5. CASE PublishMetrics
  BY <1>5 DEF PublishMetrics, Reports, Reading, ReportsNearlyBalance
<1>6. CASE ReadCounter
  BY <1>6, ReadReports
<1>7. CASE Launch
  BY <1>7, ZeroReports DEF Launch, ProcessGone
<1>8. QED
  BY <1>1, <1>2, <1>3, <1>4, <1>5, <1>6, <1>7 DEF Next, OnParametersSet, vars, message

\* The counters of a report, read one after another beside a thread that counts,
\* never differ by more than one message.
THEOREM ReportsAddUp == Spec => []ReportsNearlyBalance
<1>1. Reports => ReportsNearlyBalance
  BY DEF Reports
<1>2. QED
  BY <1>1, ReportsInit, ReportsStep, TypedAlways, RuntimeAlways, AccountedAlways, PTL DEF Spec

\* The counters add up, at every moment and in every report.
THEOREM CountersCorrect == Spec => []CountersAddUp
<1>1. Accounted /\ ReportsNearlyBalance => CountersAddUp
  BY DEF CountersAddUp
<1>2. QED
  BY <1>1, MessagesAccounted, ReportsAddUp, PTL

----------------------------------------------------------------------------
(* A join is waited for a bounded number of steps *)

LEMMA ThreadStepsTyped ==
  Typed => ThreadSteps \in 0..7 /\ (ThreadSteps = 0 <=> thread \in {"none", "exited"})
BY DEF Typed, TypeOK, ThreadSteps, Holding

\* Once running_ is FALSE the thread only goes to its end.
LEMMA ThreadAdvances ==
  ASSUME Typed, ~running, ConsumerThread
  PROVE  (waiting' = waiting /\ ThreadSteps' < ThreadSteps) \/ waiting' = "none"
<1>1. CASE PublisherThrows
  BY <1>1 DEF PublisherThrows, ProcessGone
<1>2. CASE CheckRunning \/ NothingConsumed \/ Consume
  BY <1>2 DEF CheckRunning, NothingConsumed, Consume, runtime, ThreadSteps
<1>3. CASE FindEntry \/ FindType \/ FindPublisher
  BY <1>3 DEF FindEntry, FindType, FindPublisher, runtime, ThreadSteps
<1>4. CASE CountReceived \/ CountFailed \/ Publish
  BY <1>4 DEF CountReceived, CountFailed, Publish, Done, runtime, ThreadSteps
<1>5. QED
  BY <1>1, <1>2, <1>3, <1>4 DEF ConsumerThread

\* A lifecycle callback that joins the thread waits for at most seven steps of it, and
\* nothing else happens in the node meanwhile; in particular no report holds the mutex
\* that the thread may still need: the safety half of DeactivationReturns.
THEOREM JoinsAdvance == Spec => JoinBounded
<1>1. Typed /\ Runtime /\ [Next]_vars => [JoinAdvances]_vars
  <2> SUFFICES ASSUME Typed, Runtime, Next, waiting # "none" PROVE JoinAdvances
    BY DEF JoinAdvances
  <2>1. ThreadSteps \in 0..7 /\ (ThreadSteps = 0 <=> thread \in {"none", "exited"})
    BY ThreadStepsTyped
  <2>2. report = 0 /\ ~running
    BY DEF Runtime, RuntimeFollowsState, Joining
  <2>3. waiting' = "none" \/ (waiting' = waiting /\ ThreadSteps' < ThreadSteps)
    <3>1. CASE ConsumerThread
      BY <2>2, <3>1, ThreadAdvances
    <3>2. CASE Joined \/ Launch
      BY <3>2 DEF Joined, Deactivated, ShutDown, Launch, ProcessGone
    <3>3. CASE Lifecycle \/ OnParametersSet \/ PublishMetrics \/ ReadCounter
      BY <2>2, <3>3 DEF Lifecycle, OnConfigure, OnActivate, OnActivateFails, OnActivateThrows,
         OnDeactivate, OnCleanup, OnShutdown, OnParametersSet, PublishMetrics, ReadCounter,
         GroupFree
    <3>4. QED
      BY <3>1, <3>2, <3>3 DEF Next
  <2>4. QED
    BY <2>1, <2>2, <2>3 DEF JoinAdvances, CacheFree
<1>2. QED
  BY <1>1, TypedAlways, RuntimeAlways, PTL DEF Spec, JoinBounded
=============================================================================
