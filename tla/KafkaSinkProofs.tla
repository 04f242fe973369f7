-------------------------- MODULE KafkaSinkProofs --------------------------
(***************************************************************************)
(* Proofs about KafkaSink, for every set of topics, texts and parameter    *)
(* values: it is well typed, its reports balance and its runtime follows   *)
(* its lifecycle; and it keeps the contract of a sink as long as no call   *)
(* sets subscriptions_yaml with a parameter that may be refused after it.  *)
(***************************************************************************)
EXTENDS KafkaSink, SequenceTheorems, TLAPS

Fields == {"received", "sentOk", "dropped", "errors", "json"}

\* Every message is in one account, except the one that is being sent.
Balance ==
  /\ totals.received + totals.json
       = totals.sentOk + totals.dropped + totals.errors + (IF sending THEN 1 ELSE 0)
  /\ reported.received + reported.json
       = reported.sentOk + reported.dropped + reported.errors
  /\ totals.received + totals.json <= MessageLimit

\* The counters only grow after a report.
Grown == \A f \in Fields : reported[f] <= totals[f]

Accounts == Balance /\ Grown /\ ReportsBalance

\* A prefix of a list of topics is one.
LEMMA PrefixOfTopics ==
  ASSUME NEW list \in Seq(Topics), NEW n \in DOMAIN list
  PROVE  SubSeq(list, 1, n - 1) \in Seq(Topics)
<1>1. n \in 1..Len(list)
  BY LenProperties
<1>2. \A i \in 1..(n - 1) : list[i] \in Topics
  BY <1>1, ElementOfSeq
<1> QED
  BY <1>1, <1>2, SubSeqProperties

CountersTyped == totals \in Counts /\ reported \in Counts /\ delta \in Counts

\* What a record of counters is made of.
LEMMA CountsFields ==
  ASSUME NEW c \in Counts
  PROVE  \A f \in Fields : c[f] \in 0..MessageLimit /\ c[f] \in Nat
<1>1. MessageLimit \in Nat
  BY SinkAssumption, Zenon DEF SinkAssumption
<1> QED
  BY <1>1 DEF Counts, Fields

\* Zero is one.
LEMMA ZeroFact == Zero \in Counts /\ DOMAIN Zero = Fields
<1>1. MessageLimit \in Nat
  BY SinkAssumption, Zenon DEF SinkAssumption
<1> QED
  BY <1>1 DEF Counts, Fields, Zero

\* A message that arrives is counted as received, or as an error for which there
\* is a count of its own; the limit of the model leaves room for it.
LEMMA ReceiveAccounts ==
  ASSUME CountersTyped, Accounts, Receive
  PROVE  CountersTyped' /\ Accounts'
<1>1. MessageLimit \in Nat
  BY SinkAssumption, Zenon DEF SinkAssumption
<1>2. \A f \in Fields : totals[f] \in Nat /\ reported[f] \in Nat
  BY CountsFields DEF CountersTyped
<1>3. ~sending /\ UNCHANGED <<reported, delta>>
      /\ totals.received + totals.json < MessageLimit
  BY DEF Receive, GroupFree
<1>4. CASE totals' = [totals EXCEPT !.errors = @ + 1, !.json = @ + 1] /\ UNCHANGED sending
  <2>1. totals'.received = totals.received /\ totals'.sentOk = totals.sentOk
        /\ totals'.dropped = totals.dropped /\ totals'.errors = totals.errors + 1
        /\ totals'.json = totals.json + 1
    BY <1>4 DEF CountersTyped, Counts
  <2>2. totals.errors + 1 \in 0..MessageLimit /\ totals.json + 1 \in 0..MessageLimit
    BY <1>1, <1>2, <1>3 DEF Accounts, Balance, Fields
  <2>3. CountersTyped'
    <3>1. totals' \in Counts
      BY <1>4, <2>2 DEF CountersTyped, Counts
    <3> QED
      BY <1>3, <3>1 DEF CountersTyped
  <2>4. Balance'
    BY <1>1, <1>2, <1>3, <1>4, <2>1 DEF Accounts, Balance, Fields
  <2>5. Grown'
    BY <1>2, <1>3, <2>1 DEF Accounts, Grown, Fields
  <2> QED
    BY <1>3, <2>3, <2>4, <2>5 DEF Accounts, ReportsBalance
<1>5. CASE totals' = [totals EXCEPT !.received = @ + 1] /\ sending' = TRUE
  BY <1>1, <1>2, <1>3, <1>5 DEF CountersTyped, Counts, Accounts, Balance, Grown, ReportsBalance, Fields
<1> QED
  BY <1>4, <1>5 DEF Receive

\* The answer of send() closes the account of the message.
LEMMA ForwardAccounts ==
  ASSUME CountersTyped, Accounts, Forward
  PROVE  CountersTyped' /\ Accounts'
<1>1. MessageLimit \in Nat
  BY SinkAssumption, Zenon DEF SinkAssumption
<1>2. \A f \in Fields : totals[f] \in Nat /\ reported[f] \in Nat
  BY CountsFields DEF CountersTyped
<1>3. sending = TRUE /\ sending' = FALSE /\ UNCHANGED <<reported, delta>>
  BY DEF Forward
<1>4. PICK outcome \in {"sentOk", "dropped", "errors"} :
        totals' = [totals EXCEPT ![outcome] = @ + 1]
  BY DEF Forward
<1> QED
  BY <1>1, <1>2, <1>3, <1>4 DEF CountersTyped, Counts, Accounts, Balance, Grown, ReportsBalance, Fields

\* A report is written between messages, from counters that balance then and
\* balanced at the last report.
LEMMA PublishAccounts ==
  ASSUME CountersTyped, Accounts, PublishMetrics
  PROVE  CountersTyped' /\ Accounts'
<1>1. MessageLimit \in Nat
  BY SinkAssumption, Zenon DEF SinkAssumption
<1>2. \A f \in Fields : /\ totals[f] \in 0..MessageLimit /\ totals[f] \in Nat
                        /\ reported[f] \in Nat /\ reported[f] <= totals[f]
  BY CountsFields DEF CountersTyped, Accounts, Grown
<1>3. ~sending /\ UNCHANGED <<totals, sending>> /\ reported' = totals
  BY DEF PublishMetrics, GroupFree
<1>4. delta' = [f \in Fields |-> totals[f] - reported[f]]
  BY ZeroFact DEF PublishMetrics
<1>5. \A f \in Fields : delta'[f] = totals[f] - reported[f] /\ delta'[f] \in 0..MessageLimit
  BY <1>1, <1>2, <1>4
<1>6. CountersTyped'
  BY <1>3, <1>4, <1>5 DEF CountersTyped, Counts, Fields
<1>7. (Balance /\ Grown)'
  BY <1>2, <1>3 DEF Accounts, Balance, Grown, Fields
<1>8. ReportsBalance'
  BY <1>2, <1>3, <1>5 DEF Accounts, Balance, ReportsBalance, Fields
<1> QED
  BY <1>6, <1>7, <1>8 DEF Accounts

\* Where the subscriptions are cleared, their counters start again.
LEMMA ClearAccounts ==
  ASSUME CountersTyped, Accounts, ClearSubscriptions, GroupFree, UNCHANGED <<sending, delta>>
  PROVE  CountersTyped' /\ Accounts'
<1>1. MessageLimit \in Nat
  BY SinkAssumption, Zenon DEF SinkAssumption
<1>2. totals' = Zero /\ reported' = Zero /\ ~sending /\ UNCHANGED <<sending, delta>>
  BY DEF ClearSubscriptions, GroupFree
<1>3. CountersTyped'
  BY <1>2, ZeroFact DEF CountersTyped
<1> QED
  BY <1>1, <1>2, <1>3 DEF Accounts, Balance, Grown, ReportsBalance, Zero, Fields

\* No step upsets the accounts.
LEMMA AccountsStep ==
  ASSUME CountersTyped, Accounts, [Next]_vars
  PROVE  CountersTyped' /\ Accounts'
<1>1. CASE UNCHANGED <<sending, counters>>
  BY <1>1 DEF counters, CountersTyped, Accounts, Balance, Grown, ReportsBalance
<1>2. OnConfigure \/ OnActivate \/ OnActivateFails \/ OnActivateThrows
      \/ OnParametersSet \/ UNCHANGED vars => UNCHANGED <<sending, counters>>
  BY DEF OnConfigure, OnActivate, OnActivateFails, OnActivateThrows, OnParametersSet,
         vars
<1>3. OnDeactivate \/ OnCleanup \/ OnShutdown
      => ClearSubscriptions /\ GroupFree /\ UNCHANGED <<sending, delta>>
  BY DEF OnDeactivate, OnCleanup, OnShutdown
<1> QED
  BY <1>1, <1>2, <1>3, ReceiveAccounts, ForwardAccounts, PublishAccounts, ClearAccounts
     DEF Next, Lifecycle

----------------------------------------------------------------------------
(* Types *)

\* What the assumption says of the texts and of the values of the parameters.
LEMMA TextFacts ==
  /\ \A text \in Texts : Parsed[text] \in Seq(Topics)
  /\ <<>> \in Seq(Topics)
  /\ Intervals \subseteq BOOLEAN /\ TRUE \in Intervals
<1>1. Parsed \in [Texts -> Seq(Topics)] /\ Intervals \subseteq BOOLEAN /\ TRUE \in Intervals
  BY SinkAssumption, Zenon DEF SinkAssumption
<1>2. <<>> \in Seq(Topics)
  BY EmptySeq
<1> QED
  BY <1>1, <1>2

\* The parts of a record of parameters.
LEMMA GivenFacts ==
  ASSUME params \in Values
  PROVE  /\ params.subscriptions_yaml \in Texts
         /\ params.qos_depth \in BOOLEAN
         /\ Given(KafkaNames) \in KafkaValues
         /\ Given(KafkaNames).acks = params.acks
         /\ Given(MetricsNames) \in MetricsValues
<1>1. Intervals \subseteq BOOLEAN
  BY TextFacts
<1> QED
  BY <1>1 DEF Values, Given, KafkaNames, MetricsNames, KafkaValues, MetricsValues

\* A call that sets some of the parameters leaves a record of parameters.
LEMMA SetValues ==
  ASSUME NEW old \in Values, NEW names, NEW new \in Settings(names)
  PROVE  [n \in Names |-> IF n \in names THEN new[n] ELSE old[n]] \in Values
<1> DEFINE v == [n \in Names |-> IF n \in names THEN new[n] ELSE old[n]]
<1>1. \A n \in names : /\ n = "subscriptions_yaml" => new[n] \in Texts
                       /\ n = "interval_ms" => new[n] \in Intervals
                       /\ n # "subscriptions_yaml" => new[n] \in BOOLEAN
  BY Zenon DEF Settings
<1>2. v["subscriptions_yaml"] \in Texts /\ v["interval_ms"] \in Intervals
  BY <1>1 DEF Values, Names, MetricsNames
<1>3. ASSUME NEW n \in {"qos_depth", "log_every_n", "acks", "strict_startup", "json", "enabled"}
      PROVE  v[n] \in BOOLEAN
  <2>1. old[n] \in BOOLEAN /\ n \in Names
    BY DEF Values, Names, MetricsNames, KafkaNames
  <2>2. n \in names => new[n] \in BOOLEAN
    BY <1>1
  <2>3. v[n] = IF n \in names THEN new[n] ELSE old[n]
    BY <2>1
  <2> QED
    BY <2>1, <2>2, <2>3, Zenon
<1> HIDE DEF v
<1>4. v["qos_depth"] \in BOOLEAN /\ v["log_every_n"] \in BOOLEAN /\ v["acks"] \in BOOLEAN
      /\ v["strict_startup"] \in BOOLEAN /\ v["json"] \in BOOLEAN /\ v["enabled"] \in BOOLEAN
  BY <1>3
<1>5. v = [subscriptions_yaml |-> v["subscriptions_yaml"], qos_depth |-> v["qos_depth"],
           log_every_n |-> v["log_every_n"], acks |-> v["acks"],
           strict_startup |-> v["strict_startup"], json |-> v["json"],
           enabled |-> v["enabled"], interval_ms |-> v["interval_ms"]]
  BY DEF v, Names, MetricsNames, KafkaNames
<1>6. v \in Values
  BY <1>2, <1>4, <1>5 DEF Values
<1> QED
  BY <1>6 DEF v

\* The node without its counters.
NodeTyped ==
  /\ state \in States
  /\ params \in Values
  /\ configured \in Seq(Topics) /\ active \in Seq(Topics)
  /\ depthOk \in BOOLEAN /\ kafka \in KafkaValues /\ kafka.acks
  /\ metrics \in MetricsValues
  /\ producer \in BOOLEAN /\ isActive \in BOOLEAN /\ timer \in BOOLEAN
  /\ sending \in BOOLEAN

LEMMA TypeSplit == TypeOK <=> NodeTyped /\ CountersTyped
BY Zenon DEF TypeOK, NodeTyped, CountersTyped

\* Lifecycle callbacks keep the node well typed.
LEMMA LifecycleTyped ==
  ASSUME NodeTyped, Lifecycle
  PROVE  NodeTyped'
<1> USE DEF members, States
<1>1. CASE OnConfigure
  BY <1>1, TextFacts, GivenFacts DEF NodeTyped, OnConfigure
<1>2. CASE OnActivate
  BY <1>2 DEF NodeTyped, OnActivate
<1>3. CASE OnActivateFails
  BY <1>3 DEF NodeTyped, OnActivateFails, vars
<1>4. CASE OnActivateThrows
  <2>1. PICK n \in DOMAIN configured : active' = SubSeq(configured, 1, n - 1)
    BY <1>4 DEF OnActivateThrows
  <2>2. active' \in Seq(Topics)
    BY <2>1, PrefixOfTopics DEF NodeTyped
  <2> QED
    BY <1>4, <2>2 DEF NodeTyped, OnActivateThrows
<1>5. CASE OnDeactivate
  BY <1>5, TextFacts DEF NodeTyped, OnDeactivate, ClearSubscriptions
<1>6. CASE OnCleanup
  BY <1>6, TextFacts DEF NodeTyped, OnCleanup, ClearSubscriptions
<1>7. CASE OnShutdown
  BY <1>7, TextFacts DEF NodeTyped, OnShutdown, ClearSubscriptions
<1> QED
  BY <1>1, <1>2, <1>3, <1>4, <1>5, <1>6, <1>7 DEF Lifecycle

\* What a call of the parameter callback does, without its local definitions.
ParametersSet(names, new) ==
  LET parses == "subscriptions_yaml" \in names => new.subscriptions_yaml \notin Malformed
      deep   == parses /\ IF "qos_depth" \in names THEN new["qos_depth"] ELSE depthOk
      served == deep /\ IF "acks" \in names THEN new["acks"] ELSE TRUE
  IN
  /\ state = "active" => names \cap Locked = {}
  /\ configured' = IF parses /\ "subscriptions_yaml" \in names
                     THEN Parsed[new.subscriptions_yaml] ELSE configured
  /\ depthOk' = (deep \/ depthOk)
  /\ kafka' = IF served THEN [n \in KafkaNames |-> IF n \in names THEN new[n] ELSE kafka[n]]
                        ELSE kafka
  /\ metrics' = IF served
                  THEN [n \in MetricsNames |-> IF n \in names THEN new[n] ELSE metrics[n]]
                  ELSE metrics
  /\ params' = IF served /\ IF "log_every_n" \in names THEN new["log_every_n"] ELSE TRUE
                 THEN [n \in Names |-> IF n \in names THEN new[n] ELSE params[n]] ELSE params

LEMMA ParametersStep ==
  OnParametersSet => \E names \in Batches : \E new \in Settings(names) : ParametersSet(names, new)
BY DEF OnParametersSet, ParametersSet

\* So does the parameter callback, whatever it refuses half-way.
LEMMA ParametersTyped ==
  ASSUME NodeTyped, OnParametersSet
  PROVE  NodeTyped'
<1>0. PICK names \in Batches : \E new \in Settings(names) : ParametersSet(names, new)
  BY ParametersStep
<1>1. PICK new \in Settings(names) : ParametersSet(names, new)
  BY <1>0
<1> USE DEF ParametersSet, NodeTyped
<1>2. UNCHANGED <<state, producer, isActive, active, timer, sending>>
  BY DEF OnParametersSet
<1>3. params' \in Values
  BY <1>1, SetValues
<1>4. \A n \in names : /\ n = "subscriptions_yaml" => new[n] \in Texts
                       /\ n = "interval_ms" => new[n] \in Intervals
                       /\ n # "subscriptions_yaml" => new[n] \in BOOLEAN
  BY Zenon DEF Settings
<1>5. configured' \in Seq(Topics)
  BY <1>1, <1>4, TextFacts
<1>6. depthOk' \in BOOLEAN
  BY <1>1, <1>4
<1>7. metrics' \in MetricsValues
  <2>1. [n \in MetricsNames |-> IF n \in names THEN new[n] ELSE metrics[n]] \in MetricsValues
    BY <1>4 DEF MetricsNames, MetricsValues
  <2> QED
    BY <1>1, <2>1
<1>8. kafka' \in KafkaValues /\ kafka'.acks
  <2> DEFINE k == [n \in KafkaNames |-> IF n \in names THEN new[n] ELSE kafka[n]]
  <2>1. k \in KafkaValues
    BY <1>4 DEF KafkaNames, KafkaValues
  <2>2. k.acks = IF "acks" \in names THEN new.acks ELSE kafka.acks
    BY DEF KafkaNames
  <2> QED
    BY <1>1, <2>1, <2>2
<1> QED
  BY <1>2, <1>3, <1>5, <1>6, <1>7, <1>8

----------------------------------------------------------------------------
(* Type correctness and the reports *)

Inv == TypeOK /\ Accounts

LEMMA InvInit == Init => Inv
<1> SUFFICES ASSUME Init PROVE Inv
  OBVIOUS
<1>1. MessageLimit \in Nat
  BY SinkAssumption, Zenon DEF SinkAssumption
<1>2. NodeTyped
  BY TextFacts DEF Init, NodeTyped, States, KafkaValues, MetricsValues
<1>3. CountersTyped
  BY ZeroFact DEF Init, CountersTyped
<1>4. Accounts
  BY <1>1 DEF Init, Accounts, Balance, Grown, ReportsBalance, Zero, Fields
<1> QED
  BY <1>2, <1>3, <1>4, TypeSplit DEF Inv

LEMMA InvStep == Inv /\ [Next]_vars => Inv'
<1> SUFFICES ASSUME Inv, [Next]_vars PROVE Inv'
  OBVIOUS
<1>1. NodeTyped /\ CountersTyped /\ Accounts
  BY TypeSplit DEF Inv
<1>2. CountersTyped' /\ Accounts'
  BY <1>1, AccountsStep
<1>3. NodeTyped'
  <2>1. CASE UNCHANGED <<state, params, members, producer, isActive, active, timer>>
             /\ sending' \in BOOLEAN
    BY <1>1, <2>1 DEF NodeTyped, members
  <2>2. Receive \/ Forward \/ PublishMetrics \/ UNCHANGED vars
        => UNCHANGED <<state, params, members, producer, isActive, active, timer>>
           /\ sending' \in BOOLEAN
    BY <1>1 DEF Receive, Forward, PublishMetrics, vars, NodeTyped
  <2> QED
    BY <1>1, <2>1, <2>2, LifecycleTyped, ParametersTyped DEF Next
<1>4. TypeOK'
  BY <1>2, <1>3 DEF TypeOK, NodeTyped, CountersTyped
<1> QED
  BY <1>2, <1>4 DEF Inv

\* The node stays well typed; in particular its counters never pass the number
\* of messages, and a delta is never negative: prev_* is reset with the counters
\* it was taken from.
THEOREM TypeCorrect == Spec => []TypeOK
<1>1. Inv => TypeOK
  BY DEF Inv
<1> QED
  BY <1>1, InvInit, InvStep, PTL DEF Spec

\* Every published delta accounts for each message of its interval, because
\* publish_metrics never runs between the two halves of a subscription callback.
THEOREM ReportsAddUp == Spec => []ReportsBalance
<1>1. Inv => ReportsBalance
  BY DEF Inv, Accounts
<1> QED
  BY <1>1, InvInit, InvStep, PTL DEF Spec

----------------------------------------------------------------------------
(* The lifecycle *)

LEMMA RuntimeStep ==
  ASSUME RuntimeFollowsState, [Next]_vars
  PROVE  RuntimeFollowsState'
<1> USE DEF RuntimeFollowsState
<1>1. CASE UNCHANGED <<state, producer, isActive, active, timer, sending>>
  BY <1>1
<1>2. PublishMetrics \/ OnParametersSet \/ OnActivateFails \/ UNCHANGED vars
      => UNCHANGED <<state, producer, isActive, active, timer, sending>>
  BY DEF PublishMetrics, OnParametersSet, OnActivateFails, vars
<1>3. CASE Receive \/ Forward
  <2>1. UNCHANGED <<state, producer, isActive, active, timer>>
        /\ (sending' => isActive /\ active # <<>>)
    BY <1>3 DEF Receive, Forward
  <2>2. QED
    BY <2>1
<1>4. CASE OnConfigure
  BY <1>4 DEF OnConfigure
<1>5. CASE OnActivate \/ OnActivateThrows
  <2>1. CASE OnActivate
    BY <2>1 DEF OnActivate, GroupFree
  <2>2. CASE OnActivateThrows
    BY <2>2 DEF OnActivateThrows, GroupFree
  <2>3. QED
    BY <1>5, <2>1, <2>2
<1>6. CASE OnDeactivate \/ OnCleanup \/ OnShutdown
  BY <1>6 DEF OnDeactivate, OnCleanup, OnShutdown, ClearSubscriptions, GroupFree
<1> QED
  BY <1>1, <1>2, <1>3, <1>4, <1>5, <1>6 DEF Next, Lifecycle

\* Whatever the metrics parameters are and wherever on_activate throws, the runtime
\* follows the lifecycle, and nothing is forwarded without the producer or by a node that is
\* neither ACTIVE nor FINALIZED.
THEOREM RuntimeIsLifecycle == Spec => []RuntimeFollowsState
<1>1. Init => RuntimeFollowsState
  BY DEF Init, RuntimeFollowsState
<1>2. RuntimeFollowsState /\ [Next]_vars => RuntimeFollowsState'
  BY RuntimeStep
<1> QED
  BY <1>1, <1>2, PTL DEF Spec

----------------------------------------------------------------------------
(* What parameters change while ACTIVE *)

LEMMA FrozenParameters ==
  ASSUME NodeTyped, OnParametersSet, state = "active"
  PROVE  UNCHANGED <<configured, kafka, metrics, params.subscriptions_yaml>>
<1>0. PICK names \in Batches : \E new \in Settings(names) : ParametersSet(names, new)
  BY ParametersStep
<1>1. PICK new \in Settings(names) : ParametersSet(names, new)
  BY <1>0
<1> USE DEF ParametersSet
<1>2. /\ "subscriptions_yaml" \notin names
      /\ \A n \in KafkaNames : n \notin names
      /\ \A n \in MetricsNames : n \notin names
  BY <1>1 DEF Locked
<1>3. configured' = configured
  BY <1>1, <1>2
<1>4. kafka' = kafka
  <2>1. kafka = [n \in KafkaNames |-> kafka[n]]
    BY DEF NodeTyped, KafkaValues, KafkaNames
  <2>2. [n \in KafkaNames |-> IF n \in names THEN new[n] ELSE kafka[n]]
          = [n \in KafkaNames |-> kafka[n]]
    BY <1>2, Zenon
  <2>3. QED
    BY <1>1, <2>1, <2>2
<1>5. metrics' = metrics
  <2>1. metrics = [n \in MetricsNames |-> metrics[n]]
    BY DEF NodeTyped, MetricsValues, MetricsNames
  <2>2. [n \in MetricsNames |-> IF n \in names THEN new[n] ELSE metrics[n]]
          = [n \in MetricsNames |-> metrics[n]]
    BY <1>2, Zenon
  <2>3. QED
    BY <1>1, <2>1, <2>2
<1>6. params'.subscriptions_yaml = params.subscriptions_yaml
  BY <1>1, <1>2 DEF Names
<1>7. QED
  BY <1>3, <1>4, <1>5, <1>6

\* No call of the parameter service, accepted or refused half-way, changes what an ACTIVE
\* node forwards, how, or with which reports; nor does anything else but its lifecycle.
THEOREM ActiveNodeFrozen == Spec => FrozenWhileActive
<1>1. Inv /\ [Next]_vars => [FrozenStep]_vars
  <2> SUFFICES ASSUME Inv, Next, state = "active", state' = "active"
               PROVE  UNCHANGED <<configured, active, kafka, metrics, producer,
                                  params.subscriptions_yaml>>
    BY DEF FrozenStep
  <2>0. NodeTyped
    BY TypeSplit DEF Inv
  <2>1. CASE OnParametersSet
    <3>1. UNCHANGED <<active, producer>>
      BY <2>1 DEF OnParametersSet
    <3>2. QED
      BY <2>0, <2>1, <3>1, FrozenParameters
  <2>2. CASE Receive \/ Forward \/ PublishMetrics
    BY <2>2 DEF Receive, Forward, PublishMetrics, members
  <2>3. ~(OnConfigure \/ OnActivate \/ OnActivateFails \/ OnActivateThrows \/ OnDeactivate
         \/ OnCleanup \/ OnShutdown)
    BY <2>0 DEF OnConfigure, OnActivate, OnActivateFails, OnActivateThrows, OnDeactivate,
       OnCleanup, OnShutdown
  <2>4. QED
    BY <2>1, <2>2, <2>3 DEF Next, Lifecycle
<1>2. QED
  BY <1>1, InvInit, InvStep, PTL DEF Spec, FrozenWhileActive

----------------------------------------------------------------------------
(* The configuration, given that subscriptions_yaml is set alone *)

\* A configured node has a valid qos_depth, so that nothing refuses a call that
\* has already stored its subscriptions.
DepthKept == state \in {"inactive", "active"} => depthOk

\* What a call that sets parameters does to the subscriptions: it stores them
\* and changes the parameter, or neither.
LEMMA SetsBothOrNone ==
  ASSUME SubscriptionsAlone, NodeTyped, OnParametersSet, depthOk
  PROVE  /\ \/ configured' = Parsed[params'.subscriptions_yaml]
            \/ configured' = configured /\ params'.subscriptions_yaml = params.subscriptions_yaml
         /\ state = "active" => configured' = configured /\ params'.subscriptions_yaml = params.subscriptions_yaml
<1>0. PICK names \in Batches : \E new \in Settings(names) : ParametersSet(names, new)
  BY ParametersStep
<1>1. PICK new \in Settings(names) : ParametersSet(names, new)
  BY <1>0
<1> USE DEF ParametersSet
<1>2. state = "active" => "subscriptions_yaml" \notin names
  BY <1>1 DEF Locked
<1>3. "subscriptions_yaml" \in names
      => "qos_depth" \notin names /\ "acks" \notin names /\ "log_every_n" \notin names
  BY DEF SubscriptionsAlone
<1>4. CASE "subscriptions_yaml" \in names /\ new.subscriptions_yaml \notin Malformed
  <2>1. params' = [n \in Names |-> IF n \in names THEN new[n] ELSE params[n]]
    BY <1>1, <1>3, <1>4
  <2>2. params'.subscriptions_yaml = new.subscriptions_yaml
    BY <1>4, <2>1 DEF Names
  <2> QED
    BY <1>1, <1>2, <1>4, <2>2
<1>5. CASE "subscriptions_yaml" \in names /\ new.subscriptions_yaml \in Malformed
  BY <1>1, <1>2, <1>5
<1>6. CASE "subscriptions_yaml" \notin names
  <2>1. params'.subscriptions_yaml = params.subscriptions_yaml
    BY <1>1, <1>6 DEF Names
  <2> QED
    BY <1>1, <1>6, <2>1
<1> QED
  BY <1>4, <1>5, <1>6

LEMMA ConfigurationStep ==
  ASSUME SubscriptionsAlone, NodeTyped, DepthKept, ConfigurationCurrent, [Next]_vars
  PROVE  DepthKept' /\ ConfigurationCurrent'
<1> USE DEF DepthKept, ConfigurationCurrent
<1>1. CASE UNCHANGED <<state, params, configured, depthOk, active>>
  BY <1>1
<1>2. Receive \/ Forward \/ PublishMetrics \/ OnActivateFails \/ UNCHANGED vars
      => UNCHANGED <<state, params, configured, depthOk, active>>
  BY DEF Receive, Forward, PublishMetrics, OnActivateFails, vars, members
<1>3. CASE OnConfigure
  BY <1>3 DEF OnConfigure
<1>4. CASE OnActivate
  BY <1>4 DEF OnActivate, members
<1>5. CASE OnActivateThrows
  BY <1>5 DEF OnActivateThrows
<1>6. CASE OnDeactivate
  BY <1>6 DEF OnDeactivate, members
<1>7. CASE OnCleanup \/ OnShutdown
  BY <1>7 DEF OnCleanup, OnShutdown
<1>8. CASE OnParametersSet
  <2>1. UNCHANGED <<state, active>> /\ (depthOk => depthOk')
    BY <1>8 DEF OnParametersSet
  <2>2. CASE depthOk
    BY <1>8, <2>1, <2>2, SetsBothOrNone
  <2>3. CASE ~depthOk
    BY <2>1, <2>3
  <2> QED
    BY <2>2, <2>3
<1> QED
  BY <1>1, <1>2, <1>3, <1>4, <1>5, <1>6, <1>7, <1>8 DEF Next, Lifecycle

\* A configured node works with the subscriptions its parameter shows: no order
\* of updates, refusals and reconfigurations leaves an older list behind, as long
\* as no call mixes subscriptions_yaml with a parameter that may be refused.
THEOREM ConfigurationIsCurrent == SubscriptionsAlone => (Spec => []ConfigurationCurrent)
<1> SUFFICES ASSUME SubscriptionsAlone PROVE Spec => []ConfigurationCurrent
  OBVIOUS
<1>1. Init => DepthKept /\ ConfigurationCurrent
  BY DEF Init, DepthKept, ConfigurationCurrent
<1>2. Inv => NodeTyped
  BY TypeSplit DEF Inv
<1>3. NodeTyped /\ DepthKept /\ ConfigurationCurrent /\ [Next]_vars
      => DepthKept' /\ ConfigurationCurrent'
  BY ConfigurationStep
<1> QED
  BY <1>1, <1>2, <1>3, InvInit, InvStep, PTL DEF Spec

----------------------------------------------------------------------------
(* The contract of a sink *)

LEMMA ContractInit == Init => Contract!Init
<1> SUFFICES ASSUME Init PROVE Contract!Init
  OBVIOUS
<1>1. params.subscriptions_yaml \in Texts
  BY GivenFacts DEF Init
<1> QED
  BY <1>1 DEF Init, Contract!Init

LEMMA ContractStep ==
  ASSUME SubscriptionsAlone, NodeTyped, RuntimeFollowsState, DepthKept,
         ConfigurationCurrent, [Next]_vars
  PROVE  [Contract!Next]_(Contract!vars)
<1> USE DEF Contract!Next, Contract!vars
<1>1. CASE UNCHANGED <<state, params, isActive, active>>
  BY <1>1
<1>2. Receive \/ Forward \/ PublishMetrics \/ OnActivateFails \/ UNCHANGED vars
      => UNCHANGED <<state, params, isActive, active>>
  BY DEF Receive, Forward, PublishMetrics, OnActivateFails, vars
<1>3. CASE OnConfigure
  BY <1>3 DEF OnConfigure, Contract!Configure
<1>4. CASE OnActivate
  <2>1. isActive' /\ active' = Parsed[params.subscriptions_yaml] /\ UNCHANGED params
    BY <1>4 DEF OnActivate, ConfigurationCurrent
  <2>2. CASE metrics.enabled => metrics.interval_ms
    BY <1>4, <2>1, <2>2 DEF OnActivate, Contract!Activate
  <2>3. CASE ~(metrics.enabled => metrics.interval_ms)
    BY <1>4, <2>1, <2>3 DEF OnActivate, Contract!ActivateThrows
  <2> QED
    BY <2>2, <2>3
<1>5. CASE OnActivateThrows
  BY <1>5 DEF OnActivateThrows, RuntimeFollowsState, Contract!ActivateThrows
<1>6. CASE OnDeactivate
  BY <1>6 DEF OnDeactivate, Contract!Deactivate
<1>7. CASE OnCleanup
  BY <1>7 DEF OnCleanup, RuntimeFollowsState, Contract!Cleanup
<1>8. CASE OnShutdown
  BY <1>8 DEF OnShutdown, Contract!Shutdown
<1>9. CASE OnParametersSet
  <2>1. UNCHANGED <<state, isActive, active>>
    BY <1>9 DEF OnParametersSet
  <2>2. CASE state = "active"
    BY <1>9, <2>1, <2>2, SetsBothOrNone DEF DepthKept
  <2>3. CASE state # "active"
    <3>1. params'.subscriptions_yaml \in Texts
      BY <1>9, ParametersTyped DEF NodeTyped, Values
    <3> QED
      BY <2>1, <2>3, <3>1 DEF RuntimeFollowsState, Contract!SetSubscriptions
  <2> QED
    BY <2>2, <2>3
<1> QED
  BY <1>1, <1>2, <1>3, <1>4, <1>5, <1>6, <1>7, <1>8, <1>9 DEF Next, Lifecycle

\* What kafka_sink forwards is the selection that its parameter shows, while it
\* is ACTIVE or was left FINALIZED by its activation: it implements the contract of a sink.
THEOREM SinkKeepsContract == SubscriptionsAlone => (Spec => KeepsContract)
<1> SUFFICES ASSUME SubscriptionsAlone PROVE Spec => KeepsContract
  OBVIOUS
<1>1. Init => Contract!Init /\ RuntimeFollowsState /\ DepthKept /\ ConfigurationCurrent
  BY ContractInit DEF Init, RuntimeFollowsState, DepthKept, ConfigurationCurrent
<1>2. Inv => NodeTyped
  BY TypeSplit DEF Inv
<1>3. RuntimeFollowsState /\ [Next]_vars => RuntimeFollowsState'
  BY RuntimeStep
<1>4. NodeTyped /\ DepthKept /\ ConfigurationCurrent /\ [Next]_vars
      => DepthKept' /\ ConfigurationCurrent'
  BY ConfigurationStep
<1>5. NodeTyped /\ RuntimeFollowsState /\ DepthKept /\ ConfigurationCurrent /\ [Next]_vars
      => [Contract!Next]_(Contract!vars)
  BY ContractStep
<1> QED
  BY <1>1, <1>2, <1>3, <1>4, <1>5, InvInit, InvStep, PTL
     DEF Spec, KeepsContract, Contract!Spec
=============================================================================
