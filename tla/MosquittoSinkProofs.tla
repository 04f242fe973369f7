------------------------ MODULE MosquittoSinkProofs ------------------------
(***************************************************************************)
(* Proofs about MosquittoSink, for every set of topics, texts and          *)
(* parameter values: it is well typed, its reports balance, a link that is *)
(* up is reported and its runtime follows its lifecycle; and it keeps the  *)
(* contract of a sink as long as no call sets subscriptions_yaml with a    *)
(* parameter that may be refused after it.                                 *)
(***************************************************************************)
EXTENDS MosquittoSink, SequenceTheorems, TLAPS

Fields == {"received", "sentOk", "errors", "json"}

\* Every message is in one account, except the one that is being sent.
Balance ==
  /\ totals.received + totals.json
       = totals.sentOk + totals.errors + (IF sending THEN 1 ELSE 0)
  /\ reported.received + reported.json
       = reported.sentOk + reported.errors
  /\ totals.received + totals.json <= MessageLimit

\* The counters only grow after a report.
Grown == \A f \in Fields : reported[f] <= totals[f]

Accounts == Balance /\ Grown /\ ReportsBalance

\* A prefix of a list of topics is one.
LEMMA PrefixOfTopics ==
  ASSUME NEW list \in Seq(Topics), NEW n \in DOMAIN list
  PROVE  SubSeq(list, 1, n - 1) \in Seq(Topics)
<1>1. n \in 1..Len(list)
  BY LenProperties
<1>2. \A i \in 1..(n - 1) : list[i] \in Topics
  BY <1>1, ElementOfSeq
<1> QED
  BY <1>1, <1>2, SubSeqProperties

CountersTyped == totals \in Counts /\ reported \in Counts /\ delta \in Counts

\* What a record of counters is made of.
LEMMA CountsFields ==
  ASSUME NEW c \in Counts
  PROVE  \A f \in Fields : c[f] \in 0..MessageLimit /\ c[f] \in Nat
<1>1. MessageLimit \in Nat
  BY MqttAssumption, Zenon DEF MqttAssumption
<1> QED
  BY <1>1 DEF Counts, Fields

\* Zero is one.
LEMMA ZeroFact == Zero \in Counts /\ DOMAIN Zero = Fields
<1>1. MessageLimit \in Nat
  BY MqttAssumption, Zenon DEF MqttAssumption
<1> QED
  BY <1>1 DEF Counts, Fields, Zero

\* A message that arrives is counted as received, or as an error for which there
\* is a count of its own; the limit of the model leaves room for it.
LEMMA ReceiveAccounts ==
  ASSUME CountersTyped, Accounts, Receive
  PROVE  CountersTyped' /\ Accounts'
<1>1. MessageLimit \in Nat
  BY MqttAssumption, Zenon DEF MqttAssumption
<1>2. \A f \in Fields : totals[f] \in Nat /\ reported[f] \in Nat
  BY CountsFields DEF CountersTyped
<1>3. ~sending /\ UNCHANGED <<reported, delta>>
      /\ totals.received + totals.json < MessageLimit
  BY DEF Receive, GroupFree
<1>4. CASE totals' = [totals EXCEPT !.errors = @ + 1, !.json = @ + 1] /\ UNCHANGED sending
  <2>1. totals'.received = totals.received /\ totals'.sentOk = totals.sentOk
        /\ totals'.errors = totals.errors + 1
        /\ totals'.json = totals.json + 1
    BY <1>4 DEF CountersTyped, Counts
  <2>2. totals.errors + 1 \in 0..MessageLimit /\ totals.json + 1 \in 0..MessageLimit
    BY <1>1, <1>2, <1>3 DEF Accounts, Balance, Fields
  <2>3. CountersTyped'
    <3>1. totals' \in Counts
      BY <1>4, <2>2 DEF CountersTyped, Counts
    <3> QED
      BY <1>3, <3>1 DEF CountersTyped
  <2>4. Balance'
    <3>1. ~sending /\ ~sending' /\ reported' = reported
      BY <1>3, <1>4
    <3>2. totals.received + totals.json = totals.sentOk + totals.errors
          /\ reported.received + reported.json = reported.sentOk + reported.errors
      BY <1>2, <3>1 DEF Accounts, Balance, Fields
    <3>3. /\ totals.received \in Nat /\ totals.json \in Nat
          /\ totals.sentOk \in Nat /\ totals.errors \in Nat
          /\ totals.received + totals.json < MessageLimit
      BY <1>2, <1>3 DEF Fields
    <3>4. /\ totals'.received + totals'.json = totals'.sentOk + totals'.errors
          /\ totals'.received + totals'.json <= MessageLimit
          /\ totals'.sentOk \in Nat /\ totals'.errors \in Nat
      BY <1>1, <2>1, <3>2, <3>3
    <3>5. (IF sending' THEN 1 ELSE 0) = 0
      BY <3>1
    <3>6. totals'.received + totals'.json
            = totals'.sentOk + totals'.errors + (IF sending' THEN 1 ELSE 0)
      BY <3>4, <3>5
    <3> QED
      BY <3>1, <3>2, <3>4, <3>6 DEF Balance
  <2>5. Grown'
    BY <1>2, <1>3, <2>1 DEF Accounts, Grown, Fields
  <2> QED
    BY <1>3, <2>3, <2>4, <2>5 DEF Accounts, ReportsBalance
<1>5. CASE totals' = [totals EXCEPT !.received = @ + 1] /\ sending' = TRUE
  BY <1>1, <1>2, <1>3, <1>5 DEF CountersTyped, Counts, Accounts, Balance, Grown, ReportsBalance, Fields
<1> QED
  BY <1>4, <1>5 DEF Receive

\* The answer of publish() closes the account of the message.
LEMMA ForwardAccounts ==
  ASSUME CountersTyped, Accounts, Forward
  PROVE  CountersTyped' /\ Accounts'
<1>1. MessageLimit \in Nat
  BY MqttAssumption, Zenon DEF MqttAssumption
<1>2. \A f \in Fields : totals[f] \in Nat /\ reported[f] \in Nat
  BY CountsFields DEF CountersTyped
<1>3. sending = TRUE /\ sending' = FALSE /\ UNCHANGED <<reported, delta>>
  BY DEF Forward
<1>4. PICK outcome \in {"sentOk", "errors"} :
        totals' = [totals EXCEPT ![outcome] = @ + 1]
  BY DEF Forward
<1> QED
  BY <1>1, <1>2, <1>3, <1>4 DEF CountersTyped, Counts, Accounts, Balance, Grown, ReportsBalance, Fields

\* A report is written between messages, from counters that balance then and
\* balanced at the last report.
LEMMA PublishAccounts ==
  ASSUME CountersTyped, Accounts, PublishMetrics
  PROVE  CountersTyped' /\ Accounts'
<1>1. MessageLimit \in Nat
  BY MqttAssumption, Zenon DEF MqttAssumption
<1>2. \A f \in Fields : /\ totals[f] \in 0..MessageLimit /\ totals[f] \in Nat
                        /\ reported[f] \in Nat /\ reported[f] <= totals[f]
  BY CountsFields DEF CountersTyped, Accounts, Grown
<1>3. ~sending /\ UNCHANGED <<totals, sending>> /\ reported' = totals
  BY DEF PublishMetrics, GroupFree
<1>4. delta' = [f \in Fields |-> totals[f] - reported[f]]
  BY ZeroFact DEF PublishMetrics
<1>5. \A f \in Fields : delta'[f] = totals[f] - reported[f] /\ delta'[f] \in 0..MessageLimit
  BY <1>1, <1>2, <1>4
<1>6. CountersTyped'
  BY <1>3, <1>4, <1>5 DEF CountersTyped, Counts, Fields
<1>7. (Balance /\ Grown)'
  BY <1>2, <1>3 DEF Accounts, Balance, Grown, Fields
<1>8. ReportsBalance'
  <2>1. /\ delta'.received = totals.received - reported.received
        /\ delta'.json = totals.json - reported.json
        /\ delta'.sentOk = totals.sentOk - reported.sentOk
        /\ delta'.errors = totals.errors - reported.errors
    BY <1>5 DEF Fields
  <2>2. /\ totals.received + totals.json = totals.sentOk + totals.errors
        /\ reported.received + reported.json = reported.sentOk + reported.errors
    BY <1>2, <1>3 DEF Accounts, Balance, Fields
  <2> QED
    BY <1>2, <2>1, <2>2 DEF ReportsBalance, Fields
<1> QED
  BY <1>6, <1>7, <1>8 DEF Accounts

\* Where the subscriptions are cleared, their counters start again.
LEMMA ClearAccounts ==
  ASSUME CountersTyped, Accounts, ClearSubscriptions, GroupFree, UNCHANGED <<sending, delta>>
  PROVE  CountersTyped' /\ Accounts'
<1>1. MessageLimit \in Nat
  BY MqttAssumption, Zenon DEF MqttAssumption
<1>2. totals' = Zero /\ reported' = Zero /\ ~sending /\ UNCHANGED <<sending, delta>>
  BY DEF ClearSubscriptions, GroupFree
<1>3. CountersTyped'
  BY <1>2, ZeroFact DEF CountersTyped
<1> QED
  BY <1>1, <1>2, <1>3 DEF Accounts, Balance, Grown, ReportsBalance, Zero, Fields

\* No step upsets the accounts.
LEMMA AccountsStep ==
  ASSUME CountersTyped, Accounts, [Next]_vars
  PROVE  CountersTyped' /\ Accounts'
<1>1. CASE UNCHANGED <<sending, counters>>
  BY <1>1 DEF counters, CountersTyped, Accounts, Balance, Grown, ReportsBalance
<1>2. OnConfigure \/ StartClient \/ ConnectFails \/ OnActivate \/ OnActivateThrows
      \/ OnParametersSet \/ Paho \/ UNCHANGED vars => UNCHANGED <<sending, counters>>
  BY DEF OnConfigure, StartClient, ConnectFails, OnActivate, OnActivateThrows,
         OnParametersSet, Paho, Accept, Lose, Reconnect, Callback, vars
<1>3. OnDeactivate \/ OnCleanup \/ OnShutdown
      => ClearSubscriptions /\ GroupFree /\ UNCHANGED <<sending, delta>>
  BY DEF OnDeactivate, OnCleanup, OnShutdown
<1> QED
  BY <1>1, <1>2, <1>3, ReceiveAccounts, ForwardAccounts, PublishAccounts, ClearAccounts
     DEF Next, Lifecycle

----------------------------------------------------------------------------
(* Types *)

\* What the assumption says of the texts and of the values of the parameters.
LEMMA TextFacts ==
  /\ \A text \in Texts : Parsed[text] \in Seq(Topics)
  /\ <<>> \in Seq(Topics)
  /\ Intervals \subseteq BOOLEAN /\ TRUE \in Intervals
<1>1. Parsed \in [Texts -> Seq(Topics)] /\ Intervals \subseteq BOOLEAN /\ TRUE \in Intervals
  BY MqttAssumption, Zenon DEF MqttAssumption
<1>2. <<>> \in Seq(Topics)
  BY EmptySeq
<1> QED
  BY <1>1, <1>2

\* The parts of a record of parameters.
LEMMA GivenFacts ==
  ASSUME params \in Values
  PROVE  /\ params.subscriptions_yaml \in Texts
         /\ params.qos_depth \in BOOLEAN
         /\ Given(MqttNames) \in MqttValues
         /\ Given(MqttNames).broker_port = params.broker_port
         /\ Given(MetricsNames) \in MetricsValues
<1>1. Intervals \subseteq BOOLEAN
  BY TextFacts
<1> QED
  BY <1>1 DEF Values, Given, MqttNames, MetricsNames, MqttValues, MetricsValues

\* A call that sets some of the parameters leaves a record of parameters.
LEMMA SetValues ==
  ASSUME NEW old \in Values, NEW names, NEW new \in Settings(names)
  PROVE  [n \in Names |-> IF n \in names THEN new[n] ELSE old[n]] \in Values
<1> DEFINE v == [n \in Names |-> IF n \in names THEN new[n] ELSE old[n]]
<1>1. \A n \in names : /\ n = "subscriptions_yaml" => new[n] \in Texts
                       /\ n = "interval_ms" => new[n] \in Intervals
                       /\ n # "subscriptions_yaml" => new[n] \in BOOLEAN
  BY Zenon DEF Settings
<1>2. v["subscriptions_yaml"] \in Texts /\ v["interval_ms"] \in Intervals
  BY <1>1 DEF Values, Names, MetricsNames
<1>3. ASSUME NEW n \in {"qos_depth", "broker_port", "json", "enabled"}
      PROVE  v[n] \in BOOLEAN
  <2>1. old[n] \in BOOLEAN /\ n \in Names
    BY DEF Values, Names, MetricsNames, MqttNames
  <2>2. n \in names => new[n] \in BOOLEAN
    BY <1>1
  <2>3. v[n] = IF n \in names THEN new[n] ELSE old[n]
    BY <2>1
  <2> QED
    BY <2>1, <2>2, <2>3, Zenon
<1> HIDE DEF v
<1>4. v["qos_depth"] \in BOOLEAN /\ v["broker_port"] \in BOOLEAN
      /\ v["json"] \in BOOLEAN /\ v["enabled"] \in BOOLEAN
  BY <1>3
<1>5. v = [subscriptions_yaml |-> v["subscriptions_yaml"], qos_depth |-> v["qos_depth"],
           broker_port |-> v["broker_port"], json |-> v["json"],
           enabled |-> v["enabled"], interval_ms |-> v["interval_ms"]]
  BY DEF v, Names, MetricsNames, MqttNames
<1>6. v \in Values
  BY <1>2, <1>4, <1>5 DEF Values
<1> QED
  BY <1>6 DEF v

\* The node without its client and its counters.
NodeTyped ==
  /\ state \in States
  /\ params \in Values
  /\ configured \in Seq(Topics) /\ active \in Seq(Topics)
  /\ depthOk \in BOOLEAN /\ mqtt \in MqttValues /\ mqtt.broker_port
  /\ metrics \in MetricsValues
  /\ isActive \in BOOLEAN /\ timer \in BOOLEAN /\ sending \in BOOLEAN

\* The client.
ConnectionTyped ==
  /\ connecting \in {"no", "waiting", "answered"}
  /\ calling \in {"none", "connected", "lost"}
  /\ client \in BOOLEAN /\ link \in BOOLEAN /\ connected \in BOOLEAN

LEMMA TypeSplit == TypeOK <=> NodeTyped /\ ConnectionTyped /\ CountersTyped
BY Zenon DEF TypeOK, NodeTyped, ConnectionTyped, CountersTyped

\* Lifecycle callbacks keep the node well typed.
LEMMA LifecycleTyped ==
  ASSUME NodeTyped, Lifecycle
  PROVE  NodeTyped'
<1> USE DEF members, States
<1>1. CASE OnConfigure
  BY <1>1, TextFacts, GivenFacts DEF NodeTyped, OnConfigure
<1>2. CASE OnActivate
  BY <1>2 DEF NodeTyped, OnActivate
<1>3. CASE StartClient \/ ConnectFails
  BY <1>3 DEF NodeTyped, StartClient, ConnectFails
<1>4. CASE OnActivateThrows
  <2>1. PICK n \in DOMAIN configured : active' = SubSeq(configured, 1, n - 1)
    BY <1>4 DEF OnActivateThrows
  <2>2. active' \in Seq(Topics)
    BY <2>1, PrefixOfTopics DEF NodeTyped
  <2> QED
    BY <1>4, <2>2 DEF NodeTyped, OnActivateThrows
<1>5. CASE OnDeactivate
  BY <1>5, TextFacts DEF NodeTyped, OnDeactivate, ClearSubscriptions
<1>6. CASE OnCleanup
  BY <1>6, TextFacts DEF NodeTyped, OnCleanup, ClearSubscriptions
<1>7. CASE OnShutdown
  BY <1>7, TextFacts DEF NodeTyped, OnShutdown, ClearSubscriptions
<1> QED
  BY <1>1, <1>2, <1>3, <1>4, <1>5, <1>6, <1>7 DEF Lifecycle

\* What a call of the parameter callback does, without its local definitions.
ParametersSet(names, new) ==
  LET parses == "subscriptions_yaml" \in names => new.subscriptions_yaml \notin Malformed
      deep   == parses /\ IF "qos_depth" \in names THEN new["qos_depth"] ELSE depthOk
      served == deep /\ IF "broker_port" \in names THEN new["broker_port"] ELSE TRUE
  IN
  /\ state = "active" => names \cap Locked = {}
  /\ configured' = IF parses /\ "subscriptions_yaml" \in names
                     THEN Parsed[new.subscriptions_yaml] ELSE configured
  /\ depthOk' = (deep \/ depthOk)
  /\ mqtt' = IF served THEN [n \in MqttNames |-> IF n \in names THEN new[n] ELSE mqtt[n]]
                        ELSE mqtt
  /\ metrics' = IF served
                  THEN [n \in MetricsNames |-> IF n \in names THEN new[n] ELSE metrics[n]]
                  ELSE metrics
  /\ params' = IF served THEN [n \in Names |-> IF n \in names THEN new[n] ELSE params[n]] ELSE params

LEMMA ParametersStep ==
  OnParametersSet => \E names \in Batches : \E new \in Settings(names) : ParametersSet(names, new)
BY DEF OnParametersSet, ParametersSet

\* So does the parameter callback, whatever it refuses half-way.
LEMMA ParametersTyped ==
  ASSUME NodeTyped, OnParametersSet
  PROVE  NodeTyped'
<1>0. PICK names \in Batches : \E new \in Settings(names) : ParametersSet(names, new)
  BY ParametersStep
<1>1. PICK new \in Settings(names) : ParametersSet(names, new)
  BY <1>0
<1> USE DEF ParametersSet, NodeTyped
<1>2. UNCHANGED <<state, isActive, active, timer, sending>>
  BY DEF OnParametersSet
<1>3. params' \in Values
  BY <1>1, SetValues
<1>4. \A n \in names : /\ n = "subscriptions_yaml" => new[n] \in Texts
                       /\ n = "interval_ms" => new[n] \in Intervals
                       /\ n # "subscriptions_yaml" => new[n] \in BOOLEAN
  BY Zenon DEF Settings
<1>5. configured' \in Seq(Topics)
  BY <1>1, <1>4, TextFacts
<1>6. depthOk' \in BOOLEAN
  BY <1>1, <1>4
<1>7. metrics' \in MetricsValues
  <2>1. [n \in MetricsNames |-> IF n \in names THEN new[n] ELSE metrics[n]] \in MetricsValues
    BY <1>4 DEF MetricsNames, MetricsValues
  <2> QED
    BY <1>1, <2>1
<1>8. mqtt' \in MqttValues /\ mqtt'.broker_port
  <2> DEFINE k == [n \in MqttNames |-> IF n \in names THEN new[n] ELSE mqtt[n]]
  <2>1. k \in MqttValues
    BY <1>4 DEF MqttNames, MqttValues
  <2>2. k.broker_port = IF "broker_port" \in names THEN new.broker_port ELSE mqtt.broker_port
    BY DEF MqttNames
  <2> QED
    BY <1>1, <2>1, <2>2
<1> QED
  BY <1>2, <1>3, <1>5, <1>6, <1>7, <1>8

----------------------------------------------------------------------------
(* The client and paho's thread *)

\* A client exists exactly while on_activate waits and from then on, until it is
\* stopped; the callback that is still to run is that of the last change of the
\* link, and when there is none, connected_ has missed no link that is up.
Linked ==
  /\ connecting # "no" => client /\ state = "inactive"
  /\ state \in {"unconfigured", "inactive"} => (client => connecting # "no")
  /\ connecting = "waiting" \/ ~client => ~link /\ ~connected /\ calling = "none"
  /\ calling # "none" => (link <=> calling = "connected")
  /\ LinkReported

\* Where the client is stopped, nothing is left of the connection.
LEMMA StopLinked ==
  ASSUME ConnectionTyped, connecting = "no", StopClient
  PROVE  ConnectionTyped' /\ Linked'
BY DEF ConnectionTyped, StopClient, Linked, LinkReported

\* No step of the node or of paho's thread upsets the connection.
LEMMA LinkedStep ==
  ASSUME ConnectionTyped, Linked, [Next]_vars
  PROVE  ConnectionTyped' /\ Linked'
<1> USE DEF ConnectionTyped, Linked, LinkReported
<1>1. CASE UNCHANGED <<state, connection>>
  BY <1>1 DEF connection
<1>2. Receive \/ Forward \/ PublishMetrics \/ OnParametersSet \/ UNCHANGED vars
      => UNCHANGED <<state, connection>>
  BY DEF Receive, Forward, PublishMetrics, OnParametersSet, vars
<1>3. CASE OnConfigure
  BY <1>3 DEF OnConfigure, GroupFree, connection
<1>4. CASE StartClient
  BY <1>4 DEF StartClient, GroupFree
<1>5. CASE ConnectFails
  BY <1>5 DEF ConnectFails
<1>6. CASE OnActivate
  BY <1>6 DEF OnActivate
<1>7. CASE OnActivateThrows
  BY <1>7 DEF OnActivateThrows
<1>8. CASE OnDeactivate \/ OnCleanup \/ OnShutdown
  <2>1. connecting = "no" /\ StopClient
    BY <1>8 DEF OnDeactivate, OnCleanup, OnShutdown, GroupFree
  <2> QED
    BY <2>1, StopLinked
<1>9. CASE Accept \/ Lose \/ Reconnect
  BY <1>9 DEF Accept, Lose, Reconnect
<1>10. CASE Callback
  BY <1>10 DEF Callback
<1> QED
  BY <1>1, <1>2, <1>3, <1>4, <1>5, <1>6, <1>7, <1>8, <1>9, <1>10
     DEF Next, Lifecycle, Paho

----------------------------------------------------------------------------
(* Type correctness, the reports and the link *)

Inv == TypeOK /\ Accounts /\ Linked

LEMMA InvInit == Init => Inv
<1> SUFFICES ASSUME Init PROVE Inv
  OBVIOUS
<1>1. MessageLimit \in Nat
  BY MqttAssumption, Zenon DEF MqttAssumption
<1>2. NodeTyped
  BY TextFacts DEF Init, NodeTyped, States, MqttValues, MetricsValues
<1>3. CountersTyped
  BY ZeroFact DEF Init, CountersTyped
<1>4. Accounts
  BY <1>1 DEF Init, Accounts, Balance, Grown, ReportsBalance, Zero, Fields
<1>5. ConnectionTyped /\ Linked
  BY DEF Init, ConnectionTyped, Linked, LinkReported
<1> QED
  BY <1>2, <1>3, <1>4, <1>5, TypeSplit DEF Inv

LEMMA InvStep == Inv /\ [Next]_vars => Inv'
<1> SUFFICES ASSUME Inv, [Next]_vars PROVE Inv'
  OBVIOUS
<1>1. NodeTyped /\ ConnectionTyped /\ CountersTyped /\ Accounts /\ Linked
  BY TypeSplit DEF Inv
<1>2. CountersTyped' /\ Accounts' /\ ConnectionTyped' /\ Linked'
  BY <1>1, AccountsStep, LinkedStep
<1>3. NodeTyped'
  <2>1. CASE UNCHANGED <<state, params, members, isActive, active, timer>>
             /\ sending' \in BOOLEAN
    BY <1>1, <2>1 DEF NodeTyped, members
  <2>2. Receive \/ Forward \/ PublishMetrics \/ Paho \/ UNCHANGED vars
        => UNCHANGED <<state, params, members, isActive, active, timer>>
           /\ sending' \in BOOLEAN
    BY <1>1 DEF Receive, Forward, PublishMetrics, Paho, Accept, Lose, Reconnect, Callback,
                vars, NodeTyped
  <2> QED
    BY <1>1, <2>1, <2>2, LifecycleTyped, ParametersTyped DEF Next
<1>4. TypeOK'
  BY <1>2, <1>3, Zenon DEF TypeOK, NodeTyped, ConnectionTyped, CountersTyped
<1> QED
  BY <1>2, <1>4 DEF Inv

\* The node stays well typed; in particular its counters never pass the number
\* of messages, and a delta is never negative: prev_* is reset with the counters
\* it was taken from.
THEOREM TypeCorrect == Spec => []TypeOK
<1>1. Inv => TypeOK
  BY DEF Inv
<1> QED
  BY <1>1, InvInit, InvStep, PTL DEF Spec

\* Every published delta accounts for each message of its interval, because
\* publish_metrics never runs between the two halves of a subscription callback.
THEOREM ReportsAddUp == Spec => []ReportsBalance
<1>1. Inv => ReportsBalance
  BY DEF Inv, Accounts
<1> QED
  BY <1>1, InvInit, InvStep, PTL DEF Spec

\* A link that is up is reported as up once paho's thread has run its callback: no
\* order of losses, reconnections, their callbacks and the stores of connect() and
\* disconnect() loses it, and nothing is left of a client that is gone.
THEOREM LinkIsReported == Spec => []LinkReported
<1>1. Inv => LinkReported
  BY DEF Inv, Linked
<1> QED
  BY <1>1, InvInit, InvStep, PTL DEF Spec

----------------------------------------------------------------------------
(* The lifecycle *)

LEMMA RuntimeStep ==
  ASSUME Inv, RuntimeFollowsState, [Next]_vars
  PROVE  RuntimeFollowsState'
<1> USE DEF RuntimeFollowsState
<1>1. CASE UNCHANGED <<state, connecting, client, isActive, active, timer, sending>>
  BY <1>1
<1>2. PublishMetrics \/ OnParametersSet \/ Lose \/ Reconnect \/ Callback \/ UNCHANGED vars
      => UNCHANGED <<state, connecting, client, isActive, active, timer, sending>>
  BY DEF PublishMetrics, OnParametersSet, Lose, Reconnect, Callback, connection, vars
<1>3. CASE Receive \/ Forward
  <2>1. UNCHANGED <<state, connecting, client, isActive, active, timer>>
        /\ (sending' => isActive /\ active # <<>>)
    BY <1>3 DEF Receive, Forward, connection
  <2>2. QED
    BY <2>1
<1>4. CASE OnConfigure \/ StartClient \/ ConnectFails \/ Accept
  BY <1>4 DEF OnConfigure, StartClient, ConnectFails, Accept, GroupFree, connection
<1>5. CASE OnActivate \/ OnActivateThrows
  <2>1. CASE OnActivate
    BY <2>1 DEF OnActivate, Inv, Linked
  <2>2. CASE OnActivateThrows
    BY <2>2 DEF OnActivateThrows, Inv, Linked
  <2>3. QED
    BY <1>5, <2>1, <2>2
<1>6. CASE OnDeactivate \/ OnCleanup \/ OnShutdown
  BY <1>6 DEF OnDeactivate, OnCleanup, OnShutdown, ClearSubscriptions, GroupFree, StopClient
<1> QED
  BY <1>1, <1>2, <1>3, <1>4, <1>5, <1>6 DEF Next, Lifecycle, Paho

\* Whatever the metrics parameters are and wherever on_activate throws, the runtime
\* follows the lifecycle, and nothing is forwarded without the client or by a node that is
\* neither ACTIVE nor FINALIZED.
THEOREM RuntimeIsLifecycle == Spec => []RuntimeFollowsState
<1>1. Init => RuntimeFollowsState
  BY DEF Init, RuntimeFollowsState
<1>2. Inv /\ RuntimeFollowsState /\ [Next]_vars => RuntimeFollowsState'
  BY RuntimeStep
<1> QED
  BY <1>1, <1>2, InvInit, InvStep, PTL DEF Spec

----------------------------------------------------------------------------
(* What parameters change while ACTIVE *)

LEMMA FrozenParameters ==
  ASSUME NodeTyped, OnParametersSet, state = "active"
  PROVE  UNCHANGED <<configured, mqtt, metrics, params.subscriptions_yaml>>
<1>0. PICK names \in Batches : \E new \in Settings(names) : ParametersSet(names, new)
  BY ParametersStep
<1>1. PICK new \in Settings(names) : ParametersSet(names, new)
  BY <1>0
<1> USE DEF ParametersSet
<1>2. /\ "subscriptions_yaml" \notin names
      /\ \A n \in MqttNames : n \notin names
      /\ \A n \in MetricsNames : n \notin names
  BY <1>1 DEF Locked
<1>3. configured' = configured
  BY <1>1, <1>2
<1>4. mqtt' = mqtt
  <2>1. mqtt = [n \in MqttNames |-> mqtt[n]]
    BY DEF NodeTyped, MqttValues, MqttNames
  <2>2. [n \in MqttNames |-> IF n \in names THEN new[n] ELSE mqtt[n]]
          = [n \in MqttNames |-> mqtt[n]]
    BY <1>2, Zenon
  <2>3. QED
    BY <1>1, <2>1, <2>2
<1>5. metrics' = metrics
  <2>1. metrics = [n \in MetricsNames |-> metrics[n]]
    BY DEF NodeTyped, MetricsValues, MetricsNames
  <2>2. [n \in MetricsNames |-> IF n \in names THEN new[n] ELSE metrics[n]]
          = [n \in MetricsNames |-> metrics[n]]
    BY <1>2, Zenon
  <2>3. QED
    BY <1>1, <2>1, <2>2
<1>6. params'.subscriptions_yaml = params.subscriptions_yaml
  BY <1>1, <1>2 DEF Names
<1>7. QED
  BY <1>3, <1>4, <1>5, <1>6

\* No call of the parameter service, accepted or refused half-way, changes what an ACTIVE
\* node forwards, how, or with which reports; nor does anything else but its lifecycle.
THEOREM ActiveNodeFrozen == Spec => FrozenWhileActive
<1>1. Inv /\ [Next]_vars => [FrozenStep]_vars
  <2> SUFFICES ASSUME Inv, Next, state = "active", state' = "active"
               PROVE  UNCHANGED <<configured, active, mqtt, metrics, client,
                                  params.subscriptions_yaml>>
    BY DEF FrozenStep
  <2>0. NodeTyped /\ Linked
    BY TypeSplit DEF Inv
  <2>1. CASE OnParametersSet
    <3>1. UNCHANGED <<active, client>>
      BY <2>1 DEF OnParametersSet, connection
    <3>2. QED
      BY <2>0, <2>1, <3>1, FrozenParameters
  <2>2. CASE Receive \/ Forward \/ PublishMetrics \/ Paho
    BY <2>2 DEF Receive, Forward, PublishMetrics, Paho, Accept, Lose, Reconnect, Callback, members, connection
  <2>3. ~(OnConfigure \/ StartClient \/ ConnectFails \/ OnActivate \/ OnActivateThrows
         \/ OnDeactivate \/ OnCleanup \/ OnShutdown)
    BY <2>0 DEF OnConfigure, StartClient, ConnectFails, OnActivate, OnActivateThrows, OnDeactivate,
       OnCleanup, OnShutdown, Linked
  <2>4. QED
    BY <2>1, <2>2, <2>3 DEF Next, Lifecycle
<1>2. QED
  BY <1>1, InvInit, InvStep, PTL DEF Spec, FrozenWhileActive

----------------------------------------------------------------------------
(* The configuration, given that subscriptions_yaml is set alone *)

\* A configured node works with the subscriptions that its parameter shows, and
\* an active one is subscribed to them.
ConfigurationCurrent ==
  /\ state \in {"inactive", "active"} => configured = Parsed[params.subscriptions_yaml]
  /\ state = "active" => active = configured

\* A configured node has a valid qos_depth, so that nothing refuses a call that
\* has already stored its subscriptions.
DepthKept == state \in {"inactive", "active"} => depthOk

\* What a call that sets parameters does to the subscriptions: it stores them
\* and changes the parameter, or neither.
LEMMA SetsBothOrNone ==
  ASSUME SubscriptionsAlone, NodeTyped, OnParametersSet, depthOk
  PROVE  /\ \/ configured' = Parsed[params'.subscriptions_yaml]
            \/ configured' = configured /\ params'.subscriptions_yaml = params.subscriptions_yaml
         /\ state = "active" => configured' = configured /\ params'.subscriptions_yaml = params.subscriptions_yaml
<1>0. PICK names \in Batches : \E new \in Settings(names) : ParametersSet(names, new)
  BY ParametersStep
<1>1. PICK new \in Settings(names) : ParametersSet(names, new)
  BY <1>0
<1> USE DEF ParametersSet
<1>2. state = "active" => "subscriptions_yaml" \notin names
  BY <1>1 DEF Locked
<1>3. "subscriptions_yaml" \in names
      => "qos_depth" \notin names /\ "broker_port" \notin names
  BY DEF SubscriptionsAlone
<1>4. CASE "subscriptions_yaml" \in names /\ new.subscriptions_yaml \notin Malformed
  <2>1. params' = [n \in Names |-> IF n \in names THEN new[n] ELSE params[n]]
    BY <1>1, <1>3, <1>4
  <2>2. params'.subscriptions_yaml = new.subscriptions_yaml
    BY <1>4, <2>1 DEF Names
  <2> QED
    BY <1>1, <1>2, <1>4, <2>2
<1>5. CASE "subscriptions_yaml" \in names /\ new.subscriptions_yaml \in Malformed
  BY <1>1, <1>2, <1>5
<1>6. CASE "subscriptions_yaml" \notin names
  <2>1. params'.subscriptions_yaml = params.subscriptions_yaml
    BY <1>1, <1>6 DEF Names
  <2> QED
    BY <1>1, <1>6, <2>1
<1> QED
  BY <1>4, <1>5, <1>6

LEMMA ConfigurationStep ==
  ASSUME SubscriptionsAlone, NodeTyped, Linked, DepthKept, ConfigurationCurrent, [Next]_vars
  PROVE  DepthKept' /\ ConfigurationCurrent'
<1> USE DEF DepthKept, ConfigurationCurrent
<1>1. CASE UNCHANGED <<state, params, configured, depthOk, active>>
  BY <1>1
<1>2. Receive \/ Forward \/ PublishMetrics \/ StartClient \/ ConnectFails \/ Paho
      \/ UNCHANGED vars
      => UNCHANGED <<state, params, configured, depthOk, active>>
  BY DEF Receive, Forward, PublishMetrics, StartClient, ConnectFails, Paho, Accept, Lose,
         Reconnect, Callback, vars, members
<1>3. CASE OnConfigure
  BY <1>3 DEF OnConfigure
<1>4. CASE OnActivate
  BY <1>4 DEF OnActivate, Linked, members
<1>5. CASE OnActivateThrows
  BY <1>5 DEF OnActivateThrows
<1>6. CASE OnDeactivate
  BY <1>6 DEF OnDeactivate, members
<1>7. CASE OnCleanup \/ OnShutdown
  BY <1>7 DEF OnCleanup, OnShutdown
<1>8. CASE OnParametersSet
  <2>1. UNCHANGED <<state, active>> /\ (depthOk => depthOk')
    BY <1>8 DEF OnParametersSet
  <2>2. CASE depthOk
    BY <1>8, <2>1, <2>2, SetsBothOrNone
  <2>3. CASE ~depthOk
    BY <2>1, <2>3
  <2> QED
    BY <2>2, <2>3
<1> QED
  BY <1>1, <1>2, <1>3, <1>4, <1>5, <1>6, <1>7, <1>8 DEF Next, Lifecycle

\* A configured node works with the subscriptions its parameter shows: no order
\* of updates, refusals, connections and reconfigurations leaves an older list behind, as
\* long as no call mixes subscriptions_yaml with a parameter that may be refused.
THEOREM ConfigurationIsCurrent == SubscriptionsAlone => (Spec => []ConfigurationCurrent)
<1> SUFFICES ASSUME SubscriptionsAlone PROVE Spec => []ConfigurationCurrent
  OBVIOUS
<1>1. Init => DepthKept /\ ConfigurationCurrent
  BY DEF Init, DepthKept, ConfigurationCurrent
<1>2. Inv => NodeTyped /\ Linked
  BY TypeSplit DEF Inv
<1>3. NodeTyped /\ Linked /\ DepthKept /\ ConfigurationCurrent /\ [Next]_vars
      => DepthKept' /\ ConfigurationCurrent'
  BY ConfigurationStep
<1> QED
  BY <1>1, <1>2, <1>3, InvInit, InvStep, PTL DEF Spec

----------------------------------------------------------------------------
(* The contract of a sink *)

LEMMA ContractInit == Init => Contract!Init
<1> SUFFICES ASSUME Init PROVE Contract!Init
  OBVIOUS
<1>1. params.subscriptions_yaml \in Texts
  BY GivenFacts DEF Init
<1> QED
  BY <1>1 DEF Init, Contract!Init

LEMMA ContractStep ==
  ASSUME SubscriptionsAlone, NodeTyped, RuntimeFollowsState, DepthKept,
         ConfigurationCurrent, [Next]_vars
  PROVE  [Contract!Next]_(Contract!vars)
<1> USE DEF Contract!Next, Contract!vars
<1>1. CASE UNCHANGED <<state, params, isActive, active>>
  BY <1>1
<1>2. Receive \/ Forward \/ PublishMetrics \/ StartClient \/ ConnectFails \/ Paho
      \/ UNCHANGED vars
      => UNCHANGED <<state, params, isActive, active>>
  BY DEF Receive, Forward, PublishMetrics, StartClient, ConnectFails, Paho, Accept, Lose,
         Reconnect, Callback, vars
<1>3. CASE OnConfigure
  BY <1>3 DEF OnConfigure, Contract!Configure
<1>4. CASE OnActivate
  <2>1. isActive' /\ active' = Parsed[params.subscriptions_yaml] /\ UNCHANGED params
    BY <1>4 DEF OnActivate, ConfigurationCurrent, RuntimeFollowsState
  <2>2. CASE metrics.enabled => metrics.interval_ms
    BY <1>4, <2>1, <2>2 DEF OnActivate, RuntimeFollowsState, Contract!Activate
  <2>3. CASE ~(metrics.enabled => metrics.interval_ms)
    BY <1>4, <2>1, <2>3 DEF OnActivate, RuntimeFollowsState, Contract!ActivateThrows
  <2> QED
    BY <2>2, <2>3
<1>5. CASE OnActivateThrows
  BY <1>5 DEF OnActivateThrows, RuntimeFollowsState, Contract!ActivateThrows
<1>6. CASE OnDeactivate
  BY <1>6 DEF OnDeactivate, Contract!Deactivate
<1>7. CASE OnCleanup
  BY <1>7 DEF OnCleanup, RuntimeFollowsState, Contract!Cleanup
<1>8. CASE OnShutdown
  BY <1>8 DEF OnShutdown, Contract!Shutdown
<1>9. CASE OnParametersSet
  <2>1. UNCHANGED <<state, isActive, active>>
    BY <1>9 DEF OnParametersSet
  <2>2. CASE state = "active"
    BY <1>9, <2>1, <2>2, SetsBothOrNone DEF DepthKept
  <2>3. CASE state # "active"
    <3>1. params'.subscriptions_yaml \in Texts
      BY <1>9, ParametersTyped DEF NodeTyped, Values
    <3> QED
      BY <2>1, <2>3, <3>1 DEF RuntimeFollowsState, Contract!SetSubscriptions
  <2> QED
    BY <2>2, <2>3
<1> QED
  BY <1>1, <1>2, <1>3, <1>4, <1>5, <1>6, <1>7, <1>8, <1>9 DEF Next, Lifecycle

\* What mosquitto_sink forwards is the selection that its parameter shows, while it
\* is ACTIVE or was left FINALIZED by its activation: it implements the contract of a sink.
THEOREM SinkKeepsContract == SubscriptionsAlone => (Spec => KeepsContract)
<1> SUFFICES ASSUME SubscriptionsAlone PROVE Spec => KeepsContract
  OBVIOUS
<1>1. Init => Contract!Init /\ RuntimeFollowsState /\ DepthKept /\ ConfigurationCurrent
  BY ContractInit DEF Init, RuntimeFollowsState, DepthKept, ConfigurationCurrent
<1>2. Inv => NodeTyped /\ Linked
  BY TypeSplit DEF Inv
<1>3. Inv /\ RuntimeFollowsState /\ [Next]_vars => RuntimeFollowsState'
  BY RuntimeStep
<1>4. NodeTyped /\ Linked /\ DepthKept /\ ConfigurationCurrent /\ [Next]_vars
      => DepthKept' /\ ConfigurationCurrent'
  BY ConfigurationStep
<1>5. NodeTyped /\ RuntimeFollowsState /\ DepthKept /\ ConfigurationCurrent /\ [Next]_vars
      => [Contract!Next]_(Contract!vars)
  BY ContractStep
<1> QED
  BY <1>1, <1>2, <1>3, <1>4, <1>5, InvInit, InvStep, PTL
     DEF Spec, KeepsContract, Contract!Spec
=============================================================================
