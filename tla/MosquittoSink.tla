--------------------------- MODULE MosquittoSink ---------------------------
(***************************************************************************)
(* mosquitto_sink: a lifecycle node that subscribes to the topics of its   *)
(* parameter subscriptions_yaml and publishes their messages through the   *)
(* MqttClient it owns while it is ACTIVE.                                  *)
(*                                                                         *)
(* All callbacks of the node belong to its mutually exclusive callback     *)
(* group (GroupFree).  on_activate blocks in it until the broker has       *)
(* answered; what runs beside is the thread of paho, which takes the link  *)
(* up and down, reconnects, and after each change calls connected() or     *)
(* connection_lost(), which write connected_ without a lock.               *)
(*                                                                         *)
(* The parameters are kept as in KafkaSink: broker_port stands for every   *)
(* one that validate_mqtt_parameters() may refuse, interval_ms for the two *)
(* that the timer or the publisher may refuse.  reconnect_count_ and       *)
(* last_error_ are only reported.                                          *)
(***************************************************************************)
EXTENDS Integers, Sequences

CONSTANTS
  Topics,         \* ROS topics
  Texts,          \* values of subscriptions_yaml
  Malformed,      \* those that parse_subscriptions_yaml refuses
  Parsed,         \* the list of topics in a text; empty for a malformed one
  Unknown,        \* topics whose message type is not installed
  Intervals,      \* values of interval_ms: valid (TRUE) or not
  Batches,        \* the parameters that are set in one call
  MessageLimit    \* bound of the model: messages per activation

MqttNames == {"broker_port", "json"}
MetricsNames == {"enabled", "interval_ms"}
Names == {"subscriptions_yaml", "qos_depth"} \cup MqttNames \cup MetricsNames

ASSUME MqttAssumption ==
  /\ Malformed \subseteq Texts
  /\ Parsed \in [Texts -> Seq(Topics)]
  /\ \A text \in Malformed : Parsed[text] = <<>>
  /\ Unknown \subseteq Topics
  /\ Intervals \subseteq BOOLEAN /\ TRUE \in Intervals
  /\ Batches \subseteq SUBSET Names
  /\ MessageLimit \in Nat

Values == [subscriptions_yaml : Texts, qos_depth : BOOLEAN, broker_port : BOOLEAN,
           json : BOOLEAN, enabled : BOOLEAN, interval_ms : Intervals]
MqttValues == [broker_port : BOOLEAN, json : BOOLEAN]
MetricsValues == [enabled : BOOLEAN, interval_ms : Intervals]
States == {"unconfigured", "inactive", "active", "finalized"}

VARIABLES
  state,       \* lifecycle state
  params,      \* the ROS parameters
  configured,  \* configured_subscriptions_
  depthOk,     \* qos_depth_ > 0
  mqtt,        \* mqtt_parameters_
  metrics,     \* metrics_enabled_, and metrics_interval_ms_ with metrics_topic_
  connecting,  \* what on_activate is waiting for in connect()
  client,      \* mqtt_runtime_ is set
  link,        \* client_.is_connected()
  calling,     \* the callback that paho's thread is about to run
  connected,   \* connected_
  isActive,    \* is_active_
  active,      \* active_subscriptions_
  timer,       \* metrics_timer_ and metrics_pub_ are set
  sending,     \* a subscription callback is between its two updates of the counters
  totals,      \* the counters of the subscriptions
  reported,    \* their values when the metrics were last published: prev_*
  delta        \* the delta that was last published

members == <<configured, depthOk, mqtt, metrics>>
connection == <<connecting, client, link, calling, connected>>
counters == <<totals, reported, delta>>
vars == <<state, params, members, connection, isActive, active, timer, sending, counters>>

Counts == [received : 0..MessageLimit, sentOk : 0..MessageLimit,
           errors : 0..MessageLimit, json : 0..MessageLimit]
Zero == [received |-> 0, sentOk |-> 0, errors |-> 0, json |-> 0]

TypeOK ==
  /\ state \in States
  /\ params \in Values
  /\ configured \in Seq(Topics) /\ active \in Seq(Topics)
  /\ depthOk \in BOOLEAN /\ mqtt \in MqttValues /\ mqtt.broker_port
  /\ metrics \in MetricsValues
  /\ connecting \in {"no", "waiting", "answered"}
  /\ calling \in {"none", "connected", "lost"}
  /\ client \in BOOLEAN /\ link \in BOOLEAN /\ connected \in BOOLEAN
  /\ isActive \in BOOLEAN /\ timer \in BOOLEAN /\ sending \in BOOLEAN
  /\ totals \in Counts /\ reported \in Counts /\ delta \in Counts

\* The parameters may come from a file, which no callback has looked at.
Init ==
  /\ state = "unconfigured"
  /\ params \in Values
  /\ configured = <<>>
  /\ depthOk = TRUE
  /\ mqtt = [broker_port |-> TRUE, json |-> FALSE]
  /\ metrics = [enabled |-> FALSE, interval_ms |-> TRUE]
  /\ connecting = "no" /\ client = FALSE /\ link = FALSE
  /\ calling = "none" /\ connected = FALSE
  /\ isActive = FALSE /\ active = <<>> /\ timer = FALSE
  /\ sending = FALSE
  /\ totals = Zero /\ reported = Zero /\ delta = Zero

----------------------------------------------------------------------------
(* Helpers *)

\* The values of some of the parameters in params.
Given(names) == [n \in names |-> params[n]]

\* No callback of the node's group is running.
GroupFree == ~sending /\ connecting = "no"

\* Mutant of ClearSubscriptions: the prev_* values outlive their subscriptions.
ClearKeepsReported ==
  /\ active' = <<>>
  /\ totals' = Zero
  /\ UNCHANGED reported

\* clear_subscriptions(): their counters go with the subscriptions.
ClearSubscriptions ==
  /\ active' = <<>>
  /\ totals' = Zero
  /\ reported' = Zero

\* stop_client(): disconnect(), and the client is destroyed with what its thread
\* had still to call.
StopClient ==
  /\ client' = FALSE /\ link' = FALSE /\ connected' = FALSE
  /\ calling' = "none"
  /\ UNCHANGED connecting

\* parse_subscriptions_yaml() accepts the parameter.
Readable == params.subscriptions_yaml \notin Malformed

\* build_subscriptions() gets through the list.
Subscribable(list) == \A i \in DOMAIN list : list[i] \notin Unknown

----------------------------------------------------------------------------
(* Lifecycle callbacks *)

\* on_configure: configure_from_parameters() stores as it validates.
OnConfigure ==
  /\ GroupFree
  /\ state = "unconfigured"
  /\ depthOk' = params.qos_depth
  /\ metrics' = Given(MetricsNames)
  /\ configured' = IF params.qos_depth /\ Readable
                     THEN Parsed[params.subscriptions_yaml] ELSE configured
  /\ IF params.qos_depth /\ Readable /\ params.broker_port
     THEN mqtt' = Given(MqttNames) /\ state' = "inactive"
     ELSE UNCHANGED <<mqtt, state>>
  /\ UNCHANGED <<params, connection, isActive, active, timer, sending, counters>>

\* on_activate up to the wait in connect().
StartClient ==
  /\ GroupFree
  /\ state = "inactive"
  /\ connecting' = "waiting"
  /\ client' = TRUE
  /\ UNCHANGED <<state, params, members, link, calling, connected, isActive, active,
                 timer, sending, counters>>

\* The broker refuses or does not answer: connect() catches, on_activate fails.
ConnectFails ==
  /\ connecting = "waiting"
  /\ connecting' = "no"
  /\ client' = FALSE
  /\ UNCHANGED <<state, params, members, link, calling, connected, isActive, active,
                 timer, sending, counters>>

\* connect() stores connected_ once the wait is over, whatever paho's thread has
\* stored since; on_activate succeeds, or throws after the node has begun to forward.
OnActivate ==
  /\ connecting = "answered"
  /\ Subscribable(configured)
  /\ connecting' = "no"
  /\ connected' = TRUE
  /\ active' = configured
  /\ isActive' = TRUE
  /\ timer' = (metrics.enabled /\ metrics.interval_ms)
  /\ state' = IF metrics.enabled => metrics.interval_ms THEN "active" ELSE "finalized"
  /\ UNCHANGED <<params, members, client, link, calling, sending, counters>>

\* create_generic_subscription() throws at a type that is not installed: the node is
\* finalized with the connection and the subscriptions it has by then.
OnActivateThrows ==
  /\ connecting = "answered"
  /\ \E n \in DOMAIN configured :
       /\ configured[n] \in Unknown
       /\ active' = SubSeq(configured, 1, n - 1)
       /\ Subscribable(active')
  /\ connecting' = "no"
  /\ connected' = TRUE
  /\ state' = "finalized"
  /\ UNCHANGED <<params, members, client, link, calling, isActive, timer, sending, counters>>

\* Mutant of OnDeactivate: the client stays connected.
OnDeactivateKeepsClient ==
  /\ GroupFree
  /\ state = "active"
  /\ state' = "inactive"
  /\ isActive' = FALSE
  /\ ClearSubscriptions
  /\ timer' = FALSE
  /\ UNCHANGED <<params, members, connection, sending, delta>>

OnDeactivate ==
  /\ GroupFree
  /\ state = "active"
  /\ state' = "inactive"
  /\ isActive' = FALSE
  /\ ClearSubscriptions
  /\ StopClient
  /\ timer' = FALSE
  /\ UNCHANGED <<params, members, sending, delta>>

OnCleanup ==
  /\ GroupFree
  /\ state = "inactive"
  /\ state' = "unconfigured"
  /\ isActive' = FALSE
  /\ StopClient
  /\ ClearSubscriptions
  /\ configured' = <<>>
  /\ timer' = FALSE
  /\ UNCHANGED <<params, depthOk, mqtt, metrics, sending, delta>>

\* on_shutdown leaves the metrics timer and its publisher alone.
OnShutdown ==
  /\ GroupFree
  /\ state # "finalized"
  /\ state' = "finalized"
  /\ isActive' = FALSE
  /\ StopClient
  /\ ClearSubscriptions
  /\ configured' = <<>>
  /\ UNCHANGED <<params, depthOk, mqtt, metrics, timer, sending, delta>>

Lifecycle ==
  \/ OnConfigure \/ StartClient \/ ConnectFails \/ OnActivate \/ OnActivateThrows
  \/ OnDeactivate \/ OnCleanup \/ OnShutdown

----------------------------------------------------------------------------
(* on_parameters_set *)

\* Mutant of Locked: subscriptions_yaml can be set while the node is ACTIVE.
LockedNotSubs == MqttNames \cup MetricsNames

\* "deactivate first"
Locked == {"subscriptions_yaml"} \cup MqttNames \cup MetricsNames

\* Values for some of the parameters.
Settings(names) ==
  {new \in [names -> Texts \cup BOOLEAN] :
     \A n \in names : /\ n = "subscriptions_yaml" => new[n] \in Texts
                      /\ n = "interval_ms" => new[n] \in Intervals
                      /\ n # "subscriptions_yaml" => new[n] \in BOOLEAN}

\* The members take their new values one after another until one is refused,
\* and keep those; the ROS parameters change only when none is.  What is not set
\* comes from the members, which until the node is configured are not what the
\* parameters say.  (A call refused before that, "deactivate first" or an unknown
\* enumeration value, is a stutter.)
OnParametersSet ==
  /\ GroupFree
  /\ \E names \in Batches : \E new \in Settings(names) :
       LET set(n, old) == IF n \in names THEN new[n] ELSE old
           parses == "subscriptions_yaml" \in names => new.subscriptions_yaml \notin Malformed
           deep   == parses /\ set("qos_depth", depthOk)
           served == deep /\ set("broker_port", TRUE)
       IN
       /\ state = "active" => names \cap Locked = {}
       /\ configured' = IF parses /\ "subscriptions_yaml" \in names
                          THEN Parsed[new.subscriptions_yaml] ELSE configured
       /\ depthOk' = (deep \/ depthOk)
       /\ mqtt' = IF served THEN [n \in MqttNames |-> set(n, mqtt[n])] ELSE mqtt
       /\ metrics' = IF served THEN [n \in MetricsNames |-> set(n, metrics[n])] ELSE metrics
       /\ params' = IF served THEN [n \in Names |-> set(n, params[n])] ELSE params
  /\ UNCHANGED <<state, connection, isActive, active, timer, sending, counters>>

----------------------------------------------------------------------------
(* paho's thread *)

\* The broker accepts the connection that connect() waits for.
Accept ==
  /\ connecting = "waiting"
  /\ connecting' = "answered"
  /\ link' = TRUE
  /\ calling' = "connected"
  /\ UNCHANGED <<state, params, members, client, connected, isActive, active, timer,
                 sending, counters>>

\* The link breaks.
Lose ==
  /\ link /\ calling = "none"
  /\ link' = FALSE
  /\ calling' = "lost"
  /\ UNCHANGED <<state, params, members, connecting, client, connected, isActive, active,
                 timer, sending, counters>>

\* set_automatic_reconnect(): the link is there again.
Reconnect ==
  /\ client /\ connecting # "waiting"
  /\ ~link /\ calling = "none"
  /\ link' = TRUE
  /\ calling' = "connected"
  /\ UNCHANGED <<state, params, members, connecting, client, connected, isActive, active,
                 timer, sending, counters>>

\* Mutant of Callback: connected() is not overridden, only connection_lost() is.
CallbackOfLoss ==
  /\ calling # "none"
  /\ calling' = "none"
  /\ connected' = (connected /\ calling # "lost")
  /\ UNCHANGED <<state, params, members, connecting, client, link, isActive, active,
                 timer, sending, counters>>

\* connected() or connection_lost().
Callback ==
  /\ calling # "none"
  /\ calling' = "none"
  /\ connected' = (calling = "connected")
  /\ UNCHANGED <<state, params, members, connecting, client, link, isActive, active,
                 timer, sending, counters>>

Paho == Accept \/ Lose \/ Reconnect \/ Callback

----------------------------------------------------------------------------
(* Subscription callbacks and metrics *)

\* A message arrives at an active node; JSON conversion may fail, which counts
\* as an error of a message that was never received.
Receive ==
  /\ GroupFree
  /\ active # <<>>
  /\ isActive /\ client
  /\ totals.received + totals.json < MessageLimit
  /\ \/ /\ mqtt.json
        /\ totals' = [totals EXCEPT !.errors = @ + 1, !.json = @ + 1]
        /\ UNCHANGED sending
     \/ /\ totals' = [totals EXCEPT !.received = @ + 1]
        /\ sending' = TRUE
  /\ UNCHANGED <<state, params, members, connection, isActive, active, timer, reported, delta>>

\* MqttClient::publish() hands the message to a client that is connected, or does not.
Forward ==
  /\ sending
  /\ sending' = FALSE
  /\ \/ link /\ totals' = [totals EXCEPT !.sentOk = @ + 1]
     \/ totals' = [totals EXCEPT !.errors = @ + 1]
  /\ UNCHANGED <<state, params, members, connection, isActive, active, timer, reported, delta>>

PublishMetrics ==
  /\ GroupFree
  /\ timer
  /\ metrics.enabled
  /\ delta' = [f \in DOMAIN Zero |-> totals[f] - reported[f]]
  /\ reported' = totals
  /\ UNCHANGED <<state, params, members, connection, isActive, active, timer, sending, totals>>

----------------------------------------------------------------------------

Next == Lifecycle \/ OnParametersSet \/ Paho \/ Receive \/ Forward \/ PublishMetrics

Spec == Init /\ [][Next]_vars

----------------------------------------------------------------------------
(* Safety *)

\* No call sets subscriptions_yaml with a parameter that may be refused after it.
SubscriptionsAlone ==
  \A names \in Batches :
    "subscriptions_yaml" \in names => names \cap {"qos_depth", "broker_port"} = {}

\* is_active_, the client, the subscriptions and the reports follow the lifecycle: an
\* ACTIVE node forwards; an unconfigured or inactive one holds none of them, but for the
\* client that on_activate is waiting for.  A node that on_activate left FINALIZED by
\* throwing after is_active_ is set goes on forwarding; but no other does, none without
\* the client, and the subscriptions of a message being sent are not cleared under it.
RuntimeFollowsState ==
  /\ isActive => client /\ connecting = "no" /\ state \in {"active", "finalized"}
  /\ state = "active" => isActive
  /\ state \in {"unconfigured", "inactive"} =>
       (client => connecting # "no") /\ active = <<>> /\ ~timer
  /\ connecting # "no" => client /\ state = "inactive"
  /\ sending => isActive /\ active # <<>>

\* "deactivate first": whatever is set while the node is ACTIVE, by calls that are
\* accepted or refused half-way, what it forwards, how and with which reports stays.
FrozenStep ==
  state = "active" /\ state' = "active" =>
    UNCHANGED <<configured, active, mqtt, metrics, client, params.subscriptions_yaml>>
FrozenWhileActive == [][FrozenStep]_vars

\* A link that is up is reported as up, as soon as paho's thread has run its callback:
\* what connect(), disconnect() and the callbacks store, in whatever order, never
\* leaves a connected client reported as lost; and a client that is gone leaves no
\* connection behind.
LinkReported ==
  /\ link /\ calling = "none" /\ connecting = "no" => connected
  /\ ~client => ~link /\ ~connected

\* Every published delta accounts for each message of its interval: it was sent or in
\* error when the report was written.
ReportsBalance == delta.received + delta.json = delta.sentOk + delta.errors

\* The node keeps the contract of a sink.
Contract == INSTANCE SinkContract WITH
  Selections <- {Parsed[text] : text \in Texts},
  subs <- Parsed[params.subscriptions_yaml],
  streamed <- IF isActive THEN active ELSE <<>>

KeepsContract == Contract!Spec
=============================================================================
