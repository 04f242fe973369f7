----------------------------- MODULE KafkaSink -----------------------------
(***************************************************************************)
(* kafka_sink: a lifecycle node that subscribes to the topics of its       *)
(* parameter subscriptions_yaml and hands their messages to the Kafka      *)
(* producer it owns while it is ACTIVE.                                    *)
(*                                                                         *)
(* The node runs in a multi-threaded container, but the lifecycle and      *)
(* parameter services, the subscriptions and the metrics timer all belong  *)
(* to its default callback group, which is mutually exclusive: GroupFree.  *)
(* A service call is one action; the forwarding of a message is two,       *)
(* because its counters change before and after the call of send().        *)
(*                                                                         *)
(* The parameters are kept as far as they decide something: the text of    *)
(* subscriptions_yaml, whether qos_depth, telemetry.log_every_n, kafka.acks *)
(* and metrics.interval_ms have valid values, and the switches             *)
(* strict_startup, json (the payload_format) and metrics.enabled.  acks    *)
(* stands for every parameter that validate_kafka_parameters() may refuse, *)
(* interval_ms for the two that the timer or the publisher may refuse.     *)
(***************************************************************************)
EXTENDS Integers, Sequences

CONSTANTS
  Topics,         \* ROS topics
  Texts,          \* values of subscriptions_yaml
  Malformed,      \* those that parse_subscriptions_yaml refuses
  Parsed,         \* the list of topics in a text; empty for a malformed one
  Unknown,        \* topics whose message type is not installed
  Intervals,      \* values of interval_ms: valid (TRUE) or not
  Batches,        \* the parameters that are set in one call
  MessageLimit    \* bound of the model: messages per activation

KafkaNames == {"acks", "strict_startup", "json"}
MetricsNames == {"enabled", "interval_ms"}
Names == {"subscriptions_yaml", "qos_depth", "log_every_n"} \cup KafkaNames \cup MetricsNames

ASSUME SinkAssumption ==
  /\ Malformed \subseteq Texts
  /\ Parsed \in [Texts -> Seq(Topics)]
  /\ \A text \in Malformed : Parsed[text] = <<>>
  /\ Unknown \subseteq Topics
  /\ Intervals \subseteq BOOLEAN /\ TRUE \in Intervals
  /\ Batches \subseteq SUBSET Names
  /\ MessageLimit \in Nat

Values == [subscriptions_yaml : Texts, qos_depth : BOOLEAN, log_every_n : BOOLEAN,
           acks : BOOLEAN, strict_startup : BOOLEAN, json : BOOLEAN,
           enabled : BOOLEAN, interval_ms : Intervals]
KafkaValues == [acks : BOOLEAN, strict_startup : BOOLEAN, json : BOOLEAN]
MetricsValues == [enabled : BOOLEAN, interval_ms : Intervals]
States == {"unconfigured", "inactive", "active", "finalized"}

VARIABLES
  state,       \* lifecycle state
  params,      \* the ROS parameters
  configured,  \* configured_subscriptions_
  depthOk,     \* qos_depth_ > 0
  kafka,       \* kafka_parameters_
  metrics,     \* metrics_enabled_, and metrics_interval_ms_ with metrics_topic_
  producer,    \* kafka_producer_ is set
  isActive,    \* is_active_
  active,      \* active_subscriptions_
  timer,       \* metrics_timer_ and metrics_pub_ are set
  sending,     \* a subscription callback is between its two updates of the counters
  totals,      \* the counters of the subscriptions
  reported,    \* their values when the metrics were last published: prev_*
  delta        \* the delta that was last published

members == <<configured, depthOk, kafka, metrics>>
counters == <<totals, reported, delta>>
vars == <<state, params, members, producer, isActive, active, timer, sending, counters>>

Counts == [received : 0..MessageLimit, sentOk : 0..MessageLimit,
           dropped : 0..MessageLimit, errors : 0..MessageLimit, json : 0..MessageLimit]
Zero == [received |-> 0, sentOk |-> 0, dropped |-> 0, errors |-> 0, json |-> 0]

TypeOK ==
  /\ state \in States
  /\ params \in Values
  /\ configured \in Seq(Topics) /\ active \in Seq(Topics)
  /\ depthOk \in BOOLEAN /\ kafka \in KafkaValues /\ kafka.acks
  /\ metrics \in MetricsValues
  /\ producer \in BOOLEAN /\ isActive \in BOOLEAN /\ timer \in BOOLEAN
  /\ sending \in BOOLEAN
  /\ totals \in Counts /\ reported \in Counts /\ delta \in Counts

\* The parameters may come from a file, which no callback has looked at.
Init ==
  /\ state = "unconfigured"
  /\ params \in Values
  /\ configured = <<>>
  /\ depthOk = TRUE
  /\ kafka = [acks |-> TRUE, strict_startup |-> FALSE, json |-> FALSE]
  /\ metrics = [enabled |-> FALSE, interval_ms |-> TRUE]
  /\ producer = FALSE /\ isActive = FALSE /\ active = <<>> /\ timer = FALSE
  /\ sending = FALSE
  /\ totals = Zero /\ reported = Zero /\ delta = Zero

----------------------------------------------------------------------------
(* Helpers *)

\* The values of some of the parameters in params.
Given(names) == [n \in names |-> params[n]]

\* Mutant of GroupFree: the callbacks are in a reentrant group.
GroupReentrant == sending \in BOOLEAN

\* No callback of the node's group is running.
GroupFree == ~sending

\* Mutant of ClearSubscriptions: the prev_* values outlive their subscriptions.
ClearKeepsReported ==
  /\ active' = <<>>
  /\ totals' = Zero
  /\ UNCHANGED reported

\* clear_subscriptions(): their counters go with the subscriptions.
ClearSubscriptions ==
  /\ active' = <<>>
  /\ totals' = Zero
  /\ reported' = Zero

\* parse_subscriptions_yaml() accepts the parameter.
Readable == params.subscriptions_yaml \notin Malformed

\* build_subscriptions() gets through the list.
Subscribable(list) == \A i \in DOMAIN list : list[i] \notin Unknown

----------------------------------------------------------------------------
(* Lifecycle callbacks *)

\* Mutant of OnConfigure: the subscriptions are not read again.
OnConfigureKeepsSubscriptions ==
  /\ GroupFree
  /\ state = "unconfigured"
  /\ depthOk' = params.qos_depth
  /\ metrics' = Given(MetricsNames)
  /\ UNCHANGED configured
  /\ IF params.qos_depth /\ params.log_every_n /\ Readable /\ params.acks
     THEN kafka' = Given(KafkaNames) /\ state' = "inactive"
     ELSE UNCHANGED <<kafka, state>>
  /\ UNCHANGED <<params, producer, isActive, active, timer, sending, counters>>

\* on_configure: configure_from_parameters() stores as it validates.
OnConfigure ==
  /\ GroupFree
  /\ state = "unconfigured"
  /\ depthOk' = params.qos_depth
  /\ metrics' = Given(MetricsNames)
  /\ configured' = IF params.qos_depth /\ params.log_every_n /\ Readable
                     THEN Parsed[params.subscriptions_yaml] ELSE configured
  /\ IF params.qos_depth /\ params.log_every_n /\ Readable /\ params.acks
     THEN kafka' = Given(KafkaNames) /\ state' = "inactive"
     ELSE UNCHANGED <<kafka, state>>
  /\ UNCHANGED <<params, producer, isActive, active, timer, sending, counters>>

\* on_activate succeeds, or throws after the node has begun to forward.
OnActivate ==
  /\ GroupFree
  /\ state = "inactive"
  /\ Subscribable(configured)
  /\ producer' = TRUE
  /\ active' = configured
  /\ isActive' = TRUE
  /\ timer' = (metrics.enabled /\ metrics.interval_ms)
  /\ state' = IF metrics.enabled => metrics.interval_ms THEN "active" ELSE "finalized"
  /\ UNCHANGED <<params, members, sending, counters>>

\* A STRICT producer does not start.
OnActivateFails ==
  /\ GroupFree
  /\ state = "inactive"
  /\ kafka.strict_startup
  /\ UNCHANGED vars

\* create_generic_subscription() throws at a type that is not installed: the
\* node is finalized with the producer and the subscriptions it has by then.
OnActivateThrows ==
  /\ GroupFree
  /\ state = "inactive"
  /\ \E n \in DOMAIN configured :
       /\ configured[n] \in Unknown
       /\ active' = SubSeq(configured, 1, n - 1)
       /\ Subscribable(active')
  /\ producer' = TRUE
  /\ state' = "finalized"
  /\ UNCHANGED <<params, members, isActive, timer, sending, counters>>

\* Mutant of OnDeactivate: the producer is not stopped.
OnDeactivateKeepsProducer ==
  /\ GroupFree
  /\ state = "active"
  /\ state' = "inactive"
  /\ isActive' = FALSE
  /\ ClearSubscriptions
  /\ timer' = FALSE
  /\ UNCHANGED <<params, members, producer, sending, delta>>

OnDeactivate ==
  /\ GroupFree
  /\ state = "active"
  /\ state' = "inactive"
  /\ isActive' = FALSE
  /\ ClearSubscriptions
  /\ producer' = FALSE
  /\ timer' = FALSE
  /\ UNCHANGED <<params, members, sending, delta>>

OnCleanup ==
  /\ GroupFree
  /\ state = "inactive"
  /\ state' = "unconfigured"
  /\ isActive' = FALSE
  /\ producer' = FALSE
  /\ ClearSubscriptions
  /\ configured' = <<>>
  /\ timer' = FALSE
  /\ UNCHANGED <<params, depthOk, kafka, metrics, sending, delta>>

\* on_shutdown leaves the metrics timer and its publisher alone.
OnShutdown ==
  /\ GroupFree
  /\ state # "finalized"
  /\ state' = "finalized"
  /\ isActive' = FALSE
  /\ producer' = FALSE
  /\ ClearSubscriptions
  /\ configured' = <<>>
  /\ UNCHANGED <<params, depthOk, kafka, metrics, timer, sending, delta>>

Lifecycle ==
  \/ OnConfigure \/ OnActivate \/ OnActivateFails \/ OnActivateThrows
  \/ OnDeactivate \/ OnCleanup \/ OnShutdown

----------------------------------------------------------------------------
(* on_parameters_set *)

\* Mutant of Locked: subscriptions_yaml can be set while the node is ACTIVE.
LockedNotSubs == KafkaNames \cup MetricsNames

\* "deactivate first"
Locked == {"subscriptions_yaml"} \cup KafkaNames \cup MetricsNames

\* Values for some of the parameters.
Settings(names) ==
  {new \in [names -> Texts \cup BOOLEAN] :
     \A n \in names : /\ n = "subscriptions_yaml" => new[n] \in Texts
                      /\ n = "interval_ms" => new[n] \in Intervals
                      /\ n # "subscriptions_yaml" => new[n] \in BOOLEAN}

\* The members take their new values one after another until one is refused,
\* and keep those; the ROS parameters change only when none is.  What is not set
\* comes from the members, which until the node is configured are not what the
\* parameters say.  (A call refused before that, "deactivate first" or an unknown
\* enumeration value, is a stutter.)
OnParametersSet ==
  /\ GroupFree
  /\ \E names \in Batches : \E new \in Settings(names) :
       LET set(n, old) == IF n \in names THEN new[n] ELSE old
           parses == "subscriptions_yaml" \in names => new.subscriptions_yaml \notin Malformed
           deep   == parses /\ set("qos_depth", depthOk)
           served == deep /\ set("acks", TRUE)
       IN
       /\ state = "active" => names \cap Locked = {}
       /\ configured' = IF parses /\ "subscriptions_yaml" \in names
                          THEN Parsed[new.subscriptions_yaml] ELSE configured
       /\ depthOk' = (deep \/ depthOk)
       /\ kafka' = IF served THEN [n \in KafkaNames |-> set(n, kafka[n])] ELSE kafka
       /\ metrics' = IF served THEN [n \in MetricsNames |-> set(n, metrics[n])] ELSE metrics
       /\ params' = IF served /\ set("log_every_n", TRUE)
                      THEN [n \in Names |-> set(n, params[n])] ELSE params
  /\ UNCHANGED <<state, producer, isActive, active, timer, sending, counters>>

----------------------------------------------------------------------------
(* Subscription callbacks and metrics *)

\* A message arrives at an active node; JSON conversion may fail, which counts
\* as an error of a message that was never received.
Receive ==
  /\ GroupFree
  /\ active # <<>>
  /\ isActive /\ producer
  /\ totals.received + totals.json < MessageLimit
  /\ \/ /\ kafka.json
        /\ totals' = [totals EXCEPT !.errors = @ + 1, !.json = @ + 1]
        /\ UNCHANGED sending
     \/ /\ totals' = [totals EXCEPT !.received = @ + 1]
        /\ sending' = TRUE
  /\ UNCHANGED <<state, params, members, producer, isActive, active, timer, reported, delta>>

\* send() has answered: SENT, QUEUE_FULL for a record it did not buffer, or
\* anything else, a buffered record included.
Forward ==
  /\ sending
  /\ sending' = FALSE
  /\ \E outcome \in {"sentOk", "dropped", "errors"} :
       totals' = [totals EXCEPT ![outcome] = @ + 1]
  /\ UNCHANGED <<state, params, members, producer, isActive, active, timer, reported, delta>>

PublishMetrics ==
  /\ GroupFree
  /\ timer
  /\ metrics.enabled
  /\ delta' = [f \in DOMAIN Zero |-> totals[f] - reported[f]]
  /\ reported' = totals
  /\ UNCHANGED <<state, params, members, producer, isActive, active, timer, sending, totals>>

----------------------------------------------------------------------------

Next == Lifecycle \/ OnParametersSet \/ Receive \/ Forward \/ PublishMetrics

Spec == Init /\ [][Next]_vars

----------------------------------------------------------------------------
(* Safety *)

\* No call sets subscriptions_yaml with a parameter that may be refused after it.
SubscriptionsAlone ==
  \A names \in Batches :
    "subscriptions_yaml" \in names => names \cap {"qos_depth", "acks", "log_every_n"} = {}

\* is_active_, the producer, the subscriptions and the reports follow the lifecycle: an
\* ACTIVE node forwards, an unconfigured or inactive one holds none of them.  A node that
\* on_activate left FINALIZED by throwing after is_active_ is set goes on forwarding; but
\* no other does, none without the producer, and the subscriptions of a message that is
\* being sent are not cleared under it.
RuntimeFollowsState ==
  /\ isActive => producer /\ state \in {"active", "finalized"}
  /\ state = "active" => isActive
  /\ state \in {"unconfigured", "inactive"} => ~producer /\ active = <<>> /\ ~timer
  /\ sending => isActive /\ active # <<>>

\* "deactivate first": whatever is set while the node is ACTIVE, by calls that are
\* accepted or refused half-way, what it forwards, how and with which reports stays.
FrozenStep ==
  state = "active" /\ state' = "active" =>
    UNCHANGED <<configured, active, kafka, metrics, producer, params.subscriptions_yaml>>
FrozenWhileActive == [][FrozenStep]_vars

\* A configured node works with the subscriptions that its parameter shows, and
\* an active one is subscribed to them: reconfiguration, refused and repeated
\* updates never leave an older list behind.
ConfigurationCurrent ==
  /\ state \in {"inactive", "active"} => configured = Parsed[params.subscriptions_yaml]
  /\ state = "active" => active = configured

\* Every published delta accounts for each message of its interval: it was sent,
\* dropped or in error when the report was written.
ReportsBalance ==
  delta.received + delta.json = delta.sentOk + delta.dropped + delta.errors

\* The node keeps the contract of a sink.
Contract == INSTANCE SinkContract WITH
  Selections <- {Parsed[text] : text \in Texts},
  subs <- Parsed[params.subscriptions_yaml],
  streamed <- IF isActive THEN active ELSE <<>>

KeepsContract == Contract!Spec
=============================================================================
