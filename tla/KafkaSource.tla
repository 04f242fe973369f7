---------------------------- MODULE KafkaSource ----------------------------
(***************************************************************************)
(* kafka_source: a lifecycle node that consumes Kafka topics on a thread   *)
(* of its own while it is ACTIVE, and republishes each message on a ROS    *)
(* topic.                                                                  *)
(*                                                                         *)
(* Lifecycle and parameter services and the metrics timer are in the       *)
(* node's mutually exclusive callback group; on_deactivate and on_shutdown *)
(* block in it until they have joined the thread.  What runs beside them   *)
(* is the consumer thread: one action per step of poll_loop() and          *)
(* process_message() that touches a shared member.  publish_metrics()      *)
(* holds cache_mutex_ from beginning to end, but the thread increments the *)
(* counters without it, so the report reads them one by one.               *)
(*                                                                         *)
(* Of the parameters three are kept: routing, for ros_topic_prefix and     *)
(* topic_mappings; valid, for any one that validate_parameters() looks at; *)
(* and metrics.enabled.  A ROS topic stands for the topic with its type.   *)
(***************************************************************************)
EXTENDS Integers

CONSTANTS
  KafkaTopics,    \* topics that match the pattern
  RosTopics,      \* topics they may be republished on
  Nameless,       \* those whose names rclcpp refuses
  Routings,       \* values of the routing parameter
  Default,        \* the one that is compiled in
  Route,          \* what each makes of a Kafka topic
  NoTopic,        \* no message in hand
  MessageLimit    \* bound of the model: messages of two topics between cleanups

ASSUME SourceAssumption ==
  /\ Nameless \subseteq RosTopics
  /\ Default \in Routings
  /\ Route \in [Routings -> [KafkaTopics -> RosTopics]]
  /\ NoTopic \notin KafkaTopics \cup RosTopics
  /\ MessageLimit \in Nat

Names == {"routing", "valid", "enabled"}
Values == [routing : Routings, valid : BOOLEAN, enabled : BOOLEAN]
Defaults == [routing |-> Default, valid |-> TRUE, enabled |-> TRUE]
Counts == [received : Nat, decoded : Nat, failed : Nat]
Zero == [received |-> 0, decoded |-> 0, failed |-> 0]

VARIABLES
  state,       \* lifecycle state; "terminated": std::terminate ended the process
  params,      \* the ROS parameters
  members,     \* the members that copy them
  clean,       \* history: no update was refused since the members were read
  consumer,    \* consumer_ is set
  isActive,    \* is_active_
  running,     \* running_
  timer,       \* metrics_timer_ is set
  waiting,     \* the lifecycle callback that is joining the thread
  thread,      \* what the consumer thread does next; "none": not joinable
  source,      \* the Kafka topic of the message in hand
  target,      \* the ROS topic it goes to
  publishers,  \* publishers_
  entries,     \* the topics in metrics_
  totals,      \* their counters
  report,      \* which counter publish_metrics() reads next; 0: it is not running
  reading,     \* the topic it reads
  unread,      \* the topics it has yet to read
  seen,        \* what it has read of this topic
  reported     \* the counters as they were last reported: prev_*

runtime == <<consumer, isActive, running, timer, waiting>>
message == <<source, target>>
reportVars == <<report, reading, unread, seen, reported>>
vars == <<state, params, members, clean, runtime, thread, message, publishers,
          entries, totals, reportVars>>

States == {"unconfigured", "inactive", "active", "finalized", "terminated"}
Holding == {"count", "type", "publisher", "failed", "publish"}

TypeOK ==
  /\ state \in States
  /\ params \in Values /\ members \in Values /\ clean \in BOOLEAN
  /\ consumer \in BOOLEAN /\ isActive \in BOOLEAN
  /\ running \in BOOLEAN /\ timer \in BOOLEAN
  /\ waiting \in {"none", "deactivate", "shutdown"}
  /\ thread \in {"none", "top", "consume", "entry", "exited"} \cup Holding
  /\ source \in KafkaTopics \cup {NoTopic}
  /\ target \in RosTopics \cup {NoTopic}
  /\ publishers \subseteq RosTopics \ Nameless
  /\ entries \subseteq RosTopics
  /\ totals \in [RosTopics -> Counts] /\ reported \in [RosTopics -> Counts]
  /\ report \in 0..3
  /\ reading \in RosTopics \cup {NoTopic}
  /\ unread \subseteq RosTopics
  /\ seen \in Counts

\* The parameters may come from a file; nothing has looked at them.  The members
\* have their defaults, which are valid.
Init ==
  /\ state = "unconfigured"
  /\ params \in Values
  /\ members = Defaults
  /\ clean = FALSE
  /\ consumer = FALSE /\ isActive = FALSE /\ running = FALSE /\ timer = FALSE
  /\ waiting = "none"
  /\ thread = "none"
  /\ source = NoTopic /\ target = NoTopic
  /\ publishers = {} /\ entries = {}
  /\ totals = [t \in RosTopics |-> Zero]
  /\ report = 0 /\ reading = NoTopic /\ unread = {} /\ seen = Zero
  /\ reported = [t \in RosTopics |-> Zero]

----------------------------------------------------------------------------
(* Helpers *)

\* No callback of the node's group is running.
GroupFree == state # "terminated" /\ waiting = "none" /\ report = 0

\* Mutant of CacheFree: the report does not hold the mutex while it reads.
NeverHeld == TRUE

\* cache_mutex_ is free: only publish_metrics() holds it for more than a step.
CacheFree == report = 0

\* validate_parameters() accepts these values.
Valid(values) == values.valid

\* The mapping of a Kafka topic, or what derive_ros_topic() makes of it.
RosTopic(topic) == Route[members.routing][topic]

\* A counter of a topic goes up.
Increment(topic, counter) == totals' = [totals EXCEPT ![topic][counter] = @ + 1]

\* A message goes into process_message() and out again.
Done == thread' = "top" /\ source' = NoTopic /\ target' = NoTopic

\* What a process leaves behind that has ended.
ProcessGone ==
  /\ consumer' = FALSE /\ isActive' = FALSE /\ running' = FALSE /\ timer' = FALSE
  /\ waiting' = "none" /\ clean' = FALSE
  /\ thread' = "none" /\ source' = NoTopic /\ target' = NoTopic
  /\ publishers' = {} /\ entries' = {}
  /\ totals' = [t \in RosTopics |-> Zero]
  /\ report' = 0 /\ reading' = NoTopic /\ unread' = {} /\ seen' = Zero
  /\ reported' = [t \in RosTopics |-> Zero]

----------------------------------------------------------------------------
(* Lifecycle callbacks *)

\* Mutant of OnConfigure: the mappings are not read again.
OnConfigureKeepsRouting ==
  /\ GroupFree
  /\ state = "unconfigured"
  /\ members' = [params EXCEPT !.routing = members.routing]
  /\ clean' = TRUE
  /\ IF Valid(params) THEN state' = "inactive" ELSE UNCHANGED state
  /\ UNCHANGED <<params, runtime, thread, message, publishers, entries, totals, reportVars>>

\* on_configure reads all parameters before it validates them.  Making the
\* publisher of the metrics throws if metrics.topic is no name: FINALIZED.
OnConfigure ==
  /\ GroupFree
  /\ state = "unconfigured"
  /\ members' = params
  /\ clean' = TRUE
  /\ IF Valid(params) THEN state' \in {"inactive", "finalized"} ELSE UNCHANGED state
  /\ UNCHANGED <<params, runtime, thread, message, publishers, entries, totals, reportVars>>

\* on_activate; reset_metrics_timer() comes before the thread is started.
OnActivate ==
  /\ GroupFree
  /\ state = "inactive"
  /\ state' = "active"
  /\ consumer' = TRUE
  /\ isActive' = TRUE
  /\ timer' = members.enabled
  /\ running' = TRUE
  /\ thread' = "top"
  /\ UNCHANGED <<params, members, clean, waiting, message, publishers, entries, totals, reportVars>>

\* start_consumer() fails.
OnActivateFails ==
  /\ GroupFree
  /\ state = "inactive"
  /\ UNCHANGED vars

\* An interval that a refused update has left in the members: the timer cannot be
\* made, and on_activate throws with the consumer made and is_active_ set.
OnActivateThrows ==
  /\ GroupFree
  /\ state = "inactive"
  /\ members.enabled /\ ~Valid(members)
  /\ state' = "finalized"
  /\ consumer' = TRUE
  /\ isActive' = TRUE
  /\ UNCHANGED <<params, members, clean, running, timer, waiting, thread, message,
                 publishers, entries, totals, reportVars>>

\* on_deactivate up to the join.
OnDeactivate ==
  /\ GroupFree
  /\ state = "active"
  /\ running' = FALSE
  /\ waiting' = "deactivate"
  /\ UNCHANGED <<state, params, members, clean, consumer, isActive, timer, thread, message,
                 publishers, entries, totals, reportVars>>

\* Mutant of Deactivated: the consumer is closed without joining the thread.
DeactivatedEarly ==
  /\ waiting = "deactivate"
  /\ state' = "inactive"
  /\ consumer' = FALSE
  /\ isActive' = FALSE
  /\ timer' = FALSE
  /\ waiting' = "none"
  /\ UNCHANGED <<params, members, clean, running, thread, message, publishers,
                 entries, totals, reportVars>>

\* on_deactivate once the thread is joined: stop_consumer(), and the timer goes.
Deactivated ==
  /\ waiting = "deactivate"
  /\ thread \in {"none", "exited"}
  /\ thread' = "none"
  /\ state' = "inactive"
  /\ consumer' = FALSE
  /\ isActive' = FALSE
  /\ timer' = FALSE
  /\ waiting' = "none"
  /\ UNCHANGED <<params, members, clean, running, message, publishers, entries, totals, reportVars>>

\* on_cleanup: an INACTIVE node has neither thread nor consumer, so all that is
\* left is to drop the caches; the counters and prev_* go with metrics_.
OnCleanup ==
  /\ GroupFree
  /\ state = "inactive"
  /\ state' = "unconfigured"
  /\ consumer' = FALSE /\ isActive' = FALSE /\ running' = FALSE /\ timer' = FALSE
  /\ publishers' = {} /\ entries' = {}
  /\ totals' = [t \in RosTopics |-> Zero]
  /\ reported' = [t \in RosTopics |-> Zero]
  /\ UNCHANGED <<params, members, clean, waiting, thread, message, report, reading, unread, seen>>

\* on_shutdown up to the join; is_active_ goes first.
OnShutdown ==
  /\ GroupFree
  /\ state \in {"unconfigured", "inactive", "active"}
  /\ isActive' = FALSE
  /\ running' = FALSE
  /\ waiting' = "shutdown"
  /\ UNCHANGED <<state, params, members, clean, consumer, timer, thread, message,
                 publishers, entries, totals, reportVars>>

\* on_shutdown once the thread is joined.  The metrics timer goes on.
ShutDown ==
  /\ waiting = "shutdown"
  /\ thread \in {"none", "exited"}
  /\ thread' = "none"
  /\ state' = "finalized"
  /\ consumer' = FALSE
  /\ waiting' = "none"
  /\ UNCHANGED <<params, members, clean, isActive, running, timer, message, publishers,
                 entries, totals, reportVars>>

Lifecycle ==
  \/ OnConfigure \/ OnActivate \/ OnActivateFails \/ OnActivateThrows
  \/ OnDeactivate \/ OnCleanup \/ OnShutdown
Joined == Deactivated \/ ShutDown

----------------------------------------------------------------------------
(* on_parameters_set *)

\* "Cannot change parameters while node is active."
Locked == isActive

\* Some of the parameters take new values.
Assign(old, names, new) == [n \in Names |-> IF n \in names THEN new[n] ELSE old[n]]

\* The members take the new values of some parameters, and keep them when
\* validate_parameters() then refuses the lot; the ROS parameters do not.
OnParametersSet ==
  /\ GroupFree
  /\ ~Locked
  /\ \E names \in SUBSET Names, new \in Values :
       /\ members' = Assign(members, names, new)
       /\ params' = IF Valid(members') THEN Assign(params, names, new) ELSE params
       /\ clean' = (clean /\ Valid(members'))
  /\ UNCHANGED <<state, runtime, thread, message, publishers, entries, totals, reportVars>>

----------------------------------------------------------------------------
(* The consumer thread *)

\* The head of the loop in poll_loop().
CheckRunning ==
  /\ thread = "top"
  /\ thread' = IF running THEN "consume" ELSE "exited"
  /\ UNCHANGED <<state, params, members, clean, runtime, message, publishers, entries,
                 totals, reportVars>>

\* Mutant of NothingConsumed: consume() has no timeout.
WaitsForMessage == thread = "consume" /\ UNCHANGED vars

\* A second without a message, an error of the client, a message that is empty or
\* has no ros_type header.
NothingConsumed ==
  /\ thread = "consume"
  /\ thread' = "top"
  /\ UNCHANGED <<state, params, members, clean, runtime, message, publishers, entries,
                 totals, reportVars>>

\* consume() returns a message that process_message() goes on with.
Consume ==
  /\ thread = "consume"
  /\ consumer
  /\ \A t, u \in RosTopics :
       t # u => totals[t].received + totals[u].received < MessageLimit
  /\ source' \in KafkaTopics
  /\ thread' = "entry"
  /\ UNCHANGED <<state, params, members, clean, runtime, target, publishers, entries,
                 totals, reportVars>>

\* topic_mappings_ and the prefix give the ROS topic; its entry in metrics_ is
\* found or made under cache_mutex_.
FindEntry ==
  /\ thread = "entry"
  /\ CacheFree
  /\ target' = RosTopic(source)
  /\ entries' = entries \cup {target'}
  /\ thread' = "count"
  /\ UNCHANGED <<state, params, members, clean, runtime, source, publishers, totals, reportVars>>

CountReceived ==
  /\ thread = "count"
  /\ Increment(target, "received")
  /\ thread' = "type"
  /\ UNCHANGED <<state, params, members, clean, runtime, message, publishers, entries, reportVars>>

\* ensure_type_support() under cache_mutex_: the type may not be installed.
FindType ==
  /\ thread = "type"
  /\ CacheFree
  /\ thread' \in {"publisher", "failed"}
  /\ UNCHANGED <<state, params, members, clean, runtime, message, publishers, entries,
                 totals, reportVars>>

\* Mutant of FindPublisher: what cannot be made is cached all the same.
FindPublisherUnchecked ==
  /\ thread = "publisher"
  /\ CacheFree
  /\ publishers' = publishers \cup {target}
  /\ thread' = "publish"
  /\ UNCHANGED <<state, params, members, clean, runtime, message, entries, totals, reportVars>>

\* get_or_create_publisher() under cache_mutex_.
FindPublisher ==
  /\ thread = "publisher"
  /\ CacheFree
  /\ target \notin Nameless
  /\ publishers' = publishers \cup {target}
  /\ thread' = "publish"
  /\ UNCHANGED <<state, params, members, clean, runtime, message, entries, totals, reportVars>>

\* Nothing catches what create_generic_publisher() throws at a topic that has no
\* legal name: std::terminate ends the process.
PublisherThrows ==
  /\ thread = "publisher"
  /\ CacheFree
  /\ target \in Nameless
  /\ state' = "terminated"
  /\ ProcessGone
  /\ UNCHANGED <<params, members>>

CountFailed ==
  /\ thread = "failed"
  /\ Increment(target, "failed")
  /\ Done
  /\ UNCHANGED <<state, params, members, clean, runtime, publishers, entries, reportVars>>

Publish ==
  /\ thread = "publish"
  /\ Increment(target, "decoded")
  /\ Done
  /\ UNCHANGED <<state, params, members, clean, runtime, publishers, entries, reportVars>>

ConsumerThread ==
  \/ CheckRunning \/ NothingConsumed \/ Consume \/ FindEntry \/ CountReceived
  \/ FindType \/ FindPublisher \/ PublisherThrows \/ CountFailed \/ Publish

----------------------------------------------------------------------------
(* publish_metrics *)

\* The order in which the counters of a topic are read.
Order == <<"received", "decoded", "failed">>

\* The timer fires; with no topics there is nothing to read.
PublishMetrics ==
  /\ GroupFree
  /\ timer
  /\ members.enabled
  /\ reading' \in entries
  /\ unread' = entries \ {reading'}
  /\ report' = 1
  /\ UNCHANGED <<state, params, members, clean, runtime, thread, message, publishers,
                 entries, totals, seen, reported>>

\* One load of an atomic counter.  With the last of a topic its prev_* values are
\* stored and the next topic is begun.
ReadCounter ==
  /\ report # 0
  /\ LET counter == Order[report]
         read == [seen EXCEPT ![counter] = totals[reading][counter]]
     IN IF report < 3
        THEN /\ seen' = read
             /\ report' = report + 1
             /\ UNCHANGED <<reading, unread, reported>>
        ELSE /\ reported' = [reported EXCEPT ![reading] = read]
             /\ seen' = Zero
             /\ \/ unread = {} /\ report' = 0 /\ reading' = NoTopic /\ unread' = {}
                \/ reading' \in unread /\ unread' = unread \ {reading'} /\ report' = 1
  /\ UNCHANGED <<state, params, members, clean, runtime, thread, message, publishers,
                 entries, totals>>

----------------------------------------------------------------------------

\* Somebody starts the container again; this is all that helps a FINALIZED node.
Launch ==
  /\ state \in {"finalized", "terminated"}
  /\ state' = "unconfigured"
  /\ params' \in Values
  /\ members' = Defaults
  /\ ProcessGone

Next ==
  \/ Lifecycle \/ Joined \/ OnParametersSet
  \/ ConsumerThread \/ PublishMetrics \/ ReadCounter \/ Launch

Spec == Init /\ [][Next]_vars

\* The thread is scheduled, and consume() returns after a second at the latest; a
\* join that can return does; a report takes cache_mutex_ for a finite time.
FairSpec == Spec /\ WF_vars(ConsumerThread) /\ WF_vars(Joined) /\ WF_vars(ReadCounter)

----------------------------------------------------------------------------
(* Safety *)

\* The thread runs while the node is ACTIVE and until it is joined, and finds its
\* consumer there; an unconfigured or inactive node has no consumer, no reports and
\* an open parameter callback, and an unconfigured one has no publishers left.
RuntimeFollowsState ==
  /\ thread # "none" <=> state = "active"
  /\ running <=> state = "active" /\ waiting = "none"
  /\ state = "active" => consumer
  /\ state \in {"unconfigured", "inactive"} => ~consumer /\ ~timer /\ ~isActive
  /\ state = "unconfigured" => publishers = {} /\ entries = {}

\* Every message that process_message() has counted is published or failed, or is
\* the one in hand.
Accounted ==
  \A t \in RosTopics :
    LET inHand == t = target /\ thread \in Holding \ {"count"} IN
    totals[t].received = totals[t].decoded + totals[t].failed + (IF inHand THEN 1 ELSE 0)

\* While no update is refused, a message goes where the ROS parameters of the node
\* say: the mappings are read by the thread and written by other callbacks, after
\* file, configuration, updates and cleanup in any order.
RoutedAsConfigured ==
  clean /\ thread \in Holding => target = Route[params.routing][source]

\* The counters of a report are read one by one while the thread increments them,
\* and yet they differ by at most the message in hand: for the next one the thread
\* needs cache_mutex_, which the report holds.
ReportsNearlyBalance ==
  \A t \in RosTopics :
    LET answered == reported[t].decoded + reported[t].failed IN
    reported[t].received \in {answered, answered + 1}

\* The counters add up, at every moment and in every report.
CountersAddUp == Accounted /\ ReportsNearlyBalance

\* The thread reads the members without a lock: nothing writes them while it runs.
FrozenWhileRead == [][thread \notin {"none", "exited"} => UNCHANGED members]_vars

----------------------------------------------------------------------------
(* Liveness *)

\* on_deactivate and on_shutdown return: the join is never waited for in vain.
DeactivationReturns == waiting # "none" ~> waiting = "none"

\* What it rests on: the steps that the thread still takes once running_ is FALSE.
ThreadSteps ==
  CASE thread = "consume" -> 7 [] thread = "entry" -> 6 [] thread = "count" -> 5
    [] thread = "type" -> 4 [] thread = "publisher" -> 3
    [] thread \in {"publish", "failed"} -> 2 [] thread = "top" -> 1 [] OTHER -> 0

\* A callback that joins the thread holds up everything else, the mutex included
\* that the thread may need: whatever happens then ends the join or is one of at
\* most seven steps of the thread.
JoinAdvances ==
  waiting # "none" =>
    /\ CacheFree
    /\ ThreadSteps <= 7
    /\ ThreadSteps = 0 <=> thread \in {"none", "exited"}
    /\ waiting' = "none" \/ (waiting' = waiting /\ ThreadSteps' < ThreadSteps)
JoinBounded == [][JoinAdvances]_vars
=============================================================================
