# A formal model of ros2_dispatcher

TLA+ specifications of the dispatcher, model-checked with TLC and partly proved
with TLAPS. Paths below are relative to `src/`; every definition that models code
is tied to its lines in `PROJECT.json` ("map").

## 1. The system and its parts

The dispatcher streams selected ROS 2 topics to Kafka and MQTT. A controller
decides what is streamed; two lifecycle nodes, the sinks, do it; processing
components ("topic tools", such as throttles) can be put in front of them.

```
 rqt GUI ──services──> dispatcher_controller ──get_state, change_state, set_parameters──> kafka_sink ──> KafkaProducer ──> librdkafka
 parameters, file ───>        │       └───────────────────────────────────────────────> mosquitto_sink ──> paho
                              ├── list_topics, introspection_enabled ──> introspection_manager
                              └── load_node, unload_node ──> component container (topic_tools)
 Kafka ──> kafka_source ──> ROS          kafka_cdr_to_json, gis_health_node ──> KafkaProducer
```

| Part | State | Operations | What is hard | What makes it correct |
|---|---|---|---|---|
| `dispatcher_controller` | phase, mode, one cached selection per mode, applied selection, loaded tools by input topic | five services, a parameter callback, a startup timer; all under one mutex | blocking calls of four other nodes in a row, each of which may fail, time out and still be executed, or meet a node that restarted; failure half-way | phase never stuck; no illegal call; tools exchanged while the Kafka sink (in a stop, both sinks) is not ACTIVE; success means streaming (or silence); no component forgotten; every handler returns; a retry works |
| `kafka_client` (`KafkaProducer`) | running flag, status, client, retry buffer, counters | `send` (any thread), `start`/`stop` (owner), poll thread, `health` | three threads, a mutex that is not always held, a wait with a lost wake-up, a bounded buffer that overtakes or is overtaken | no use of a destroyed client; accounts balance; FIFO; bounded buffer; `stop` returns; `health` is truthful |
| `kafka_sink` | lifecycle state, parameters and their copies in members, producer, subscriptions, counters, metrics timer | seven lifecycle outcomes, parameter callback, subscription callback, metrics timer | copies assigned before the rest of a call is validated; activation that fails or throws half-way; counters read while a callback is between two updates | runtime follows lifecycle; configured = shown by the parameter; reports balance; `SinkContract` |
| `mosquitto_sink` | as `kafka_sink`, with `MqttClient` and its `connected_` flag | as `kafka_sink`, and paho's two callbacks | paho's thread takes the link up and down and writes the flag while `connect()` waits, stores or is already back | a link that is up is reported; runtime follows lifecycle; reports balance; `SinkContract` |
| `introspection_manager` | list of topics, the copy it is compared with, three flags, the monitor thread, the graph event | graph thread, `get_topics`, parameter callback | two threads run `update_topics()` under a mutex that covers a part of it; the callback joins the thread; a graph change between the read and the next registration | a joinable thread is never replaced; lists agree after an update that was alone; callbacks return; a notified change is shown |
| `kafka_source` | lifecycle state, parameters and their copies, consumer, thread, `publishers_`, `metrics_` | lifecycle, parameter callback, poll loop, metrics timer | the thread reads members without a lock; deactivation blocks until it is joined; exceptions in the thread; a report reads counters that the thread increments | members frozen while they are read; every message in one account; routing as configured; counters and reports add up; deactivation returns |
| `kafka_cdr_to_json` | as `kafka_source`, with a producer and the offsets of its consumer group | lifecycle, parameter callback, poll loop with conversion and produce, metrics timer | offsets are committed by librdkafka's clock; crash between conversion and commit, or before a first commit; a conversion that goes to a topic the node reads | a committed offset passes over nothing but a record in hand at a crash and what a reset to `latest` has passed over; none converted twice while no stored offset is lost; no echo; counters add up |
| `gis_health_node` | lifecycle state, list of robots, timer, the producer it owns | lifecycle callbacks, timer | a message that is sent once, through a producer without a broker | no PING overtakes a REGISTRATION that still waits; the first announcements are not dropped |
| `gui_client` | lists of topics | service calls | its lists against the controller's | — (requests only) |

`PROJECT.json` lists all parts, also those with no code to model (messages, launch
files, container definitions, offline tools, docs), and the hazards at their lines.

## 2. Modules

| Module | What it is | Extends / instantiates |
|---|---|---|
| `RecordOutbox` | abstract: what a producer promises to whoever sends with it | |
| `KafkaProducer` | `kafka_client/src/kafka_producer.cpp`, thread by thread | instantiates `RecordOutbox` |
| `KafkaProducerProofs` | its theorems | `KafkaProducer` |
| `DispatcherController` | the controller and, as far as its calls reach, the sinks, the container and the introspection manager | instantiates `SinkContract` once per sink |
| `MCController` | selections of the small instances | `DispatcherController` |
| `DispatcherControllerProofs` | its theorems | `DispatcherController` |
| `SinkContract` | abstract: what a sink promises to whoever drives it | |
| `KafkaSink` | `kafka_sink_node.cpp`, callback by callback | instantiates `SinkContract` |
| `MCKafkaSink` | texts and parameter batches of the small instance | `KafkaSink` |
| `KafkaSinkProofs` | its theorems | `KafkaSink` |
| `MosquittoSink` | `mosquitto_sink_node.cpp`: the node's callbacks, its `MqttClient` and paho's thread | instantiates `SinkContract` |
| `MCMosquittoSink` | texts and parameter batches of the small instance | `MosquittoSink` |
| `MosquittoSinkProofs` | its theorems | `MosquittoSink` |
| `KafkaSource` | `kafka_source_node.cpp`: the node's callbacks and its consumer thread | |
| `MCKafkaSource` | routings of the small instance | `KafkaSource` |
| `KafkaSourceProofs` | its theorems | `KafkaSource` |
| `IntrospectionManager` | `introspection_manager_node.cpp`: the node, its two threads, the graph and its listener | |
| `MCIntrospection` | parameter calls of the small instance | `IntrospectionManager` |
| `IntrospectionManagerProofs` | its theorems | `IntrospectionManager` |
| `KafkaCdrToJson` | `kafka_cdr_to_json_node.cpp`: the node, its consumer thread, the logs and offsets of Kafka | |
| `MCKafkaCdrToJson` | routings of the small instance | `KafkaCdrToJson` |
| `KafkaCdrToJsonProofs` | its theorems | `KafkaCdrToJson` |
| `GisHealth` | `gis_health_node.cpp` composed with the producer that it owns | `KafkaProducer` |
| `MCGisHealth` | lists of robots of the small instance | `GisHealth` |
| `GisHealthProofs` | its theorems | `GisHealth`, `KafkaProducerProofs` |

`SinkContract` is where the two halves meet: the controller's model assumes no more
of a sink than the contract allows (`SinksKeepContract`), and the models of both
sinks implement it (`KeepsContract`). Both sides are checked and proved. `RecordOutbox`
does the same for senders: a bounded queue with seven actions, which accounts for each
record and keeps them in order, is all that a caller of `send()` sees of the three threads
of `KafkaProducer` (`KeepsOutbox`).

### KafkaProducer

One action per critical section of `mutex_`, and one per step that the code does
without it. The drain loop holds the mutex over many `produce()` calls while
librdkafka's own thread goes on delivering, so there it is one action per record
and `MutexFree` keeps the others waiting. `owner` and `poll` are the program
counters of the thread that calls `start()`/`stop()` and of `poll_loop()`. A
`send()` is one action (it runs under the mutex); a record is its call number, so
order can be stated. librdkafka is external: a bounded queue, three answers of
`produce()`, and `ClientDelivers`. `create_producer_locked()` may fail or succeed
at every attempt (`CreateOutcomes`). The configuration (`drop_when_full`,
`strict_startup`) is chosen in Init from `DropModes` and `StrictModes`. `SendPhases`
says during which steps of the owner `send()` may be called: `{"idle"}` is what the
nodes of this repository do; the run `producer` also lets other threads call it while
`start()` spawns the poll thread and while `stop()` joins it, as `send()` itself is
written for any thread.

### DispatcherController

All handlers hold `mutex_` from beginning to end, so there is one `request` at a
time and its program counter is `stage`, `sink`, `todo`. `Begin` is everything up
to the point where the phase becomes BUSY (reading the selection from its source,
limits, early refusals); from there each call of another node is an action:
`ReadState`, `ChangeState`, `SetSubscriptions`, `UnloadTool`, `LoadTool`, and for
each the same call unanswered. What follows a call in the code up to the next one
(`Goto`, `Ready`, `Resume`, `SinkDone`, `Fail`) is part of its action. `World` is
what the mutex does not exclude: servers lost (with or without their state), found
again, and requests executed after the controller gave them up (`lateSink`,
`lateTool`). Requests to one service are executed in the order they were sent
(`Served`); requests to different services of a node may pass each other.

Abstractions, each with its reason:

* a selection is a sequence of `[topic, tool]`; it also stands for the YAML text
  derived from it, because nothing in the controller reads the text back;
* file contents, paths and inferred types become a nondeterministic choice between
  a selection of `File` and a refusal. Of `selection_file_path_` it is kept whether it is
  empty: a path given to `set_selection_mode` or with `selection_mode` is stored, and an
  empty one in a parameter call clears it once the switch is done (`argument`, `Finish`);
* an entry of a selection may have no name (`NoName`), at which the plan of its tools
  fails (`HasPlan`); only the GUI's selections reach `apply_selection()` with one, the
  file's are refused when they are parsed;
* `auto_apply_on_mode_change` and the `apply` flags are chosen by the environment;
* `get_status` reads only and is not an action: `BusyOnlyInside` says what it can see;
* tools are unloaded in any order, where the code follows the order of a `std::map`;
  they are loaded in the order of the selection, as in the code;
* the container's next id is the smallest that nobody knows, or one that the controller
  still has from a container that ended (`stale`), because a restarted container counts
  from the beginning again (`NextIds`); this also keeps the id set finite;
* a sink whose `on_activate` throws ends FINALIZED, streaming or not (`Refuse`), as the
  models of the sinks have it;
* replies that change nothing (a wrong mode, an unknown mode name) are stuttering.

### KafkaSink

All callbacks of the node are in its default, mutually exclusive callback group
(`GroupFree`), so a callback is an action, except that the subscription callback
is two, `Receive` and `Forward`: its counters change before and after `send()`.
`params` are the ROS parameters; `configured`, `depthOk`, `kafka` and `metrics`
are the members that copy them, which is where the two can differ: the parameter
callback assigns members one after another and may refuse the call after the first.
Of the parameters only what decides something is kept: the text of
`subscriptions_yaml`, whether `qos_depth`, `telemetry.log_every_n`, `kafka.acks`
(for all that `validate_kafka_parameters()` refuses) and `metrics.interval_ms` (for
what the timer or the publisher refuses) are valid, and three switches. The
counters are summed over the subscriptions. `send()` may have any outcome; a
STRICT producer may fail to start. `on_activate` may throw before `is_active_` is set, at
an unknown type, or after it, when the metrics cannot be started (`FALSE` in `Intervals`);
then the node is FINALIZED and goes on forwarding.

### MosquittoSink

The node is modelled as `KafkaSink` is; `broker_port` stands for all that
`validate_mqtt_parameters()` refuses. What differs is the client. `on_activate`
blocks in `connect()`, so it is three actions: `StartClient` up to the wait, paho's
`Accept` (or `ConnectFails`), and `OnActivate` or `OnActivateThrows`, which stores
`connected_` and does the rest; `connecting` keeps the node's other callbacks out
meanwhile. Paho's thread is external: `Accept`, `Lose` and `Reconnect` change `link`
(what `is_connected()` says) and leave a callback in `calling`, which `Callback` runs
later. It runs them one after another, so the link does not change again before the
callback of the last change has run. `stop_client()` is one action with the
destruction of the client, after which no callback comes: the destructor of
`mqtt::async_client` ends its thread's calls. Topic mapping, the will, TLS, the
payload key and the text of the last error are data.

### KafkaSource

Node callbacks are one action each, except where they wait: `on_deactivate` and
`on_shutdown` stop the thread and then block in `join()`, so the part before the join
and the part after it (`Joined`) are two, with `waiting` in between. `thread` is the
program counter of `poll_loop()` and `process_message()`: one action per step that
touches a shared member, `publishers_` and `metrics_` under `cache_mutex_`
(`CacheFree`), the counters and the members without. `PublishMetrics` begins a report
and each `ReadCounter` is one load of an atomic counter, with `cache_mutex_` held.
Abstractions: `routing` stands for prefix and mappings together, `valid` for every
parameter that is validated; a ROS topic stands for the topic and its type; an
exception that leaves the thread ends the process (`ProcessGone`), after which
somebody may start it again (`Launch`). `consume()` returns a message, nothing or an
error; offsets and partitions are librdkafka's.

### IntrospectionManager

`update_topics()` is run by the monitor thread and by the parameter callback, and its
mutex covers `active_topics_` only; so it is five actions (`ReadGraph`, `Compare`,
`Store`, `Publish`, `Save`) for each of the two, at the program counter `at[u]`, with
the thread's own loop in `thread` and the callback's in `callback`, which takes the
parameters of a call one by one (`todo`). rclcpp is external: `GraphChanges` triggers
the graph's guard condition, and `Notify`, the graph listener, sets the event that the
node holds at that moment, which is what the order of `CheckAndClear`, `UpdateTopics`
and `Register` is about. `Destroy` is the destructor and `Launch` the next process.
`get_topics` reads `active_topics_` under its mutex and changes nothing. Exceptions of
rclcpp calls after `rclcpp::shutdown()` are not modelled. A topic stands for the topic
with its types.

### KafkaCdrToJson

Built as `KafkaSource` is, with two differences. `publish_metrics()` holds
`cache_mutex_` only while it lists the topics and loads the counters with relaxed
order, so `ReadCounter` takes them in any order, beside the thread. And Kafka is part of
the model, as far as the group's offsets reach: logs of one partition (`length`), the
next record to consume (`position`), what is committed (`committed`; `NoOffset` until the
group's first commit of the topic). `Begin` is how a consumer takes up a topic: at the
committed offset or, while there is none, where `kafka.offset_reset` says, at the first
record or behind the last; what a reset to `latest` passes over is kept in `passed`. So a
converter that is killed, thrown out or cannot commit at close before its first commit
passes over what has come in between, with the compiled-in `latest`, each time it begins.
`Consume` stores an offset, `AutoCommit` commits what is stored at any moment, closing the
consumer commits or fails to, `Rebalance` takes a topic away with or without a commit,
`Killed` and `ConvertThrows` end the process without one. `outbox` is what librdkafka's
producer holds for a topic that the node reads itself. Conversion is an outcome: the type
is found or not (`FindType`), the bytes convert, do not, or throw. `own`, `passed`,
`converted`, `settled` and `torn` (offsets that were stored and never committed) are
histories. The parameters may have any values before `on_configure` and at each update, so
they are not kept apart from the members that copy them. Left out: a change of `group_id`
or of the input pattern, which leaves the offsets of one group for those of another;
records that Kafka deletes by age; topics of several partitions; and the message texts that
the thread and the timer share.

### GisHealth

A composition: the module extends `KafkaProducer`, whose actions are conjoined with the
node's. `Start` is the begin of `start()` within `on_configure`; `ProducerRuns` is what
then happens inside `start()`, `stop()`, the poll thread and librdkafka; `SendMessage`
is the node's next `send()`. `task` is the callback that the executor is in and `todo`
the messages it has yet to send, one action per message, so that the poll thread and
librdkafka come in between. Every `on_configure` makes a new producer (`NewProducer`).
`sends` is the history that gives the producer's call numbers their messages; `taken`,
`refused` and `lost` are the calls that librdkafka took, that were answered with an error,
and that were counted as dropped. `SendPhases = {"idle"}` and `DropModes = {TRUE}`, as
the code has it, are the assumption `GisAssumption`. Payloads are data; whether the
broker takes what librdkafka holds is outside the model.

## 3. Runs

| Run | Instance and bounds | What it shows |
|---|---|---|
| `producer` | both modes, STRICT and TOLERANT, retry buffer 2, client queue 2, 5 calls; sends also while `start()` spawns and `stop()` joins | the bound, the accounts, a client that is there and reported as it is, the refinement of `RecordOutbox` (with it order in drop mode), `stop()` returns, no record waits for ever once the senders pause or in drop mode. Five calls fill the retry buffer and the client queue and drop one |
| `controller_faults` | file mode, two tools, both sinks, introspection switched off after an apply; startup apply, reload, stop; any two faults of four kinds | types, the phase, the order of the switch, success means done, no tool forgotten, with a late execution or a restart between any two calls, twice; and the contract of the sinks |
| `controller_modes` | all three modes, all sources of requests, selections that are empty, above the limit, with a tool, with a nameless entry or refused by `validate_topics`; both sinks, missing sinks not allowed; one timeout, crash or lost server; fairness of the handlers | success means done on the paths through `switch_mode`, the parameter callback and the GUI; every request gets a reply; users who retry get their selection streamed, unless an entry names a component that is gone |
| `controller_order` | two tools, both sinks, no fault | **violation**: tools are exchanged while the MQTT sink is ACTIVE |
| `controller_restart` | one timeout of any call | **violation**: an unload that was given up and executed late makes every later apply fail |
| `kafka_sink` | two topics, one of an unknown type; four texts; every parameter set alone, and the subscriptions together with `metrics.enabled`; metrics parameters valid or not; 3 messages per activation | lifecycle, configuration, reports, and the refinement of `SinkContract` |
| `mosquitto_sink` | as `kafka_sink`, invalid metrics parameters included; the link breaks and returns at any time | lifecycle, the reported link, and the refinement of `SinkContract` |
| `kafka_source` | two Kafka topics, two routings, three ROS topics of which one has an illegal name; 2 messages between cleanups | lifecycle against the thread, counters and reports, routing, and deactivation returns |
| `introspection` | one topic, hidden when `filter_hidden` says so; each parameter set alone, and a call that stops and starts the monitor; one change of the graph; the process ends and comes back | the thread's life, the lists, callbacks return, a notified change is shown |
| `introspection_fresh` | the same without parameter calls | **violation**: a change between the read of the graph and the registration of the next event is not seen |
| `kafka_cdr_to_json` | one input, a routing that leaves and one that comes back, reset `latest` and `earliest`; 2 records in the log, 2 messages between cleanups; rebalances, kills and relaunches at any time | counters; what a committed offset may have passed over, across crashes, failed commits and rebalances; no echo |
| `gis_health` | one robot or two, retry buffer and client queue 4, 7 calls; relaunches at any time | librdkafka takes a PING only when every REGISTRATION sent before it, and there is one, has been taken, refused or dropped; no REGISTRATION of the first activation is dropped |

Why these bounds are enough. A fault of the controller's world costs it one call;
one fault leaves a state behind (a late request, an unknown tool, a sink half
switched) and the second meets the request that starts from it (`controller_faults`).
`controller_modes` has one fault, of each kind that leaves something behind, at any call
of any kind of request, and asks what the retries after it come to. Two tools are the
least with a loop that can fail in the middle; two sinks are all there are. Ids
1..5: two tools known, two pending, one spare, so that `NextIds` is never empty.
In `producer` the sends end with `SendLimit`; `BufferedLeave` does not rest on that, since
it states the pause of the senders as its condition (`SendersPause`).
In a sink three messages are one before, one during and one after a report. In the
source two messages are one that creates a publisher and one that finds it, or finds
another; a report can meet both. A third sink or source topic would only repeat them.
The links of `MosquittoSink` need no bound: a link has two states.
One topic of the graph that comes, or goes, and is hidden or not is what the lists can
differ in; a second change would find an event that is set or not, as the first does
with the process launched anew. In the converter two records are one before and one
after a committed offset; with one that comes back, the node's own record follows the
original. Four messages are what two robots send at an activation: with seven calls the
buffer overflows at a later tick, and with one robot an outage lasts over several ticks.
All runs check for deadlock.

### Fairness

* `ThreadsRun` (producer): threads are scheduled, and each wait is bounded by a
  timeout of the code (`flush_timeout_ms`, `poll_timeout_ms`,
  `reconnect_backoff_ms`) or of librdkafka (`message.timeout.ms`); the poll thread gets
  `mutex_` in the end when it waits for it. Weak fairness; nobody has to call `start`,
  `stop` or `send`.
* `ClientComesUp`: creation that is tried for ever succeeds in the end. It is needed
  for `BufferedLeave` only. Without `drop_when_full` this property also needs that the
  senders pause (`SendersPause`, in the property itself): direct sends may otherwise fill
  librdkafka's queue before each drain, and what is buffered waits for ever.
* `HandlersRun` (controller): every wait in a handler is `wait_for(service_timeout_)`,
  so its next step comes; a request that was received is executed in the end.
* `FairSpec` of `KafkaSource`, for `DeactivationReturns`: the thread is scheduled and
  `consume()` returns within its second; a join that can return does; a report that
  holds `cache_mutex_` reads finitely many counters. Nobody has to call anything.
* `FairSpec` of `IntrospectionManager`: both threads of the process and the graph
  listener are scheduled, the wait for the graph ends after its time limit, the join
  returns when the thread has ended. Nobody has to set a parameter.
* `KafkaCdrToJson` and `GisHealth` have no liveness of their own: the join is that of
  `KafkaSource`, and what leaves the retry buffer is `BufferedLeave`.
* `UsersRetry` is no part of a specification but the hypothesis of `RetrySucceeds` and of
  its refutation `ChangesWithoutRestart`, both checked under `FairSpec`, that is
  `HandlersRun` alone: servers come back, and a user who keeps asking does not keep failing
  for reasons of his own (strong fairness of the attempts that reach `apply_selection()`
  with a selection that has a plan, and of those that `validate_topics` lets pass). Faults
  are bounded, so there is a last one.

## 4. Proofs

All theorems hold for every value of the constants that satisfies the named
assumption (`ConfigAssumption`, `ConstantsAssumption`, `SinkAssumption`,
`MqttAssumption`, `SourceAssumption`, `IntrospectionAssumption`, `CdrToJsonAssumption`,
`GisAssumption`): any bound, mode, set of topics, selections, robots and texts, any
number of faults and messages.

**KafkaProducerProofs.** One inductive invariant, `TypeOK /\ Phases /\ Conservation
/\ BufferSorted /\ Fifo`. `Phases` ties the program counters of the two threads to
`running_`, `producer_` and `status_`; it is what makes the unlocked use of the
client safe, because `stop()` resets it only after the join. `Fifo` says that in drop
mode whatever is buffered is newer than the record accepted last, and that nothing
is buffered while a client is there and the mutex is free. From it: `TypeCorrect`,
`CallsConserved`, `NoUseAfterReset` and `HealthTruthful` (together `ClientAsReported`),
`RetryBufferSorted`, `DirectSendsFindEmptyBuffer`, `RecordsInOrder`. `ProducerIsOutbox` is
the refinement of `RecordOutbox`: each step of the owner, of a sender and of the poll thread
is first shown to be one of the outbox's in the producer's own variables (`OutboxSteps`),
with the five counters summed into what is settled; that a direct send finds an empty queue
in drop mode is where `Fifo` is needed.

**DispatcherControllerProofs.** `Typed` (= `TypeOK /\ Work`) ties the loops over
tools to the stage; TypeOK alone is not inductive, since `active[t]` needs `t` in the
map. From it `TypeCorrect`, `PhaseTruthful`, `SinksStreamTheirParameter` and, with the
latter, `SinksAsPromised`: every step of the controller's world is, for each sink, a
step of `SinkContract` or a stutter. `Knows` says what a handler may rely on while
nobody interferes (`clean`): the state of the sink it has read, what the sinks before
it and the tools now do. It gives `CallsLegal` and `ToolsQuiet` (together
`SwitchesInOrder`), `ApplyStreams` and `StopSilences` (`ReportedIsDone`). `ToolsQuiet` is
about the Kafka sink in an apply and about both sinks in a stop: for the MQTT sink in an
apply the code does not have it (`controller_order`). `Tracked` relates the container to
the map during the loops, with ids of an ended container given out again, and gives
`NoToolIsForgotten`.

**KafkaSinkProofs.** `Accounts` (with `TypeOK`) says that every message is in one
account except the one being sent, and that counters have only grown since the last
report; this gives `TypeCorrect` (no delta is negative) and `ReportsAddUp`.
`RuntimeIsLifecycle` is inductive as it stands, whatever throws: a node that is FINALIZED
may forward, but never without the producer and only what its parameter selected.
`ConfigurationIsCurrent` needs `DepthKept`, that a configured node has a valid depth, for
otherwise a call that sets nothing but the subscriptions would be refused after storing
them. `SinkKeepsContract` combines them into the refinement. Their hypothesis,
`SubscriptionsAlone`, is one about the deployment and is needed: without it TLC finds a
counterexample. `ActiveNodeFrozen` (`FrozenWhileActive`) says that no call that sets
parameters, refused half-way or not, reaches what an ACTIVE node works with.

**MosquittoSinkProofs.** The same argument for the accounts, the lifecycle and the
contract, and one more invariant, `Linked`: a client exists exactly while
`on_activate` waits and from then until it is stopped, the callback still to run is
that of the last change of the link, and when there is none `connected_` has missed
no link that is up. It gives `LinkIsReported` without any hypothesis, and tells
`ConfigurationStep` (`ConfigurationIsCurrent`) that what `OnActivate` finds is an INACTIVE
node. `RuntimeIsLifecycle`, which rests on it, and `ActiveNodeFrozen` are those of
`KafkaSink`, with paho's thread beside them.

**KafkaSourceProofs.** `Runtime` (with `Joining`, what the callback that joins has done)
ties the thread to the lifecycle state; with it `MembersFrozen`, because the parameter
callback refuses while ACTIVE and the thread is joined before that changes. From the
frozen members `Routed` follows: what the thread computed from them is still what the
parameters say (`MessagesRouted`). `Accounted` and `Reports` relate the counters to the
step of the thread; the report may see one message more received than answered, and
only one, because for the next one the thread needs `cache_mutex_` (`ReportsAddUp`).

**IntrospectionManagerProofs.** `TypeOK` ties the place of each thread in
`update_topics()` to the step of its caller and is inductive; so is
`ThreadFollowsFlag` with it (`MonitorFollowsFlag`). `SnapshotAgrees` rests on an
invariant, `Consistent`, about the update that is `sole`: what it has found is filtered
and then stored, what it compared it with is what was saved last, and what it read is
not older than what is served; the other thread can only end its being alone, which
sets `torn` (`Lone`). Steps are classified first (outside `update_topics()`, its call, its steps, its
end), so that each class is treated once.

**KafkaCdrToJsonProofs.** `TypeCorrect` splits types into flags, log and metrics, which
the provers handle apart. `RecordsHandledOnce` needs that what is committed is at most
what is consumed (`Offsets`), that whatever lies below a committed offset or a `position`
is settled, passed over or in hand (`Answered`), and that, as long as nothing is torn,
whatever was converted lies below the offset where the group would resume (`Converted`); a
step is a `LogStep` of one of few kinds. `OwnOutputNotConverted` needs that a record in
hand past `FindType` is not one of the node's own, and that whatever was converted lies in
the log already, behind whose end the node's own records will be appended.
`CountersCorrect` is the argument of `KafkaSource` without the lock: counters only grow
between resets, and resets clear what was read of them. `CommitsOnlyGrow` follows from the
same classification of steps: no step, `Killed` and `Launch` included, sets a committed
offset back, and no consumer begins or goes on before it.

**GisHealthProofs.** The producer's invariant `Inv` holds in the composition, because
every step of it is one of the producer's, a stutter, or makes a producer anew
(`ProducerStep`): its lemmas are cited as they stand. `Room` adds that librdkafka holds
no more than it was given. So a call that finds no room has a number above the bound of
the buffer, which is `FirstRegistrationsNotDropped`. `Announced` says that before each
PING in the history, or in what a callback has yet to send, there is the REGISTRATION of
its robot. `Answers` says that every call is taken, refused or dropped, or waits in the
retry buffer until `stop()`, and that whatever was taken had nothing older waiting, which is
the producer's order (`Fifo`). Together they are `RobotsAnnouncedFirst`.
What the producer promises on its own holds in the composition too (`ProducerPromisesKept`,
`ProducerDrivenAsSpecified`), though every on_configure makes a new one. `Following` ties its
`running` and the place of `start()` and `stop()` to the node's state and callback: so no
message is ever answered PRODUCER_UNAVAILABLE (`SendsFindTheProducer`). `NodeTyped` types
the node.

**The safety half of liveness.** That something returns needs fairness and stays with TLC.
What it returns *by* is proved, for every value of the constants: a number that counts the
steps still to go, which each step of the thread that must move lowers and no other step
raises.

| Theorem | What waits | Measure, and its bound |
|---|---|---|
| `StopWaitsBounded` (producer) | `stop()` for the poll thread | `StepsToExit` <= `MaxQueueMessages` + 4: a loop from its head, and a drain of what is buffered, to which nobody adds |
| `HandlersAdvance` (controller) | everyone, for the handler that holds `mutex_` | `CallsLeft`: 17, one call for each active tool and one for each selected topic; an unanswered call counts as one |
| `CallbacksAdvance` (introspection) | the parameter callback and the destructor for themselves and for the monitor | `CallbackSteps`: six for each parameter; `MonitorSteps` <= 9 while it is joined |
| `JoinsAdvance` (source, converter) | `on_deactivate` and `on_shutdown` for the consumer thread | `ThreadSteps` <= 7 and 8; at most one more record is consumed; while the source is joined `cache_mutex_` is free |

With them a liveness property can only fail if a step that is enabled is never taken, or if
the step that must come next is not enabled; the runs, on their instances, exclude both. For
the controller the measure needs `Sized`: the map of loaded tools is finite even where there
are infinitely many topics; for the joins, that the callback has told the thread to stop
(`Told`).

**Proved without a run of their own**: `ActiveStreamsParameter`, `NoOvertaking`, `InOrder`,
`BufferSorted`, `FrozenWhileRead`, `ReportsBalance` in `MosquittoSink`, the measures above
(`StopBounded`, `HandlerBounded`, `CallbackBounded`, `JoinBounded`), `CommitsGrow`,
`FrozenWhileActive` of the sinks, `GisTypeOK` and `ProducerFollowsState`. They are
definitions of the modules and hold on the instances of the runs; a configuration can name
them.

**Only model-checked**: the liveness properties (`StopReturns`, `BufferedLeave`,
`HandlerReturns`, `RetrySucceeds`, `DeactivationReturns`, `CallbackReturns`,
`NotifiedIsShown`), because the prover has neither ENABLED nor a rule for fairness, and the
three violations, which need no proof. Four of them have their measure proved;
`BufferedLeave`, `RetrySucceeds` and `NotifiedIsShown` depend on what others do, a client
that can be made, servers that come back, a graph listener that is scheduled, and have none.

## 5. Disagreements between the code and its documentation

Shown by a run (see "findings" in `PROJECT.json`):

* `controller_restart`: `clear_active_topic_tools()` forgets nothing until all
  unloads have succeeded; a component that is already gone blocks every later change,
  against `docs/node_description.md:128`.
* `controller_order`: `apply_selection()` exchanges the tools after the Kafka sink is
  deactivated and before the MQTT sink is, against `docs/node_description.md:137`.
* `introspection_fresh`: `monitor_graph()` takes the next graph event after it has read
  the graph; a change in between is heard by the old event, against
  `introspection_manager/README.md:5`.

Read in the code while modelling, without a run:

* An apply that fails at the second sink leaves Kafka streaming the new selection, while
  `applied_topics` names the old one (`docs/api_reference.md:97`). `SuccessMeansDone`
  says only that such an apply does not report success.
* `stop_streaming` skips a sink whose state it cannot get, reports success, and the sink
  streams on (`docs/api_reference.md:67`).
* An apply fails when `kafka_sink` is absent, whatever `allow_missing_sinks` says
  (`docs/configuration_reference.md:26`).
* `stop()` of the producer clears the retry buffer even if it has a client that has just
  been flushed (`docs/architecture.md:121`); `Conservation` counts what is cleared.
* `gui_client` calls `/introspection_manager_node/get_topics`
  (`gui_client/gui_client/rqt_gui_py.py:296`), the controller
  `/introspection_manager/get_topics` (`dispatcher_controller_node.cpp:133`); under the
  name that `introspection_manager.launch.py:24` gives the node only the first exists, by
  the name in its constructor only the second. The model has a service that answers or not.
* `dump()` throws in the converter at a string that is not UTF-8, nothing on its thread
  catches it, and the process ends; the record is consumed again at the next start if its
  offset was not committed (`ConvertThrows`).
* A REGISTRATION that follows a second activation during an outage may be dropped, since
  pings have filled the buffer by then; `FirstRegistrationsKept` is about the first one.
  A REGISTRATION that is refused or dropped is only logged, and the PINGs of its robot
  follow: `PingNeverFirst` says that it is over by then, never that it has arrived.
* `on_activate` of both sinks throws after `is_active_` is set when the metrics cannot be
  started; the node is FINALIZED and forwards. The runs include it. `RuntimeFollowsState`
  and `SinkContract` say how far it goes: only in FINALIZED, never without the producer,
  and only what the parameter selected. `stop_streaming` reports success beside such a
  sink, whose state is not "active" (`SuccessMeansStopped` leaves it out).
* A failed mode switch leaves `last_error` empty (`docs/architecture.md:218`).
* `stop_streaming` never shows BUSY (`docs/architecture.md:217`).
* `reload_selection` with an empty request applies nothing (`docs/getting_started.md:185`).
* Setting `selection_file_path` alone has no effect (`dispatcher_controller/README.md:102`).
* `max_queue_messages` bounds the retry buffer only, never librdkafka's queue
  (`docs/configuration_reference.md:103`); `strict_startup` contacts no broker
  (`docs/architecture.md:139`).
* `kafka_bridge/kafka_source/README.md:19` says that all parameters are configurable
  while the node is inactive; publishers that exist keep their `qos_depth`, and the
  metrics publisher its topic, until the next cleanup. An update that is refused has
  by then changed some members, which the thread uses after the next activation
  (`clean` in `RoutedAsConfigured`).
* A Kafka topic whose name makes an illegal ROS name ends the process of
  `kafka_source`: the exception leaves the thread.
* `connect()` of `MqttClient` stores `connected_` after its wait; a link that was lost
  meanwhile is reported as connected until the next reconnection. `LinkReported` claims
  the other direction only.
* The producer is created on activation, not on configuration (`docs/architecture.md:119`);
  `metrics.enabled` defaults to false (`kafka_bridge/kafka_sink/README.md:54`).

## 6. Not modelled

Payload conversion (CDR, JSON), latency statistics, YAML, logging and widgets: data
without control. librdkafka, paho, rclcpp, the component container and ROS discovery
are external and appear as the answers they may give. Executor threads are not
modelled: the controller is assumed to run in the multi-threaded executor of
`main.cpp` with its clients in a reentrant group. Time is not modelled; a timeout is
a step that may happen while a reply is outstanding. `kafka_mock_server` is a test
helper with a protocol of its own.

## 7. State of the plan

Every component with a state of its own is modelled, checked and proved about:
`KafkaProducer`, `RecordOutbox`, `DispatcherController`, `SinkContract`, `KafkaSink`, `MosquittoSink`,
`KafkaSource`, `IntrospectionManager`, `KafkaCdrToJson`, and `GisHealth`, which is also
the composition of a node with its producer. Not taken up, and why:

* `KafkaSink` over `KafkaProducer`: `Forward` already admits every answer of `send()`,
  the accounts of the two are proved one by one, and their product multiplies states
  without a property that is not one of theirs.
* Topic names (`map_kafka_topic`, `map_mqtt_topic`, `derive_ros_topic`): the routings
  stand for what they yield.
* `gui_client`: its requests are the controller's inputs; its lists are shown, and
  decide nothing.
* A liveness property of `KafkaCdrToJson`: records are consumed in the end only if the
  broker is reached, which says more of Kafka than of the code.

A component has one passing run with all its properties unless a second instance answers
a different question; properties of one subject are conjunctions of named parts
(`OrderlySwitch`, `SuccessMeansDone`, `ClientFollowsStatus`, `CountersAddUp`,
`HandledOnce`), which the theorems state one by one and together.
