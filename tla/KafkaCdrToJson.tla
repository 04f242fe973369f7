--------------------------- MODULE KafkaCdrToJson ---------------------------
(***************************************************************************)
(* kafka_cdr_to_json: a lifecycle node that consumes Kafka topics on a     *)
(* thread of its own while it is ACTIVE, converts each record from CDR to  *)
(* JSON, and sends it to another topic, or to the same one.                *)
(*                                                                         *)
(* Lifecycle, parameter callback and metrics timer exclude each other as   *)
(* in KafkaSource, but publish_metrics() holds cache_mutex_ only while it  *)
(* lists the topics: it reads the counters beside the thread, with relaxed *)
(* loads, and so in any order.                                             *)
(*                                                                         *)
(* Kafka is here as its logs, of one partition each, and the offsets that  *)
(* the group has committed: a record is a topic and an offset.  A consumer *)
(* begins a topic at the committed offset; while there is none, at the     *)
(* first record or behind the last, as kafka.offset_reset says.  consume() *)
(* stores the offset behind the record that it returns; librdkafka commits *)
(* it whenever it likes (enable.auto.commit), when the group takes the     *)
(* topic away, and when the consumer is closed.  Of the producer there is  *)
(* what it holds and has yet to deliver to a topic that is read here; the  *)
(* module KafkaProducer has the rest.                                      *)
(***************************************************************************)
EXTENDS Integers

CONSTANTS
  Inputs,         \* topics that match the pattern
  Topics,         \* topics that records may be sent to
  Routings,       \* values of output_topic_prefix and topic_mappings
  Default,        \* those that are compiled in
  Route,          \* what each makes of an input topic
  NoTopic,        \* no record in hand
  LogLimit,       \* bound of the model: records in a log
  MessageLimit    \* bound of the model: records of a topic between cleanups

ASSUME CdrToJsonAssumption ==
  /\ Inputs \subseteq Topics
  /\ Default \in Routings
  /\ Route \in [Routings -> [Inputs -> Topics]]
  /\ NoTopic \notin Topics
  /\ LogLimit \in Nat /\ MessageLimit \in Nat

\* Values of kafka.offset_reset that validate_parameters() accepts.
Resets == {"latest", "earliest"}

Values == [routing : Routings, reset : Resets, valid : BOOLEAN, enabled : BOOLEAN]
Defaults == [routing |-> Default, reset |-> "latest", valid |-> TRUE, enabled |-> TRUE]
Counters == {"received", "converted", "failed"}
Zero == [c \in Counters |-> 0]
Zeros == [t \in Inputs |-> Zero]
Records == Inputs \X Nat

\* librdkafka's invalid offset: none is known.
NoOffset == -1
OffsetValues == Nat \cup {NoOffset}

VARIABLES
  length,      \* of the logs
  own,         \* history: the records that this node has sent
  committed,   \* the offsets of the group
  passed,      \* history: the records that a reset to `latest` has passed over
  state,       \* lifecycle state; "terminated": the process has ended
  members,     \* the members that copy the ROS parameters
  consumer,    \* consumer_ is set
  producer,    \* producer_ is set
  isActive,    \* is_active_
  running,     \* running_
  timer,       \* metrics_timer_ is set
  waiting,     \* the lifecycle callback that is joining the thread
  position,    \* the offsets that are consumed next, of the topics that are begun
  stored,      \* the topics whose positions are stored, to be committed
  outbox,      \* records for the inputs that the producer holds
  thread,      \* what the consumer thread does next; "none": not joinable
  source,      \* the topic of the record in hand
  offset,      \* its offset
  target,      \* the topic that its conversion goes to
  entries,     \* the topics in metrics_
  totals,      \* their counters
  toRead,      \* the counters that publish_metrics() has yet to read
  reported,    \* the counters as they were last reported: prev_*
  converted,   \* history: the records that were converted
  settled,     \* history: those that were answered, or in hand at a crash
  torn         \* history: the group has lost offsets that were stored

logVars == <<length, own, committed, passed>>
reader == <<position, stored>>
runtime == <<consumer, producer, isActive, running, timer, waiting>>
message == <<source, offset, target>>
metrics == <<entries, totals>>
reportVars == <<toRead, reported>>
history == <<converted, settled, torn>>
vars == <<logVars, state, members, runtime, reader, outbox, thread, message,
          metrics, reportVars, history>>

States == {"unconfigured", "inactive", "active", "finalized", "terminated"}

\* From consume() to the answer, and from the count of the record on.
Counted == {"type", "convert", "send", "converted", "failed"}
Holding == {"entry", "count"} \cup Counted

TypeOK ==
  /\ length \in [Inputs -> Nat] /\ committed \in [Inputs -> OffsetValues]
  /\ own \subseteq Records /\ passed \subseteq Records
  /\ state \in States
  /\ members \in Values
  /\ consumer \in BOOLEAN /\ producer \in BOOLEAN /\ isActive \in BOOLEAN
  /\ running \in BOOLEAN /\ timer \in BOOLEAN
  /\ waiting \in {"none", "deactivate", "shutdown"}
  /\ position \in [Inputs -> OffsetValues] /\ stored \subseteq Inputs
  /\ outbox \in [Inputs -> Nat]
  /\ thread \in {"none", "top", "consume", "exited"} \cup Holding
  /\ source \in Inputs \cup {NoTopic} /\ offset \in OffsetValues
  /\ target \in Topics \cup {NoTopic}
  /\ source # NoTopic <=> thread \in Holding
  /\ entries \subseteq Inputs
  /\ totals \in [Inputs -> [Counters -> Nat]]
  /\ toRead \subseteq Inputs \X Counters
  /\ reported \in [Inputs -> [Counters -> Nat]]
  /\ converted \subseteq Records /\ settled \subseteq Records
  /\ torn \in BOOLEAN

Init ==
  /\ length = [t \in Inputs |-> 0] /\ own = {}
  /\ committed = [t \in Inputs |-> NoOffset] /\ passed = {}
  /\ state = "unconfigured"
  /\ members = Defaults
  /\ consumer = FALSE /\ producer = FALSE /\ isActive = FALSE /\ running = FALSE
  /\ timer = FALSE /\ waiting = "none"
  /\ position = [t \in Inputs |-> NoOffset] /\ stored = {}
  /\ outbox = [t \in Inputs |-> 0]
  /\ thread = "none" /\ source = NoTopic /\ offset = NoOffset /\ target = NoTopic
  /\ entries = {} /\ totals = Zeros
  /\ toRead = {} /\ reported = Zeros
  /\ converted = {} /\ settled = {} /\ torn = FALSE

----------------------------------------------------------------------------
(* Helpers *)

\* No callback of the node's group is running.
GroupFree == state # "terminated" /\ waiting = "none" /\ toRead = {}

\* validate_parameters() accepts these values.
Valid(values) == values.valid

\* map_output_topic(): the mapping of the topic, or the prefix before its name; an
\* empty prefix leaves the name as it is.
OutputTopic(topic) == Route[members.routing][topic]

\* The record in hand.
InHand == {<<source, offset>>}

\* A counter of a topic goes up.
Increment(topic, counter) == totals' = [totals EXCEPT ![topic][counter] = @ + 1]

\* No record in hand.
HandEmpty == source' = NoTopic /\ offset' = NoOffset /\ target' = NoTopic

\* process_message() is left.
Done ==
  /\ thread' = "top" /\ HandEmpty
  /\ settled' = settled \cup InHand

\* The consumer loses topics.  Of what is stored for them some is committed; if any is
\* not, the group goes back.
GiveUp(topics, saved) ==
  /\ committed' = [t \in Inputs |-> IF t \in saved THEN position[t] ELSE committed[t]]
  /\ torn' = (torn \/ \E t \in (topics \cap stored) \ saved : committed[t] # position[t])
  /\ position' = [t \in Inputs |-> IF t \in topics THEN NoOffset ELSE position[t]]
  /\ stored' = stored \ topics

\* stop_consumer(): close() commits what is stored, unless the broker does not
\* answer.
Close ==
  /\ consumer' = FALSE
  /\ \E saved \in SUBSET stored : GiveUp(Inputs, saved)

\* stop_producer(): what the producer could not deliver is discarded.
StopProducer ==
  /\ producer' = FALSE
  /\ outbox' = [t \in Inputs |-> 0]

\* What a process leaves behind that has ended.  Without close() nothing is
\* committed.
ProcessGone ==
  /\ consumer' = FALSE /\ isActive' = FALSE /\ running' = FALSE /\ timer' = FALSE
  /\ waiting' = "none"
  /\ StopProducer
  /\ GiveUp(Inputs, {})
  /\ settled' = IF thread \in Holding THEN settled \cup InHand ELSE settled
  /\ thread' = "none" /\ HandEmpty
  /\ entries' = {} /\ totals' = Zeros /\ toRead' = {} /\ reported' = Zeros

----------------------------------------------------------------------------
(* Kafka *)

\* Somebody else sends a record to an input.
Produce ==
  /\ \E t \in Inputs :
       /\ length[t] < LogLimit
       /\ length' = [length EXCEPT ![t] = @ + 1]
  /\ UNCHANGED <<own, committed, passed, state, members, runtime, reader, outbox, thread,
                 message, metrics, reportVars, history>>

\* A conversion arrives in a topic that is read here.
Deliver ==
  /\ \E t \in Inputs :
       /\ outbox[t] > 0
       /\ length[t] < LogLimit
       /\ outbox' = [outbox EXCEPT ![t] = @ - 1]
       /\ own' = own \cup {<<t, length[t]>>}
       /\ length' = [length EXCEPT ![t] = @ + 1]
  /\ UNCHANGED <<committed, passed, state, members, runtime, reader, thread, message, metrics,
                 reportVars, history>>

\* A consumer begins a topic that it has found or been given back: at the committed
\* offset or, while there is none, where auto.offset.reset says.
Begin ==
  /\ consumer
  /\ \E t \in Inputs :
       /\ position[t] = NoOffset
       /\ \/ /\ committed[t] # NoOffset
             /\ position' = [position EXCEPT ![t] = committed[t]]
             /\ UNCHANGED passed
          \/ /\ committed[t] = NoOffset /\ members.reset = "earliest"
             /\ position' = [position EXCEPT ![t] = 0]
             /\ UNCHANGED passed
          \/ /\ committed[t] = NoOffset /\ members.reset = "latest"
             /\ position' = [position EXCEPT ![t] = length[t]]
             /\ passed' = passed \cup ({t} \X (0..(length[t] - 1)))
  /\ UNCHANGED <<length, own, committed, state, members, runtime, stored, outbox, thread,
                 message, metrics, reportVars, history>>

\* enable.auto.commit: what is stored is committed, the record in hand included.
AutoCommit ==
  /\ consumer
  /\ \E t \in stored : committed' = [committed EXCEPT ![t] = position[t]]
  /\ UNCHANGED <<length, own, passed, state, members, runtime, reader, outbox, thread,
                 message, metrics, reportVars, history>>

\* The group takes a topic from the consumer, or throws the consumer out; it will begin
\* the topic again.
Rebalance ==
  /\ consumer
  /\ \E t \in Inputs :
       /\ position[t] # NoOffset
       /\ \E saved \in SUBSET ({t} \cap stored) : GiveUp({t}, saved)
  /\ UNCHANGED <<length, own, passed, state, members, runtime, outbox, thread, message,
                 metrics, reportVars, converted, settled>>

Kafka == Produce \/ Deliver \/ Begin \/ AutoCommit \/ Rebalance

----------------------------------------------------------------------------
(* Lifecycle callbacks *)

\* The ROS parameters have any values: they may come from a file that nothing has looked
\* at, or from updates since.  Making the publisher of the metrics throws if
\* metrics.topic is no name: FINALIZED.
OnConfigure ==
  /\ GroupFree
  /\ state = "unconfigured"
  /\ members' \in Values
  /\ IF Valid(members') THEN state' \in {"inactive", "finalized"} ELSE UNCHANGED state
  /\ UNCHANGED <<logVars, runtime, reader, outbox, thread, message, metrics, reportVars,
                 history>>

\* on_activate; the thread is started last.
OnActivate ==
  /\ GroupFree
  /\ state = "inactive"
  /\ state' = "active"
  /\ consumer' = TRUE /\ producer' = TRUE /\ isActive' = TRUE
  /\ timer' = members.enabled
  /\ running' = TRUE
  /\ thread' = "top"
  /\ UNCHANGED <<logVars, members, waiting, reader, outbox, message, metrics, reportVars,
                 history>>

\* start_consumer() fails, or start_producer() does and the consumer is closed.
OnActivateFails ==
  /\ GroupFree
  /\ state = "inactive"
  /\ UNCHANGED vars

\* An interval that a refused update has left in the members: reset_metrics_timer()
\* throws with both clients made and is_active_ set.
OnActivateThrows ==
  /\ GroupFree
  /\ state = "inactive"
  /\ members.enabled /\ ~Valid(members)
  /\ state' = "finalized"
  /\ consumer' = TRUE /\ producer' = TRUE /\ isActive' = TRUE
  /\ UNCHANGED <<logVars, members, running, timer, waiting, reader, outbox, thread,
                 message, metrics, reportVars, history>>

\* on_deactivate up to the join.
OnDeactivate ==
  /\ GroupFree
  /\ state = "active"
  /\ running' = FALSE
  /\ waiting' = "deactivate"
  /\ UNCHANGED <<logVars, state, members, consumer, producer, isActive, timer, reader,
                 outbox, thread, message, metrics, reportVars, history>>

\* on_deactivate once the thread is joined: offsets are committed before the
\* producer has delivered what they stand for.
Deactivated ==
  /\ waiting = "deactivate"
  /\ thread \in {"none", "exited"}
  /\ thread' = "none"
  /\ Close /\ StopProducer
  /\ isActive' = FALSE /\ timer' = FALSE
  /\ state' = "inactive"
  /\ waiting' = "none"
  /\ UNCHANGED <<length, own, passed, members, running, message, metrics, reportVars, converted,
                 settled>>

\* on_cleanup: an INACTIVE node has no thread to join; counters and prev_* go with
\* metrics_.
OnCleanup ==
  /\ GroupFree
  /\ state = "inactive"
  /\ state' = "unconfigured"
  /\ Close /\ StopProducer
  /\ isActive' = FALSE /\ running' = FALSE /\ timer' = FALSE
  /\ entries' = {} /\ totals' = Zeros /\ reported' = Zeros
  /\ UNCHANGED <<length, own, passed, members, waiting, thread, message, toRead,
                 converted, settled>>

\* on_shutdown up to the join.
OnShutdown ==
  /\ GroupFree
  /\ state \in {"unconfigured", "inactive", "active"}
  /\ isActive' = FALSE /\ running' = FALSE
  /\ waiting' = "shutdown"
  /\ UNCHANGED <<logVars, state, members, consumer, producer, timer, reader, outbox,
                 thread, message, metrics, reportVars, history>>

\* on_shutdown once the thread is joined.  The metrics timer goes on.
ShutDown ==
  /\ waiting = "shutdown"
  /\ thread \in {"none", "exited"}
  /\ thread' = "none"
  /\ Close /\ StopProducer
  /\ state' = "finalized"
  /\ waiting' = "none"
  /\ UNCHANGED <<length, own, passed, members, isActive, running, timer, message, metrics,
                 reportVars, converted, settled>>

Lifecycle ==
  \/ OnConfigure \/ OnActivate \/ OnActivateFails \/ OnActivateThrows
  \/ OnDeactivate \/ OnCleanup \/ OnShutdown
Joined == Deactivated \/ ShutDown

\* Some of the parameters take new values.  The members keep what validate_parameters()
\* refuses.
OnParametersSet ==
  /\ GroupFree
  /\ ~isActive
  /\ members' \in Values
  /\ UNCHANGED <<logVars, state, runtime, reader, outbox, thread, message, metrics, reportVars,
                 history>>

----------------------------------------------------------------------------
(* The consumer thread *)

\* The head of the loop in poll_loop().
CheckRunning ==
  /\ thread = "top"
  /\ thread' = IF running THEN "consume" ELSE "exited"
  /\ UNCHANGED <<logVars, state, members, runtime, reader, outbox, message, metrics,
                 reportVars, history>>

\* A second without a record, or an error of the client.
NothingConsumed ==
  /\ thread = "consume"
  /\ thread' = "top"
  /\ UNCHANGED <<logVars, state, members, runtime, reader, outbox, message, metrics,
                 reportVars, history>>

\* Mutant of Consume: the flag is looked at once more, and the record forgotten.
ConsumeUnlessStopped ==
  /\ thread = "consume" /\ consumer
  /\ \E t \in Inputs :
       /\ position[t] # NoOffset /\ position[t] < length[t]
       /\ totals[t]["received"] < MessageLimit
       /\ position' = [position EXCEPT ![t] = @ + 1]
       /\ stored' = stored \cup {t}
       /\ IF running THEN source' = t /\ offset' = position[t] /\ thread' = "entry"
          ELSE UNCHANGED <<source, offset>> /\ thread' = "exited"
  /\ UNCHANGED <<logVars, state, members, runtime, outbox, target, metrics, reportVars,
                 history>>

\* consume() returns a record and stores the offset behind it.
Consume ==
  /\ thread = "consume" /\ consumer
  /\ source' \in Inputs
  /\ offset' = position[source'] /\ offset' # NoOffset /\ offset' < length[source']
  /\ totals[source']["received"] < MessageLimit
  /\ position' = [position EXCEPT ![source'] = @ + 1]
  /\ stored' = stored \cup {source'}
  /\ thread' = "entry"
  /\ UNCHANGED <<logVars, state, members, runtime, outbox, target, metrics, reportVars,
                 history>>

\* A record without a payload is dropped.
DropEmpty ==
  /\ thread = "entry"
  /\ source \in Inputs /\ InHand \cap own = {}
  /\ Done
  /\ UNCHANGED <<logVars, state, members, runtime, reader, outbox, metrics, reportVars,
                 converted, torn>>

\* Mutant of FindEntry: the entries are those of the output topics.
FindEntryOfOutput ==
  /\ thread = "entry"
  /\ target' = OutputTopic(source)
  /\ entries' = entries \cup {target'}
  /\ thread' = "count"
  /\ UNCHANGED <<logVars, state, members, runtime, reader, outbox, source, offset,
                 totals, reportVars, history>>

\* The topic's entry in metrics_ is found or made, under cache_mutex_.
FindEntry ==
  /\ thread = "entry"
  /\ target' = OutputTopic(source)
  /\ entries' = entries \cup {source}
  /\ thread' = "count"
  /\ UNCHANGED <<logVars, state, members, runtime, reader, outbox, source, offset,
                 totals, reportVars, history>>

CountReceived ==
  /\ thread = "count"
  /\ Increment(source, "received")
  /\ thread' = "type"
  /\ UNCHANGED <<logVars, state, members, runtime, reader, outbox, message, entries,
                 reportVars, history>>

\* Mutant of FindType: what this node sends has the header of what it received.
FindTypeOfAll ==
  /\ thread = "type"
  /\ thread' \in {"convert", "failed"}
  /\ UNCHANGED <<logVars, state, members, runtime, reader, outbox, message, metrics,
                 reportVars, history>>

\* A record without a ros_type header fails, as do those that this node has sent:
\* send() is given no headers.  Of the others the type may not be installed.
FindType ==
  /\ thread = "type"
  /\ thread' \in IF InHand \subseteq own THEN {"failed"} ELSE {"convert", "failed"}
  /\ UNCHANGED <<logVars, state, members, runtime, reader, outbox, message, metrics,
                 reportVars, history>>

\* serialize_message_to_json()
Convert ==
  /\ thread = "convert"
  /\ thread' \in {"send", "failed"}
  /\ UNCHANGED <<logVars, state, members, runtime, reader, outbox, message, metrics,
                 reportVars, history>>

\* dump() throws at a string that is not UTF-8, and nothing catches it.
ConvertThrows ==
  /\ thread = "convert"
  /\ state' = "terminated"
  /\ ProcessGone
  /\ UNCHANGED <<logVars, members, converted>>

\* send() has sent or buffered the conversion.
Send ==
  /\ thread = "send" /\ producer
  /\ thread' = "converted"
  /\ outbox' = IF target \in Inputs THEN [outbox EXCEPT ![target] = @ + 1] ELSE outbox
  /\ converted' = converted \cup InHand
  /\ UNCHANGED <<logVars, state, members, runtime, reader, message, metrics, reportVars,
                 settled, torn>>

\* Mutant of SendFails: process_message() does not return behind the count.
SendFailsThrough ==
  /\ thread = "send"
  /\ Increment(source, "failed")
  /\ thread' = "converted"
  /\ UNCHANGED <<logVars, state, members, runtime, reader, outbox, message, entries,
                 reportVars, history>>

\* send() has refused it.
SendFails ==
  /\ thread = "send"
  /\ thread' = "failed"
  /\ UNCHANGED <<logVars, state, members, runtime, reader, outbox, message, metrics,
                 reportVars, history>>

CountConverted ==
  /\ thread = "converted"
  /\ Increment(source, "converted")
  /\ Done
  /\ UNCHANGED <<logVars, state, members, runtime, reader, outbox, entries, reportVars,
                 converted, torn>>

CountFailed ==
  /\ thread = "failed"
  /\ Increment(source, "failed")
  /\ Done
  /\ UNCHANGED <<logVars, state, members, runtime, reader, outbox, entries, reportVars,
                 converted, torn>>

ConsumerThread ==
  \/ CheckRunning \/ NothingConsumed \/ Consume \/ DropEmpty \/ FindEntry \/ CountReceived
  \/ FindType \/ Convert \/ ConvertThrows \/ Send \/ SendFails \/ CountConverted \/ CountFailed

----------------------------------------------------------------------------
(* publish_metrics *)

\* The timer fires; with no topics there is nothing to read.
PublishMetrics ==
  /\ GroupFree
  /\ timer /\ members.enabled
  /\ entries # {}
  /\ toRead' = entries \X Counters
  /\ UNCHANGED <<logVars, state, members, runtime, reader, outbox, thread, message,
                 metrics, reported, history>>

\* One relaxed load, which becomes the counter's prev_* value.  Nothing orders the
\* loads.
ReadCounter ==
  /\ \E t \in Inputs, c \in Counters :
       /\ <<t, c>> \in toRead
       /\ toRead' = toRead \ {<<t, c>>}
       /\ reported' = [reported EXCEPT ![t][c] = totals[t][c]]
  /\ UNCHANGED <<logVars, state, members, runtime, reader, outbox, thread, message,
                 metrics, history>>

----------------------------------------------------------------------------
(* The process *)

\* The process is killed.
Killed ==
  /\ state # "terminated"
  /\ state' = "terminated"
  /\ ProcessGone
  /\ UNCHANGED <<logVars, members, converted>>

\* Somebody starts the node again; this is all that helps a FINALIZED one.
Launch ==
  /\ state \in {"finalized", "terminated"}
  /\ state' = "unconfigured"
  /\ members' = Defaults
  /\ ProcessGone
  /\ UNCHANGED <<logVars, converted>>

Next ==
  \/ Kafka
  \/ Lifecycle \/ Joined \/ OnParametersSet \/ ConsumerThread
  \/ PublishMetrics \/ ReadCounter \/ Killed \/ Launch

Spec == Init /\ [][Next]_vars

----------------------------------------------------------------------------
(* Safety *)

\* Every record that process_message() has counted is converted or failed, or is the
\* one in hand: each of its many returns counts exactly once.
Accounted ==
  \A t \in Inputs :
    LET inHand == t = source /\ thread \in Counted IN
    totals[t]["received"]
      = totals[t]["converted"] + totals[t]["failed"] + (IF inHand THEN 1 ELSE 0)

\* What was reported never exceeds what is counted: the differences, which the report
\* computes without a sign, are never negative.
NeverAhead == \A t \in Inputs, c \in Counters : reported[t][c] <= totals[t][c]

CountersAddUp == Accounted /\ NeverAhead

\* What lies before a committed offset has been answered, or was in hand at a crash, or
\* was passed over by a reset to `latest` while the group had committed nothing of the
\* topic: no restart, rejoin or failed commit passes over any other record.
NothingSkipped ==
  \A t \in Inputs : \A n \in 0..(committed[t] - 1) :
    \/ <<t, n>> \in settled \cup passed
    \/ thread \in Holding /\ <<t, n>> \in InHand

\* No record is sent that was sent before, unless offsets that were stored were never
\* committed: after a crash, a failed commit or a lost topic, but not by deactivation or
\* cleanup, which join the thread before they close the consumer.
ConvertedOnce == thread = "send" /\ InHand \subseteq converted => torn

HandledOnce == NothingSkipped /\ ConvertedOnce

\* No routing makes an endless loop: what the node has sent to a topic that it reads
\* itself is not converted again.
NoEcho == converted \cap own = {}

\* The steps that the thread still takes once running_ is FALSE.
ThreadSteps ==
  CASE thread = "consume" -> 8 [] thread = "entry" -> 7 [] thread = "count" -> 6
    [] thread = "type" -> 5 [] thread = "convert" -> 4 [] thread = "send" -> 3
    [] thread \in {"converted", "failed"} -> 2 [] thread = "top" -> 1 [] OTHER -> 0

\* on_deactivate and on_shutdown join the thread: of all that happens meanwhile only
\* Kafka, the end of the process and at most eight steps of the thread do not have
\* to wait, and at most one more record is consumed.
JoinAdvances ==
  waiting # "none" =>
    /\ ThreadSteps <= 8
    /\ ThreadSteps = 0 <=> thread \in {"none", "exited"}
    /\ \/ waiting' = "none"
       \/ waiting' = waiting /\ ThreadSteps' < ThreadSteps
       \/ Kafka
    /\ source # NoTopic \/ source' = NoTopic \/ ThreadSteps = 8
JoinBounded == [][JoinAdvances]_vars

\* Whatever fails, the group is never set back: a commit that fails leaves what is
\* committed, and no consumer begins, or goes on, before it.
NeverSetBack ==
  \A t \in Inputs :
    /\ committed[t] <= committed'[t]
    /\ position'[t] # NoOffset => committed'[t] <= position'[t]
CommitsGrow == [][NeverSetBack]_vars
=============================================================================
