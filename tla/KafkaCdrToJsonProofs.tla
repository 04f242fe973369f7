------------------------ MODULE KafkaCdrToJsonProofs ------------------------
(***************************************************************************)
(* Theorems about kafka_cdr_to_json: its types and runtime, its counters,  *)
(* and what becomes of the records of its logs.                            *)
(***************************************************************************)
EXTENDS KafkaCdrToJson, TLAPS

\* The types of the flags, which the provers handle apart from the rest.
Flags ==
  /\ consumer \in BOOLEAN /\ producer \in BOOLEAN /\ isActive \in BOOLEAN
  /\ running \in BOOLEAN /\ timer \in BOOLEAN
  /\ torn \in BOOLEAN

\* Where the callbacks, the thread and the report are: the thread lives while the node
\* is ACTIVE, and a callback that joins it keeps the others out.
Places ==
  /\ state \in States
  /\ thread # "none" <=> state = "active"
  /\ waiting = "deactivate" => state = "active"
  /\ waiting # "none" => toRead = {}
  /\ waiting \in {"none", "deactivate", "shutdown"}
  /\ thread \in {"none", "top", "consume", "exited"} \cup Holding
  /\ source \in Inputs \cup {NoTopic} /\ target \in Topics \cup {NoTopic}
  /\ source # NoTopic <=> thread \in Holding
  /\ entries \subseteq Inputs
  /\ toRead \subseteq Inputs \X Counters

Parameters == members \in Values

CounterTypes ==
  /\ totals \in [Inputs -> [Counters -> Nat]]
  /\ reported \in [Inputs -> [Counters -> Nat]]

LogTypes ==
  /\ length \in [Inputs -> Nat] /\ committed \in [Inputs -> OffsetValues]
  /\ position \in [Inputs -> OffsetValues] /\ stored \subseteq Inputs
  /\ offset \in OffsetValues /\ outbox \in [Inputs -> Nat]
  /\ own \subseteq Records /\ passed \subseteq Records
  /\ converted \subseteq Records /\ settled \subseteq Records

\* Together they give TypeOK.
LEMMA Parts == Flags /\ Places /\ Parameters /\ CounterTypes /\ LogTypes => TypeOK
BY Zenon DEF TypeOK, Flags, Places, Parameters, CounterTypes, LogTypes

\* A record in hand comes from an input.
LEMMA HandPlaced == Places /\ thread \in Holding => source \in Inputs
BY DEF Places

LEMMA ZerosTyped == Zero \in [Counters -> Nat] /\ Zeros \in [Inputs -> [Counters -> Nat]]
BY DEF Zero, Zeros

LEMMA DefaultsTyped == Defaults \in Values
BY CdrToJsonAssumption DEF CdrToJsonAssumption, Defaults, Values, Resets

\* Incrementing a counter changes that counter of that topic.
LEMMA Incremented ==
  ASSUME NEW topic \in Inputs, NEW counter \in Counters,
         totals \in [Inputs -> [Counters -> Nat]], Increment(topic, counter)
  PROVE  /\ totals' \in [Inputs -> [Counters -> Nat]]
         /\ \A t \in Inputs, c \in Counters :
              totals'[t][c] = totals[t][c] + (IF t = topic /\ c = counter THEN 1 ELSE 0)
BY DEF Increment

----------------------------------------------------------------------------
(* Types *)

Base == Flags /\ Places /\ Parameters /\ CounterTypes

LEMMA BaseInit == Init => Base
<1> SUFFICES ASSUME Init PROVE Base
  OBVIOUS
<1>1. Flags
  BY Zenon DEF Init, Flags
<1>2. Places
  <2>1. /\ state = "unconfigured" /\ waiting = "none" /\ thread = "none"
        /\ source = NoTopic /\ target = NoTopic
        /\ entries = {} /\ toRead = {}
    BY Zenon DEF Init
  <2>2. QED
    BY <2>1 DEF Places, States, Holding, Counted
<1>3. Parameters
  BY DefaultsTyped, Zenon DEF Init, Parameters
<1>4. CounterTypes
  BY ZerosTyped, Zenon DEF Init, CounterTypes
<1>5. QED
  BY <1>1, <1>2, <1>3, <1>4 DEF Base

LEMMA CloseFlags ==
  ASSUME Flags, Close, StopProducer
  PROVE  consumer' \in BOOLEAN /\ producer' \in BOOLEAN /\ torn' \in BOOLEAN
BY Zenon DEF Flags, Close, GiveUp, StopProducer

LEMMA GoneFlags ==
  ASSUME Flags, ProcessGone PROVE Flags'
BY Zenon DEF Flags, ProcessGone, GiveUp, StopProducer

LEMMA FlagsStep == Flags /\ Parameters /\ [Next]_vars => Flags'
<1> SUFFICES ASSUME Flags, Parameters, [Next]_vars PROVE Flags'
  OBVIOUS
<1> USE DEF Flags
<1>1. CASE UNCHANGED <<runtime, torn>>
  BY <1>1, Zenon DEF runtime
<1>2. CASE UNCHANGED vars
  BY <1>1, <1>2, Zenon DEF vars, history
<1>3. CASE Kafka
  <2>1. CASE Rebalance
    <3>1. torn' \in BOOLEAN
      BY <2>1, Zenon DEF Rebalance, GiveUp
    <3>2. QED
      BY <2>1, <3>1, Zenon DEF Rebalance, runtime
  <2>2. QED
    BY <1>1, <1>3, <2>1, Zenon DEF Kafka, Produce, Deliver, Begin, AutoCommit, history
<1>4. CASE Lifecycle
  <2>1. CASE OnConfigure
    BY <1>1, <2>1, Zenon DEF OnConfigure, history
  <2>2. CASE OnActivate
    <3>1. members.enabled \in BOOLEAN
      BY DEF Parameters, Values
    <3>2. timer' \in BOOLEAN
      BY <2>2, <3>1, Zenon DEF OnActivate
    <3>3. QED
      BY <2>2, <3>2, Zenon DEF OnActivate, history
  <2>3. CASE OnActivateFails
    BY <1>2, <2>3 DEF OnActivateFails
  <2>4. CASE OnActivateThrows \/ OnDeactivate \/ OnShutdown
    BY <2>4, Zenon DEF OnActivateThrows, OnDeactivate, OnShutdown, history
  <2>5. CASE OnCleanup
    BY <2>5, CloseFlags, Zenon DEF OnCleanup
  <2>6. QED
    BY <1>4, <2>1, <2>2, <2>3, <2>4, <2>5 DEF Lifecycle
<1>5. CASE Joined
  BY <1>5, CloseFlags, Zenon DEF Joined, Deactivated, ShutDown
<1>6. CASE OnParametersSet
  BY <1>1, <1>6, Zenon DEF OnParametersSet, history
<1>7. CASE ConsumerThread
  <2>1. CASE Send
    BY <1>1, <2>1, Zenon DEF Send
  <2>2. CASE ConvertThrows
    BY <2>2, GoneFlags, Zenon DEF ConvertThrows
  <2>3. CASE CheckRunning \/ NothingConsumed \/ Consume \/ FindEntry \/ CountReceived
             \/ FindType \/ Convert \/ SendFails
    BY <1>1, <2>3, Zenon
       DEF CheckRunning, NothingConsumed, Consume, FindEntry, CountReceived, FindType, Convert,
           SendFails, history
  <2>4. CASE DropEmpty \/ CountConverted \/ CountFailed
    BY <1>1, <2>4, Zenon DEF DropEmpty, CountConverted, CountFailed
  <2>5. QED
    BY <1>7, <2>1, <2>2, <2>3, <2>4, Zenon DEF ConsumerThread
<1>8. CASE PublishMetrics \/ ReadCounter
  BY <1>1, <1>8, Zenon DEF PublishMetrics, ReadCounter, history
<1>9. CASE Killed \/ Launch
  BY <1>9, GoneFlags, Zenon DEF Killed, Launch
<1>10. QED
  BY <1>2, <1>3, <1>4, <1>5, <1>6, <1>7, <1>8, <1>9, Zenon DEF Next

LEMMA GonePlaced ==
  ASSUME ProcessGone, state' \in States \ {"active"} PROVE Places'
<1>1. /\ waiting' = "none" /\ thread' = "none" /\ source' = NoTopic /\ target' = NoTopic
      /\ entries' = {} /\ toRead' = {}
  BY Zenon DEF ProcessGone, HandEmpty
<1>2. QED
  BY <1>1 DEF Places, Holding, Counted

LEMMA PlacesStep == Places /\ Parameters /\ [Next]_vars => Places'
<1> SUFFICES ASSUME Places, Parameters, [Next]_vars PROVE Places'
  OBVIOUS
<1> USE CdrToJsonAssumption DEF CdrToJsonAssumption, Places, States, Holding, Counted, GroupFree
<1>1. CASE UNCHANGED vars
  BY <1>1 DEF vars, runtime, message, metrics, reportVars
<1>2. CASE Kafka
  BY <1>2 DEF Kafka, Produce, Deliver, Begin, AutoCommit, Rebalance, runtime, message, metrics,
     reportVars
<1>3. CASE Lifecycle
  <2>1. CASE OnConfigure
    BY <2>1 DEF OnConfigure, runtime, message, metrics, reportVars
  <2>2. CASE OnActivate
    BY <2>2 DEF OnActivate, message, metrics, reportVars
  <2>3. CASE OnActivateFails
    BY <2>3, <1>1 DEF OnActivateFails
  <2>4. CASE OnActivateThrows
    BY <2>4 DEF OnActivateThrows, message, metrics, reportVars
  <2>5. CASE OnDeactivate
    BY <2>5 DEF OnDeactivate, message, metrics, reportVars
  <2>6. CASE OnCleanup
    BY <2>6 DEF OnCleanup, message
  <2>7. CASE OnShutdown
    BY <2>7 DEF OnShutdown, message, metrics, reportVars
  <2>8. QED
    BY <1>3, <2>1, <2>2, <2>3, <2>4, <2>5, <2>6, <2>7 DEF Lifecycle
<1>4. CASE Joined
  BY <1>4 DEF Joined, Deactivated, ShutDown, message, metrics, reportVars
<1>5. CASE OnParametersSet
  BY <1>5 DEF OnParametersSet, runtime, message, metrics, reportVars
<1>6. CASE ConsumerThread
  <2>1. CASE CheckRunning \/ NothingConsumed \/ FindType \/ Convert \/ SendFails
    BY <2>1 DEF CheckRunning, NothingConsumed, FindType, Convert, SendFails, runtime, message,
       metrics, reportVars
  <2>2. CASE Consume
    BY <2>2 DEF Consume, runtime, metrics, reportVars
  <2>3. CASE FindEntry
    <3>1. source \in Inputs
      BY <2>3, HandPlaced DEF FindEntry
    <3>2. OutputTopic(source) \in Topics
      BY <3>1 DEF OutputTopic, Parameters, Values
    <3>3. QED
      BY <2>3, <3>1, <3>2 DEF FindEntry, runtime, reportVars
  <2>4. CASE CountReceived \/ Send
    BY <2>4 DEF CountReceived, Send, runtime, message, metrics, reportVars
  <2>5. CASE DropEmpty \/ CountConverted \/ CountFailed
    BY <2>5 DEF DropEmpty, CountConverted, CountFailed, Done, HandEmpty, runtime, metrics,
       reportVars
  <2>6. CASE ConvertThrows
    BY <2>6, GonePlaced DEF ConvertThrows
  <2>7. QED
    BY <1>6, <2>1, <2>2, <2>3, <2>4, <2>5, <2>6 DEF ConsumerThread
<1>7. CASE PublishMetrics
  BY <1>7 DEF PublishMetrics, runtime, message, metrics
<1>8. CASE ReadCounter
  BY <1>8 DEF ReadCounter, runtime, message, metrics
<1>9. CASE Killed \/ Launch
  BY <1>9, GonePlaced DEF Killed, Launch
<1>10. QED
  BY <1>1, <1>2, <1>3, <1>4, <1>5, <1>6, <1>7, <1>8, <1>9 DEF Next

LEMMA ParametersStep == Parameters /\ [Next]_vars => Parameters'
<1> SUFFICES ASSUME Parameters, [Next]_vars PROVE Parameters'
  OBVIOUS
<1> USE DEF Parameters
<1>1. CASE UNCHANGED members
  BY <1>1
<1>2. CASE OnConfigure \/ OnParametersSet
  BY <1>2, Zenon DEF OnConfigure, OnParametersSet
<1>4. CASE Launch
  BY <1>4, DefaultsTyped, Zenon DEF Launch
<1>5. CASE UNCHANGED vars
  BY <1>1, <1>5, Zenon DEF vars
<1>6. CASE Lifecycle \/ Joined
  BY <1>1, <1>2, <1>5, <1>6, Zenon
     DEF Lifecycle, Joined, OnActivate, OnActivateFails, OnActivateThrows, OnDeactivate,
         OnCleanup, OnShutdown, Deactivated, ShutDown
<1>7. CASE ConsumerThread
  BY <1>1, <1>7, Zenon
     DEF ConsumerThread, CheckRunning, NothingConsumed, Consume, DropEmpty, FindEntry,
         CountReceived, FindType, Convert, ConvertThrows, Send, SendFails, CountConverted,
         CountFailed
<1>8. CASE Kafka \/ PublishMetrics \/ ReadCounter \/ Killed
  BY <1>1, <1>8, Zenon
     DEF Kafka, Produce, Deliver, Begin, AutoCommit, Rebalance, PublishMetrics, ReadCounter, Killed
<1>9. QED
  BY <1>2, <1>4, <1>5, <1>6, <1>7, <1>8, Zenon DEF Next

\* What publish_metrics() reads of a counter becomes the value last reported.
LEMMA ReadIs ==
  ASSUME CounterTypes, ReadCounter
  PROVE  /\ reported' \in [Inputs -> [Counters -> Nat]]
         /\ UNCHANGED totals
         /\ \A t \in Inputs, c \in Counters :
              reported'[t][c] \in {reported[t][c], totals[t][c]}
<1>1. UNCHANGED totals
  BY Zenon DEF ReadCounter, metrics
<1>2. PICK t \in Inputs, c \in Counters : reported' = [reported EXCEPT ![t][c] = totals[t][c]]
  BY Zenon DEF ReadCounter
<1>3. QED
  BY <1>1, <1>2 DEF CounterTypes

LEMMA CounterTypesStep == Places /\ CounterTypes /\ [Next]_vars => CounterTypes'
<1> SUFFICES ASSUME Places, CounterTypes, [Next]_vars PROVE CounterTypes'
  OBVIOUS
<1>1. CASE UNCHANGED <<totals, reported>>
  BY <1>1 DEF CounterTypes
<1>2. CASE UNCHANGED vars
  BY <1>1, <1>2, Zenon DEF vars, metrics, reportVars
<1>3. CASE Kafka \/ OnParametersSet \/ PublishMetrics
  BY <1>1, <1>3, Zenon
     DEF Kafka, Produce, Deliver, Begin, AutoCommit, Rebalance, OnParametersSet, PublishMetrics,
         metrics, reportVars
<1>4. CASE OnCleanup
  <2>1. totals' = Zeros /\ reported' = Zeros
    BY <1>4, Zenon DEF OnCleanup
  <2>2. QED
    BY <2>1, ZerosTyped, Zenon DEF CounterTypes
<1>5. CASE Lifecycle \/ Joined
  BY <1>1, <1>2, <1>4, <1>5, Zenon
     DEF Lifecycle, Joined, OnConfigure, OnActivate, OnActivateFails, OnActivateThrows,
         OnDeactivate, OnShutdown, Deactivated, ShutDown, metrics, reportVars
<1>6. ASSUME ProcessGone PROVE CounterTypes'
  <2>1. totals' = Zeros /\ reported' = Zeros
    BY <1>6, Zenon DEF ProcessGone
  <2>2. QED
    BY <2>1, ZerosTyped, Zenon DEF CounterTypes
<1>7. ASSUME NEW c \in Counters, thread \in Holding, Increment(source, c),
             UNCHANGED reported
      PROVE  CounterTypes'
  BY <1>7, HandPlaced, Incremented DEF CounterTypes
<1>8. CASE CountReceived \/ CountConverted \/ CountFailed
  BY <1>7, <1>8 DEF CountReceived, CountConverted, CountFailed, Counters, Holding, Counted,
     reportVars
<1>9. CASE ConsumerThread
  BY <1>1, <1>6, <1>8, <1>9, Zenon
     DEF ConsumerThread, CheckRunning, NothingConsumed, Consume, DropEmpty, FindEntry,
         FindType, Convert, ConvertThrows, Send, SendFails, metrics, reportVars
<1>10. CASE ReadCounter
  BY <1>10, ReadIs DEF CounterTypes
<1>11. CASE Killed \/ Launch
  BY <1>6, <1>11, Zenon DEF Killed, Launch
<1>12. QED
  BY <1>2, <1>3, <1>5, <1>9, <1>10, <1>11, Zenon DEF Next

LEMMA BaseAlways == Spec => []Base
<1>1. Base /\ [Next]_vars => Base'
  BY FlagsStep, PlacesStep, ParametersStep, CounterTypesStep, Zenon DEF Base
<1>2. QED
  BY <1>1, BaseInit, PTL DEF Spec

----------------------------------------------------------------------------
(* What a step does to the logs and to the record in hand *)

\* The record in hand is not yet sent.
Fresh == {"entry", "count", "type", "convert", "send"}

\* A record in hand stays in hand, and none is converted that this node has sent.
HandKept ==
  /\ thread \in Holding <=> thread' \in Holding
  /\ thread' \in Fresh => thread \in Fresh
  /\ thread' \in {"convert", "send"} =>
       thread \in {"convert", "send"} \/ ~(InHand \subseteq own)

Quiet == UNCHANGED <<logVars, reader, outbox, source, offset, history>> /\ HandKept

Answer ==
  /\ thread \in Holding
  /\ Done
  /\ UNCHANGED <<logVars, reader, outbox, converted, torn>>

Closed ==
  /\ thread \notin Holding /\ thread' \notin Holding
  /\ Close /\ StopProducer
  /\ UNCHANGED <<length, own, passed, source, offset, converted, settled>>

Gone == ProcessGone /\ UNCHANGED <<length, own, passed, converted>>

LogStep == Quiet \/ Answer \/ Closed \/ Gone \/ Kafka \/ Consume \/ Send

LEMMA Classified == Places /\ [Next]_vars => LogStep
<1> SUFFICES ASSUME Places, [Next]_vars PROVE LogStep
  OBVIOUS
<1>k. ASSUME UNCHANGED <<logVars, reader, outbox, history, thread, source, offset>> PROVE LogStep
  BY <1>k, Zenon DEF LogStep, Quiet, HandKept
<1>h. ASSUME UNCHANGED <<logVars, reader, outbox, source, offset, history>>, HandKept
      PROVE  LogStep
  BY <1>h, Zenon DEF LogStep, Quiet
<1>1. CASE UNCHANGED vars
  BY <1>1, <1>k, Zenon DEF vars, message
<1>2. CASE Lifecycle
  <2>1. CASE OnConfigure \/ OnActivateThrows \/ OnDeactivate \/ OnShutdown
    BY <1>k, <2>1, Zenon DEF OnConfigure, OnActivateThrows, OnDeactivate, OnShutdown, message
  <2>2. CASE OnActivate
    <3>1. thread = "none" /\ thread' = "top"
      BY <2>2 DEF OnActivate, Places, States
    <3>2. HandKept
      BY <3>1 DEF HandKept, Holding, Counted, Fresh
    <3>3. QED
      BY <1>h, <2>2, <3>2, Zenon DEF OnActivate, message
  <2>3. CASE OnActivateFails
    BY <1>1, <1>k, <2>3, Zenon DEF OnActivateFails, vars, message
  <2>4. CASE OnCleanup
    <3>1. thread = "none" /\ thread' = "none"
      BY <2>4 DEF OnCleanup, Places, States
    <3>2. thread \notin Holding /\ thread' \notin Holding
      BY <3>1 DEF Holding, Counted
    <3>3. QED
      BY <2>4, <3>2, Zenon DEF OnCleanup, LogStep, Closed, message
  <2>5. QED
    BY <1>2, <2>1, <2>2, <2>3, <2>4, Zenon DEF Lifecycle
<1>3. CASE Joined
  <2>1. thread \in {"none", "exited"} /\ thread' = "none"
    BY <1>3, Zenon DEF Joined, Deactivated, ShutDown
  <2>2. thread \notin Holding /\ thread' \notin Holding
    BY <2>1 DEF Holding, Counted
  <2>3. QED
    BY <1>3, <2>2, Zenon DEF Joined, Deactivated, ShutDown, LogStep, Closed, message
<1>4. CASE ConsumerThread
  <2>1. CASE CheckRunning \/ NothingConsumed
    <3>1. thread \in {"top", "consume"} /\ thread' \in {"top", "consume", "exited"}
      BY <2>1 DEF CheckRunning, NothingConsumed
    <3>2. HandKept
      BY <3>1 DEF HandKept, Holding, Counted, Fresh
    <3>3. QED
      BY <1>h, <2>1, <3>2, Zenon DEF CheckRunning, NothingConsumed, message
  <2>2. CASE FindEntry \/ CountReceived \/ Convert \/ SendFails
    <3>1. /\ \/ thread = "entry" /\ thread' = "count"
             \/ thread = "count" /\ thread' = "type"
             \/ thread = "convert" /\ thread' \in {"send", "failed"}
             \/ thread = "send" /\ thread' = "failed"
          /\ source' = source /\ offset' = offset
      BY <2>2, Zenon DEF FindEntry, CountReceived, Convert, SendFails, message
    <3>2. HandKept
      BY <3>1 DEF HandKept, Holding, Counted, Fresh
    <3>3. QED
      BY <1>h, <2>2, <3>2, Zenon DEF FindEntry, CountReceived, Convert, SendFails, message
  <2>3. CASE FindType
    <3>1. /\ thread = "type" /\ thread' \in {"convert", "failed"}
          /\ source' = source /\ offset' = offset
          /\ InHand \subseteq own => thread' = "failed"
      BY <2>3 DEF FindType, message
    <3>2. HandKept
      BY <3>1 DEF HandKept, Holding, Counted, Fresh
    <3>3. QED
      BY <1>h, <2>3, <3>2, Zenon DEF FindType, message
  <2>4. CASE DropEmpty \/ CountConverted \/ CountFailed
    <3>1. thread \in {"entry", "converted", "failed"}
      BY <2>4 DEF DropEmpty, CountConverted, CountFailed
    <3>2. thread \in Holding
      BY <3>1 DEF Holding, Counted
    <3>3. QED
      BY <2>4, <3>2, Zenon DEF DropEmpty, CountConverted, CountFailed, LogStep, Answer
  <2>5. CASE ConvertThrows
    BY <2>5, Zenon DEF ConvertThrows, LogStep, Gone, logVars
  <2>6. QED
    BY <1>4, <2>1, <2>2, <2>3, <2>4, <2>5, Zenon DEF ConsumerThread, LogStep
<1>5. CASE OnParametersSet \/ PublishMetrics \/ ReadCounter
  BY <1>5, <1>k, Zenon DEF OnParametersSet, PublishMetrics, ReadCounter, message
<1>6. CASE Killed \/ Launch
  BY <1>6, Zenon DEF Killed, Launch, LogStep, Gone, logVars
<1>7. QED
  BY <1>1, <1>2, <1>3, <1>4, <1>5, <1>6, Zenon DEF Next, LogStep

----------------------------------------------------------------------------
(* Offsets *)

OffsetTypes ==
  /\ length \in [Inputs -> Nat] /\ committed \in [Inputs -> OffsetValues]
  /\ position \in [Inputs -> OffsetValues] /\ stored \subseteq Inputs
  /\ offset \in OffsetValues /\ outbox \in [Inputs -> Nat]

\* What is committed or read is in the log, a consumer is not before what is committed,
\* and only what was read is stored.
InOrder ==
  \A t \in Inputs :
    /\ committed[t] <= length[t] /\ position[t] <= length[t]
    /\ position[t] # NoOffset => committed[t] <= position[t]
    /\ t \in stored => position[t] # NoOffset

HandInLog == thread \in Holding => source \in Inputs /\ offset \in Nat /\ offset < length[source]

Offsets == OffsetTypes /\ InOrder /\ HandInLog

LEMMA OffsetsInit == Init => Offsets
<1> SUFFICES ASSUME Init PROVE Offsets
  OBVIOUS
<1>1. OffsetTypes /\ InOrder
  BY DEF Init, OffsetTypes, InOrder, OffsetValues, NoOffset
<1>2. HandInLog
  BY DEF Init, HandInLog, Holding, Counted
<1>3. QED
  BY <1>1, <1>2 DEF Offsets

\* What a consumer makes of the topics that it loses.
LEMMA GivenUp ==
  ASSUME OffsetTypes, InOrder, NEW topics, NEW saved \in SUBSET stored,
         saved \subseteq topics, GiveUp(topics, saved)
  PROVE  /\ committed' \in [Inputs -> OffsetValues] /\ position' \in [Inputs -> OffsetValues]
         /\ stored' = stored \ topics
         /\ \A t \in Inputs :
              /\ committed'[t] = IF t \in saved THEN position[t] ELSE committed[t]
              /\ committed[t] <= committed'[t]
              /\ position'[t] = IF t \in topics THEN NoOffset ELSE position[t]
<1>1. /\ committed' = [t \in Inputs |-> IF t \in saved THEN position[t] ELSE committed[t]]
      /\ position' = [t \in Inputs |-> IF t \in topics THEN NoOffset ELSE position[t]]
      /\ stored' = stored \ topics
  BY Zenon DEF GiveUp
<1>2. QED
  BY <1>1 DEF OffsetTypes, InOrder, OffsetValues, NoOffset

\* A consumer is closed, its process ends, or a topic is taken from it.
GivesUp ==
  \E topics \in SUBSET Inputs, saved \in SUBSET stored :
    saved \subseteq topics /\ GiveUp(topics, saved)

LEMMA Loses == OffsetTypes /\ (Closed \/ Gone \/ Rebalance) => GivesUp
<1> SUFFICES ASSUME OffsetTypes, Closed \/ Gone \/ Rebalance PROVE GivesUp
  OBVIOUS
<1>1. CASE Closed
  <2>1. PICK saved \in SUBSET stored : GiveUp(Inputs, saved)
    BY <1>1, Zenon DEF Closed, Close
  <2>2. saved \subseteq Inputs
    BY DEF OffsetTypes
  <2>3. QED
    BY <2>1, <2>2, Zenon DEF GivesUp
<1>2. CASE Gone
  <2>1. GiveUp(Inputs, {})
    BY <1>2, Zenon DEF Gone, ProcessGone
  <2>2. QED
    BY <2>1, Zenon DEF GivesUp
<1>3. CASE Rebalance
  <2>1. PICK t \in Inputs : \E saved \in SUBSET ({t} \cap stored) : GiveUp({t}, saved)
    BY <1>3, Zenon DEF Rebalance
  <2>2. PICK saved \in SUBSET ({t} \cap stored) : GiveUp({t}, saved)
    BY <2>1
  <2>3. {t} \in SUBSET Inputs /\ saved \in SUBSET stored /\ saved \subseteq {t}
    OBVIOUS
  <2>4. QED
    BY <2>2, <2>3, Zenon DEF GivesUp
<1>4. QED
  BY <1>1, <1>2, <1>3

\* Where a consumer begins.
LEMMA BeginsAt ==
  ASSUME OffsetTypes, InOrder, Begin
  PROVE  /\ UNCHANGED <<length, own, committed, stored, outbox, thread, source, offset,
                        converted, settled, torn>>
         /\ \E t \in Inputs :
              /\ position[t] = NoOffset
              /\ position' \in [Inputs -> OffsetValues]
              /\ \A u \in Inputs \ {t} : position'[u] = position[u]
              /\ position'[t] \in Nat /\ committed[t] <= position'[t]
              /\ position'[t] <= length[t]
              /\ passed \subseteq passed'
              /\ \A n \in Nat : committed[t] <= n /\ n < position'[t] => <<t, n>> \in passed'
              /\ passed' \subseteq passed \cup ({t} \X (0..(length[t] - 1)))
<1>1. UNCHANGED <<length, own, committed, stored, outbox, thread, source, offset, converted,
                  settled, torn>>
  BY Zenon DEF Begin, message, history
<1>2. PICK t \in Inputs :
        /\ position[t] = NoOffset
        /\ \/ /\ committed[t] # NoOffset
              /\ position' = [position EXCEPT ![t] = committed[t]]
              /\ UNCHANGED passed
           \/ /\ committed[t] = NoOffset /\ members.reset = "earliest"
              /\ position' = [position EXCEPT ![t] = 0]
              /\ UNCHANGED passed
           \/ /\ committed[t] = NoOffset /\ members.reset = "latest"
              /\ position' = [position EXCEPT ![t] = length[t]]
              /\ passed' = passed \cup ({t} \X (0..(length[t] - 1)))
  BY Zenon DEF Begin
<1>3. /\ position' \in [Inputs -> OffsetValues]
      /\ \A u \in Inputs \ {t} : position'[u] = position[u]
      /\ position'[t] \in Nat /\ committed[t] <= position'[t] /\ position'[t] <= length[t]
  BY <1>2 DEF OffsetTypes, InOrder, OffsetValues, NoOffset
<1>4. /\ passed \subseteq passed'
      /\ passed' \subseteq passed \cup ({t} \X (0..(length[t] - 1)))
  BY <1>2
<1>5. \A n \in Nat : committed[t] <= n /\ n < position'[t] => <<t, n>> \in passed'
  BY <1>2 DEF OffsetTypes, OffsetValues, NoOffset
<1>6. QED
  BY <1>1, <1>2, <1>3, <1>4, <1>5

\* What consume() makes of the offsets.
LEMMA ConsumesAt ==
  ASSUME OffsetTypes, Consume
  PROVE  /\ UNCHANGED <<logVars, outbox, history>>
         /\ thread = "consume" /\ thread' = "entry"
         /\ source' \in Inputs /\ offset' = position[source'] /\ offset' \in Nat
         /\ offset' < length[source']
         /\ position' \in [Inputs -> OffsetValues]
         /\ \A t \in Inputs :
              position'[t] = IF t = source' THEN position[t] + 1 ELSE position[t]
         /\ stored' = stored \cup {source'}
<1>1. /\ UNCHANGED <<logVars, outbox, history>>
      /\ thread = "consume" /\ thread' = "entry"
      /\ source' \in Inputs /\ offset' = position[source'] /\ offset' # NoOffset
      /\ offset' < length[source'] /\ position' = [position EXCEPT ![source'] = @ + 1]
      /\ stored' = stored \cup {source'}
  BY Zenon DEF Consume
<1>2. QED
  BY <1>1 DEF OffsetTypes, OffsetValues, NoOffset

LEMMA OffsetsStep == Offsets /\ LogStep => Offsets'
<1> SUFFICES ASSUME OffsetTypes, InOrder, HandInLog, LogStep PROVE Offsets'
  BY DEF Offsets
<1>t. ASSUME UNCHANGED <<length, committed, position, stored>>, offset' \in OffsetValues,
             outbox' \in [Inputs -> Nat], HandInLog'
      PROVE  Offsets'
  BY <1>t DEF Offsets, OffsetTypes, InOrder
<1>1. CASE Quiet
  <2>1. UNCHANGED <<length, committed, position, stored, source, offset, outbox>> /\ HandKept
    BY <1>1, Zenon DEF Quiet, logVars, reader
  <2>2. HandInLog'
    BY <2>1 DEF HandKept, HandInLog
  <2>3. QED
    BY <1>t, <2>1, <2>2 DEF OffsetTypes
<1>2. CASE Answer
  <2>1. /\ UNCHANGED <<length, committed, position, stored, outbox>>
        /\ offset' = NoOffset /\ thread' = "top"
    BY <1>2, Zenon DEF Answer, Done, HandEmpty, logVars, reader
  <2>2. HandInLog'
    BY <2>1 DEF HandInLog, Holding, Counted
  <2>3. QED
    BY <1>t, <2>1, <2>2 DEF OffsetTypes, OffsetValues
<1>3. ASSUME GivesUp, outbox' \in [Inputs -> Nat], offset' \in OffsetValues, UNCHANGED length,
             HandInLog'
      PROVE  Offsets'
  <2>1. PICK topics \in SUBSET Inputs, saved \in SUBSET stored :
          saved \subseteq topics /\ GiveUp(topics, saved)
    BY <1>3, Zenon DEF GivesUp
  <2>2. OffsetTypes'
    BY <1>3, <2>1, GivenUp DEF OffsetTypes
  <2>3. InOrder'
    BY <1>3, <2>1, GivenUp DEF InOrder, OffsetTypes, OffsetValues, NoOffset
  <2>4. QED
    BY <1>3, <2>2, <2>3 DEF Offsets
<1>4. CASE Closed
  <2>1. outbox' = [t \in Inputs |-> 0] /\ UNCHANGED <<offset, length>> /\ thread' \notin Holding
    BY <1>4, Zenon DEF Closed, StopProducer
  <2>2. QED
    BY <1>3, <1>4, <2>1, Loses DEF OffsetTypes, HandInLog
<1>5. CASE Gone
  <2>1. /\ outbox' = [t \in Inputs |-> 0] /\ offset' = NoOffset /\ UNCHANGED length
        /\ thread' = "none"
    BY <1>5, Zenon DEF Gone, ProcessGone, StopProducer, HandEmpty
  <2>2. HandInLog'
    BY <2>1 DEF HandInLog, Holding, Counted
  <2>3. QED
    BY <1>3, <1>5, <2>1, <2>2, Loses DEF OffsetValues
<1>6. CASE Rebalance
  <2>1. UNCHANGED <<length, outbox, thread, source, offset>>
    BY <1>6, Zenon DEF Rebalance, message
  <2>2. QED
    BY <1>3, <1>6, <2>1, Loses DEF OffsetTypes, HandInLog
<1>7. CASE Produce \/ Deliver
  <2>1. /\ UNCHANGED <<committed, position, stored, thread, source, offset>>
        /\ length' \in [Inputs -> Nat] /\ outbox' \in [Inputs -> Nat]
        /\ \A t \in Inputs : length[t] <= length'[t]
    BY <1>7 DEF Produce, Deliver, OffsetTypes, reader, message
  <2>2. OffsetTypes' /\ InOrder'
    BY <2>1 DEF OffsetTypes, InOrder, OffsetValues, NoOffset
  <2>3. HandInLog'
    BY <2>1 DEF OffsetTypes, HandInLog
  <2>4. QED
    BY <2>2, <2>3 DEF Offsets
<1>8. CASE Begin
  <2>1. UNCHANGED <<length, committed, stored, outbox, thread, source, offset>>
    BY <1>8, BeginsAt
  <2>2. PICK t \in Inputs :
          /\ position' \in [Inputs -> OffsetValues]
          /\ \A u \in Inputs \ {t} : position'[u] = position[u]
          /\ position'[t] \in Nat /\ committed[t] <= position'[t] /\ position'[t] <= length[t]
    BY <1>8, BeginsAt, Zenon
  <2>3. OffsetTypes' /\ HandInLog'
    BY <2>1, <2>2 DEF OffsetTypes, HandInLog
  <2>4. InOrder'
    BY <2>1, <2>2 DEF InOrder, NoOffset
  <2>5. QED
    BY <2>3, <2>4 DEF Offsets
<1>9. CASE AutoCommit
  <2>1. UNCHANGED <<length, position, stored, outbox, thread, source, offset>>
    BY <1>9, Zenon DEF AutoCommit, reader, message
  <2>2. PICK t \in stored : committed' = [committed EXCEPT ![t] = position[t]]
    BY <1>9, Zenon DEF AutoCommit
  <2>3. OffsetTypes' /\ HandInLog'
    BY <2>1, <2>2 DEF OffsetTypes, HandInLog
  <2>4. InOrder'
    BY <2>1, <2>2 DEF InOrder, OffsetTypes, OffsetValues, NoOffset
  <2>5. QED
    BY <2>3, <2>4 DEF Offsets
<1>10. CASE Consume
  <2>1. UNCHANGED <<length, committed, outbox>>
    BY <1>10, ConsumesAt, Zenon DEF logVars
  <2>2. OffsetTypes' /\ HandInLog'
    BY <1>10, <2>1, ConsumesAt DEF OffsetTypes, HandInLog, OffsetValues
  <2>3. InOrder'
    BY <1>10, <2>1, ConsumesAt DEF InOrder, OffsetTypes, OffsetValues, NoOffset
  <2>4. QED
    BY <2>2, <2>3 DEF Offsets
<1>11. CASE Send
  <2>1. /\ UNCHANGED <<length, committed, position, stored, source, offset>>
        /\ thread = "send" /\ thread' = "converted"
        /\ outbox' = IF target \in Inputs THEN [outbox EXCEPT ![target] = @ + 1] ELSE outbox
    BY <1>11, Zenon DEF Send, logVars, reader, message
  <2>2. outbox' \in [Inputs -> Nat]
    BY <2>1 DEF OffsetTypes
  <2>3. HandInLog'
    BY <2>1 DEF HandInLog, Holding, Counted
  <2>4. QED
    BY <1>t, <2>1, <2>2, <2>3 DEF OffsetTypes
<1>12. QED
  BY <1>1, <1>2, <1>4, <1>5, <1>6, <1>7, <1>8, <1>9, <1>10, <1>11, Zenon DEF LogStep, Kafka

LEMMA OffsetsAlways == Spec => []Offsets
<1>1. Base => Places
  BY DEF Base
<1>2. QED
  BY <1>1, OffsetsInit, OffsetsStep, Classified, BaseAlways, PTL DEF Spec

\* The topic and the offset of the record in hand.
LEMMA HandIs ==
  ASSUME Offsets, thread \in Holding
  PROVE  InHand = {<<source, offset>>} /\ InHand \subseteq Records
BY DEF Offsets, HandInLog, InHand, Records

----------------------------------------------------------------------------
(* The records of the histories *)

Histories ==
  /\ own \subseteq Records /\ passed \subseteq Records
  /\ converted \subseteq Records /\ settled \subseteq Records

LEMMA HistoriesStep == Offsets /\ Histories /\ LogStep => Histories'
<1> SUFFICES ASSUME Offsets, Histories, LogStep PROVE Histories'
  OBVIOUS
<1> USE DEF Histories
<1>u. ASSUME UNCHANGED <<own, passed, converted, settled>> PROVE Histories'
  BY <1>u
<1>1. CASE Quiet \/ Closed \/ Produce \/ AutoCommit \/ Rebalance \/ Consume
  BY <1>1, <1>u, Zenon
     DEF Quiet, Closed, Produce, AutoCommit, Rebalance, Consume, logVars, history
<1>2. CASE Answer
  <2>1. /\ thread \in Holding /\ settled' = settled \cup InHand
        /\ UNCHANGED <<own, passed, converted>>
    BY <1>2, Zenon DEF Answer, Done, logVars
  <2>2. QED
    BY <2>1, HandIs
<1>3. CASE Gone
  <2>1. /\ settled' = IF thread \in Holding THEN settled \cup InHand ELSE settled
        /\ UNCHANGED <<own, passed, converted>>
    BY <1>3, Zenon DEF Gone, ProcessGone
  <2>2. QED
    BY <2>1, HandIs
<1>4. CASE Deliver
  <2>1. PICK t \in Inputs : own' = own \cup {<<t, length[t]>>}
    BY <1>4 DEF Deliver
  <2>2. <<t, length[t]>> \in Records
    BY DEF Offsets, OffsetTypes, Records
  <2>3. QED
    BY <1>4, <2>1, <2>2 DEF Deliver, history
<1>5. CASE Begin
  <2>1. UNCHANGED <<own, converted, settled>>
    BY <1>5, Zenon DEF Begin, history
  <2>2. PICK t \in Inputs : passed' \subseteq passed \cup ({t} \X (0..(length[t] - 1)))
    BY <1>5, BeginsAt, Zenon DEF Offsets
  <2>3. QED
    BY <2>1, <2>2 DEF Records
<1>6. CASE Send
  <2>1. InHand \subseteq Records
    BY <1>6, HandIs DEF Send, Holding, Counted
  <2>2. QED
    BY <1>6, <2>1 DEF Send, logVars
<1>7. QED
  BY <1>1, <1>2, <1>3, <1>4, <1>5, <1>6, Zenon DEF LogStep, Kafka

LEMMA HistoriesAlways == Spec => []Histories
<1>1. Init => Histories
  BY DEF Init, Histories
<1>2. Base => Places
  BY DEF Base
<1>3. QED
  BY <1>1, <1>2, HistoriesStep, Classified, BaseAlways, OffsetsAlways, PTL DEF Spec

\* The converter is well typed: its counters belong to input topics, and a record is in
\* hand exactly between consume() and the answer.
THEOREM TypeCorrect == Spec => []TypeOK
<1>1. Base /\ Offsets /\ Histories => TypeOK
  <2> SUFFICES ASSUME Base, Offsets, Histories PROVE TypeOK
    OBVIOUS
  <2>1. LogTypes
    BY Zenon DEF Offsets, OffsetTypes, Histories, LogTypes
  <2>2. QED
    BY <2>1, Parts, Zenon DEF Base
<1>2. QED
  BY <1>1, BaseAlways, OffsetsAlways, HistoriesAlways, PTL

----------------------------------------------------------------------------
(* No record is passed over *)

\* A record that was answered, was in hand at a crash, or was passed over by a reset to
\* `latest`.
Settled(t, n) == <<t, n>> \in settled \cup passed

\* What is committed or read is settled or in hand.
Answered ==
  \A t \in Inputs, n \in Nat : n < committed[t] \/ n < position[t] =>
    Settled(t, n) \/ (thread \in Holding /\ t = source /\ n = offset)

LEMMA AnsweredStep == Offsets /\ Answered /\ LogStep => Answered'
<1> SUFFICES ASSUME Offsets, Answered, LogStep PROVE Answered'
  OBVIOUS
<1>o. OffsetTypes /\ InOrder /\ HandInLog
  BY DEF Offsets
<1>k. ASSUME UNCHANGED <<committed, position, source, offset, passed, settled>>,
             thread \in Holding <=> thread' \in Holding
      PROVE  Answered'
  BY <1>k DEF Answered, Settled
<1>1. CASE Quiet
  BY <1>1, <1>k, Zenon DEF Quiet, HandKept, logVars, reader, history
<1>2. CASE Answer
  <2>1. /\ thread \in Holding /\ settled' = settled \cup InHand
        /\ UNCHANGED <<committed, position, passed>>
    BY <1>2, Zenon DEF Answer, Done, logVars, reader
  <2>2. QED
    BY <2>1, HandIs DEF Answered, Settled
<1>3. ASSUME GivesUp, passed' = passed,
             \A t \in Inputs, n \in Nat :
               Settled(t, n) \/ (thread \in Holding /\ t = source /\ n = offset) =>
                 Settled(t, n)' \/ (thread' \in Holding /\ t = source' /\ n = offset')
      PROVE  Answered'
  <2>1. PICK topics \in SUBSET Inputs, saved \in SUBSET stored :
          saved \subseteq topics /\ GiveUp(topics, saved)
    BY <1>3, Zenon DEF GivesUp
  <2>2. \A t \in Inputs : /\ committed'[t] \in {committed[t], position[t]}
                          /\ position'[t] \in {position[t], NoOffset}
    BY <1>o, <2>1, GivenUp
  <2>3. \A t \in Inputs, n \in Nat :
          n < committed'[t] \/ n < position'[t] => n < committed[t] \/ n < position[t]
    BY <2>2 DEF NoOffset
  <2>4. QED
    BY <1>3, <2>3 DEF Answered
<1>4. CASE Closed
  <2>1. thread \notin Holding /\ UNCHANGED <<passed, settled>>
    BY <1>4, Zenon DEF Closed
  <2>2. QED
    BY <1>3, <1>4, <1>o, <2>1, Loses DEF Settled
<1>5. CASE Gone
  <2>1. /\ settled' = IF thread \in Holding THEN settled \cup InHand ELSE settled
        /\ UNCHANGED passed
    BY <1>5, Zenon DEF Gone, ProcessGone
  <2>2. QED
    BY <1>3, <1>5, <1>o, <2>1, HandIs, Loses DEF Settled
<1>6. CASE Rebalance
  <2>1. UNCHANGED <<passed, settled, thread, source, offset>>
    BY <1>6, Zenon DEF Rebalance, message
  <2>2. QED
    BY <1>3, <1>6, <1>o, <2>1, Loses DEF Settled
<1>7. CASE Produce \/ Deliver
  BY <1>7, <1>k, Zenon DEF Produce, Deliver, reader, message, history
<1>8. CASE Begin
  <2>1. UNCHANGED <<committed, thread, source, offset, settled>>
    BY <1>8, <1>o, BeginsAt
  <2>2. PICK t \in Inputs :
          /\ \A u \in Inputs \ {t} : position'[u] = position[u]
          /\ passed \subseteq passed'
          /\ \A n \in Nat : committed[t] <= n /\ n < position'[t] => <<t, n>> \in passed'
    BY <1>8, <1>o, BeginsAt, Zenon
  <2>3. \A u \in Inputs, n \in Nat : Settled(u, n) => Settled(u, n)'
    BY <2>1, <2>2 DEF Settled
  <2>4. \A n \in Nat : n < position'[t] => n < committed[t] \/ Settled(t, n)'
    BY <1>o, <2>2 DEF OffsetTypes, OffsetValues, NoOffset, Settled
  <2>5. QED
    BY <2>1, <2>2, <2>3, <2>4 DEF Answered
<1>9. CASE AutoCommit
  <2>1. UNCHANGED <<position, thread, source, offset, passed, settled>>
    BY <1>9, Zenon DEF AutoCommit, reader, message, history
  <2>2. \A t \in Inputs : committed'[t] \in {committed[t], position[t]}
    BY <1>9, <1>o DEF AutoCommit, OffsetTypes
  <2>3. QED
    BY <2>1, <2>2 DEF Answered, Settled
<1>10. CASE Consume
  <2>1. /\ UNCHANGED <<committed, passed, settled>>
        /\ thread \notin Holding /\ thread' \in Holding
    BY <1>10, <1>o, ConsumesAt DEF Holding, Counted, logVars, history
  <2>2. QED
    BY <1>10, <1>o, <2>1, ConsumesAt DEF Answered, Settled, OffsetTypes, OffsetValues, NoOffset
<1>11. CASE Send
  <2>1. thread \in Holding /\ thread' \in Holding
    BY <1>11 DEF Send, Holding, Counted
  <2>2. UNCHANGED <<committed, position, source, offset, passed, settled>>
    BY <1>11, Zenon DEF Send, logVars, reader, message
  <2>3. QED
    BY <1>k, <2>1, <2>2
<1>12. QED
  BY <1>1, <1>2, <1>4, <1>5, <1>6, <1>7, <1>8, <1>9, <1>10, <1>11, Zenon DEF LogStep, Kafka

LEMMA SkippedNothing == Offsets /\ Answered => NothingSkipped
<1> SUFFICES ASSUME Offsets, Answered,
                    NEW t \in Inputs, NEW n \in 0..(committed[t] - 1)
             PROVE  \/ <<t, n>> \in settled \cup passed
                    \/ thread \in Holding /\ <<t, n>> \in InHand
  BY DEF NothingSkipped
<1>1. n \in Nat /\ n < committed[t]
  BY DEF Offsets, OffsetTypes, OffsetValues, NoOffset
<1>2. QED
  BY <1>1, HandIs DEF Answered, Settled

----------------------------------------------------------------------------
(* No record is converted twice *)

\* Where the group goes on if the consumer loses the topic and what is stored is
\* committed.
Resume(t) == IF t \in stored THEN position[t] ELSE committed[t]

\* While the group has not been set back, what is converted or in hand lies before that,
\* and the record in hand is new until it is sent.
Converted ==
  ~torn =>
    /\ \A t \in Inputs, n \in Nat : <<t, n>> \in converted => n < Resume(t)
    /\ thread \in Holding => offset < Resume(source)
    /\ thread \in Fresh => ~(InHand \subseteq converted)

LEMMA FreshHeld == thread \in Fresh => thread \in Holding
BY DEF Fresh, Holding, Counted

\* A consumer that gives up topics goes on where it would have, or the group is torn.
LEMMA GivesUpKeeps ==
  ASSUME OffsetTypes, InOrder, Flags, GivesUp, ~torn'
  PROVE  ~torn /\ \A t \in Inputs : Resume(t)' = Resume(t)
<1>1. PICK topics \in SUBSET Inputs, saved \in SUBSET stored :
        saved \subseteq topics /\ GiveUp(topics, saved)
  BY Zenon DEF GivesUp
<1>2. torn' = (torn \/ \E t \in (topics \cap stored) \ saved : committed[t] # position[t])
  BY <1>1, Zenon DEF GiveUp
<1>3. ~torn /\ \A t \in (topics \cap stored) \ saved : committed[t] = position[t]
  BY <1>2, Zenon DEF Flags
<1>4. QED
  BY <1>1, <1>3, GivenUp DEF Resume, OffsetTypes

LEMMA ConvertedStep == Flags /\ Offsets /\ Converted /\ LogStep => Converted'
<1> SUFFICES ASSUME Flags, Offsets, Converted, LogStep, ~torn'
             PROVE  /\ \A t \in Inputs, n \in Nat : <<t, n>> \in converted' => n < Resume(t)'
                    /\ thread' \in Holding => offset' < Resume(source)'
                    /\ thread' \in Fresh => ~(InHand' \subseteq converted')
  BY DEF Converted
<1> DEFINE Goal == /\ \A t \in Inputs, n \in Nat : <<t, n>> \in converted' => n < Resume(t)'
                   /\ thread' \in Holding => offset' < Resume(source)'
                   /\ thread' \in Fresh => ~(InHand' \subseteq converted')
<1> SUFFICES Goal
  OBVIOUS
<1>o. OffsetTypes /\ InOrder /\ HandInLog
  BY DEF Offsets
\* The record is dropped, if any is in hand, and the group goes on where it was.
<1>d. ASSUME ~torn, UNCHANGED converted, thread' \notin Holding,
             \A t \in Inputs : Resume(t)' = Resume(t)
      PROVE  Goal
  BY <1>d, FreshHeld DEF Converted, Fresh, Holding, Counted
\* The record stays in hand.
<1>k. ASSUME ~torn, UNCHANGED <<converted, source, offset>>,
             thread \in Holding <=> thread' \in Holding, thread' \in Fresh => thread \in Fresh,
             \A t \in Inputs : Resume(t)' = Resume(t)
      PROVE  Goal
  <2>1. InHand' = InHand
    BY <1>k DEF InHand
  <2>2. thread \in Holding => Resume(source)' = Resume(source)
    BY <1>k, <1>o DEF HandInLog, Resume
  <2>3. QED
    BY <1>k, <2>1, <2>2 DEF Converted
<1> HIDE DEF Goal
<1>1. CASE Quiet
  <2>1. ~torn /\ UNCHANGED <<converted, source, offset, committed, position, stored>> /\ HandKept
    BY <1>1, Zenon DEF Quiet, logVars, reader, history
  <2>2. \A t \in Inputs : Resume(t)' = Resume(t)
    BY <2>1 DEF Resume
  <2>3. QED
    BY <1>k, <2>1, <2>2, Zenon DEF HandKept
<1>2. CASE Answer
  <2>1. ~torn /\ UNCHANGED <<converted, committed, position, stored>> /\ thread' = "top"
    BY <1>2, Zenon DEF Answer, Done, logVars, reader
  <2>2. thread' \notin Holding /\ \A t \in Inputs : Resume(t)' = Resume(t)
    BY <2>1 DEF Resume, Holding, Counted
  <2>3. QED
    BY <1>d, <2>1, <2>2, Zenon
<1>3. CASE Closed \/ Gone
  <2>1. UNCHANGED converted
    BY <1>3, Zenon DEF Closed, Gone
  <2>2. thread' \notin Holding
    BY <1>3 DEF Closed, Gone, ProcessGone, Holding, Counted
  <2>3. GivesUp
    BY <1>3, <1>o, Loses, Zenon
  <2>4. ~torn /\ \A t \in Inputs : Resume(t)' = Resume(t)
    BY <1>o, <2>3, GivesUpKeeps, Zenon
  <2>5. QED
    BY <1>d, <2>1, <2>2, <2>4, Zenon
<1>4. CASE Rebalance
  <2>1. UNCHANGED <<converted, thread, source, offset>>
    BY <1>4, Zenon DEF Rebalance, message
  <2>2. GivesUp
    BY <1>4, <1>o, Loses, Zenon
  <2>3. ~torn /\ \A t \in Inputs : Resume(t)' = Resume(t)
    BY <1>o, <2>2, GivesUpKeeps, Zenon
  <2>4. QED
    BY <1>k, <2>1, <2>3, Zenon
<1>5. CASE Produce \/ Deliver
  <2>1. UNCHANGED <<committed, thread, reader, message, history>>
    BY <1>5, Zenon DEF Produce, Deliver
  <2>2. UNCHANGED <<converted, torn, source, offset, position, stored>>
    BY <2>1, Zenon DEF reader, message, history
  <2>3. ~torn
    BY <2>2, Zenon
  <2>4. \A t \in Inputs : Resume(t)' = Resume(t)
    BY <2>1, <2>2 DEF Resume
  <2>5. QED
    BY <1>k, <2>1, <2>2, <2>3, <2>4, Zenon
<1>6. CASE Begin
  <2>1. ~torn /\ UNCHANGED <<converted, thread, source, offset, committed, stored>>
    BY <1>6, Zenon DEF Begin, message, history
  <2>2. PICK t \in Inputs : /\ position[t] = NoOffset
                            /\ \A u \in Inputs \ {t} : position'[u] = position[u]
    BY <1>6, <1>o, BeginsAt, Zenon
  <2>3. t \notin stored
    BY <1>o, <2>2 DEF InOrder
  <2>4. \A u \in Inputs : Resume(u)' = Resume(u)
    BY <2>1, <2>2, <2>3 DEF Resume
  <2>5. QED
    BY <1>k, <2>1, <2>4, Zenon
<1>7. CASE AutoCommit
  <2>1. ~torn /\ UNCHANGED <<converted, thread, source, offset, position, stored>>
    BY <1>7, Zenon DEF AutoCommit, reader, message, history
  <2>2. PICK t \in stored : committed' = [committed EXCEPT ![t] = position[t]]
    BY <1>7, Zenon DEF AutoCommit
  <2>3. \A u \in Inputs : Resume(u)' = Resume(u)
    BY <1>o, <2>1, <2>2 DEF Resume, OffsetTypes
  <2>4. QED
    BY <1>k, <2>1, <2>3, Zenon
<1>8. CASE Consume
  <2>0. UNCHANGED <<logVars, outbox, history>>
    BY <1>8, <1>o, ConsumesAt
  <2>1. UNCHANGED <<committed, converted, torn>>
    BY <2>0, Zenon DEF logVars, history
  <2>t. ~torn
    BY <2>1, Zenon
  <2>2. \A t \in Inputs : t # source' => Resume(t)' = Resume(t)
    BY <1>8, <1>o, <2>1, ConsumesAt DEF Resume
  <2>3. Resume(source)' = offset' + 1 /\ offset' \in Nat
    BY <1>8, <1>o, ConsumesAt DEF Resume
  <2>4. \A n \in Nat : n < Resume(source') => n < offset'
    BY <1>8, <1>o, ConsumesAt DEF Resume, InOrder, OffsetTypes, OffsetValues, NoOffset
  <2>5. source' \in Inputs /\ InHand' = {<<source', offset'>>}
    BY <1>8, <1>o, ConsumesAt DEF InHand
  <2>6. \A n \in Nat : <<source', n>> \in converted => n < offset'
    BY <2>t, <2>4, <2>5 DEF Converted
  <2>7. ~(InHand' \subseteq converted')
    BY <2>1, <2>3, <2>5, <2>6
  <2>8. \A t \in Inputs, n \in Nat : <<t, n>> \in converted' => n < Resume(t)'
    BY <2>t, <2>1, <2>2, <2>3, <2>6 DEF Converted
  <2>9. offset' < Resume(source)'
    BY <1>8, <1>o, ConsumesAt DEF Resume
  <2>10. QED
    BY <2>7, <2>8, <2>9 DEF Goal
<1>9. CASE Send
  <2>1. /\ ~torn /\ UNCHANGED <<committed, position, stored, source, offset>>
        /\ thread = "send" /\ thread' = "converted" /\ converted' = converted \cup InHand
    BY <1>9, Zenon DEF Send, logVars, reader, message
  <2>2. thread \in Holding /\ thread' \notin Fresh
    BY <2>1 DEF Holding, Counted, Fresh
  <2>3. InHand = {<<source, offset>>} /\ offset < Resume(source)
    BY <2>1, <2>2, HandIs DEF Converted
  <2>4. Resume(source)' = Resume(source) /\ \A t \in Inputs : Resume(t)' = Resume(t)
    BY <2>1 DEF Resume
  <2>5. \A t \in Inputs, n \in Nat : <<t, n>> \in converted' => n < Resume(t)'
    BY <2>1, <2>3, <2>4 DEF Converted
  <2>6. QED
    BY <2>1, <2>2, <2>3, <2>4, <2>5 DEF Goal
<1>10. QED
  BY <1>1, <1>2, <1>3, <1>4, <1>5, <1>6, <1>7, <1>8, <1>9, Zenon DEF LogStep, Kafka

\* What lies before a committed offset was answered, in hand at a crash, or passed over by
\* a reset to `latest` before the group's first commit; and nothing is sent again unless
\* the group was set back: a deactivation joins the thread first.
THEOREM RecordsHandledOnce == Spec => []HandledOnce
<1>1. Init => Answered /\ Converted
  <2> SUFFICES ASSUME Init PROVE Answered /\ Converted
    OBVIOUS
  <2>1. Answered
    BY DEF Init, Answered, NoOffset
  <2>2. converted = {} /\ thread = "none"
    BY Zenon DEF Init
  <2>3. Converted
    BY <2>2 DEF Converted, Fresh, Holding, Counted
  <2>4. QED
    BY <2>1, <2>3
<1>2. Base => Places /\ Flags
  BY DEF Base
<1>3. Offsets /\ Answered /\ Converted => HandledOnce
  <2> SUFFICES ASSUME Offsets, Answered, Converted PROVE HandledOnce
    OBVIOUS
  <2>1. ConvertedOnce
    BY DEF ConvertedOnce, Converted, Fresh
  <2>2. QED
    BY <2>1, SkippedNothing, Zenon DEF HandledOnce
<1>4. QED
  BY <1>1, <1>2, <1>3, Classified, AnsweredStep, ConvertedStep, BaseAlways, OffsetsAlways,
     PTL DEF Spec

----------------------------------------------------------------------------
(* No record of this node's own is converted *)

\* A new record of its own is none of those that were ever consumed.
Foreign ==
  /\ \A t \in Inputs, n \in Nat : <<t, n>> \in converted => n < length[t]
  /\ thread \in {"convert", "send"} => ~(InHand \subseteq own)
  /\ NoEcho

LEMMA ForeignStep == Offsets /\ Histories /\ Foreign /\ LogStep => Foreign'
<1> SUFFICES ASSUME Offsets, Histories, Foreign, LogStep PROVE Foreign'
  OBVIOUS
<1> USE DEF Foreign, NoEcho
<1>o. OffsetTypes /\ InOrder /\ HandInLog
  BY DEF Offsets
<1>1. CASE Quiet
  <2>1. UNCHANGED <<length, own, converted, source, offset>> /\ HandKept
    BY <1>1, Zenon DEF Quiet, logVars, history
  <2>2. QED
    BY <2>1 DEF HandKept, InHand
<1>2. CASE Answer \/ Closed \/ Gone
  <2>1. thread' \notin {"convert", "send"}
    BY <1>2 DEF Answer, Done, Closed, Gone, ProcessGone, Holding, Counted
  <2>2. UNCHANGED <<length, own, converted>>
    BY <1>2, Zenon DEF Answer, Closed, Gone, logVars
  <2>3. QED
    BY <2>1, <2>2
<1>3. CASE Begin \/ AutoCommit \/ Rebalance
  <2>1. UNCHANGED <<length, own, converted, thread, source, offset>>
    BY <1>3, Zenon DEF Begin, AutoCommit, Rebalance, message, history
  <2>2. QED
    BY <2>1 DEF InHand
<1>4. CASE Produce
  <2>1. length' \in [Inputs -> Nat] /\ \A t \in Inputs : length'[t] >= length[t]
    BY <1>4, <1>o DEF Produce, OffsetTypes
  <2>2. UNCHANGED <<own, converted, thread, source, offset>>
    BY <1>4, Zenon DEF Produce, message, history
  <2>3. QED
    BY <1>o, <2>1, <2>2 DEF InHand, OffsetTypes
<1>5. CASE Deliver
  <2>1. PICK t \in Inputs : /\ own' = own \cup {<<t, length[t]>>}
                            /\ length' = [length EXCEPT ![t] = @ + 1]
    BY <1>5 DEF Deliver
  <2>2. UNCHANGED <<converted, thread, source, offset>>
    BY <1>5, Zenon DEF Deliver, message, history
  <2>3. \A u \in Inputs, n \in Nat : <<u, n>> \in converted => n < length'[u]
    BY <1>o, <2>1, <2>2 DEF OffsetTypes
  <2>4. <<t, length[t]>> \notin converted
    BY <1>o DEF OffsetTypes
  <2>5. ASSUME thread \in {"convert", "send"} PROVE ~(InHand \subseteq own')
    <3>1. thread \in Holding
      BY <2>5 DEF Holding, Counted
    <3>2. <<source, offset>> # <<t, length[t]>>
      BY <1>o, <3>1 DEF HandInLog, OffsetTypes
    <3>3. QED
      BY <2>1, <2>5, <3>2 DEF InHand
  <2>6. InHand' = InHand
    BY <2>2 DEF InHand
  <2>7. NoEcho'
    BY <2>1, <2>2, <2>4
  <2>8. QED
    BY <2>2, <2>3, <2>5, <2>6, <2>7
<1>6. CASE Consume
  <2>1. UNCHANGED <<length, own, converted>> /\ thread' = "entry"
    BY <1>6, Zenon DEF Consume, logVars, history
  <2>2. QED
    BY <2>1
<1>7. CASE Send
  <2>1. /\ UNCHANGED <<length, own>>
        /\ thread = "send" /\ thread' = "converted" /\ converted' = converted \cup InHand
    BY <1>7, Zenon DEF Send, logVars
  <2>2. /\ InHand = {<<source, offset>>} /\ source \in Inputs /\ offset < length[source]
    BY <1>o, <2>1, HandIs DEF HandInLog, Holding, Counted
  <2>3. \A t \in Inputs, n \in Nat : <<t, n>> \in converted' => n < length'[t]
    BY <2>1, <2>2
  <2>4. NoEcho'
    BY <2>1, <2>2
  <2>5. QED
    BY <2>1, <2>3, <2>4
<1>8. QED
  BY <1>1, <1>2, <1>3, <1>4, <1>5, <1>6, <1>7, Zenon DEF LogStep, Kafka

\* Whatever the routing, no record that the node has sent is converted, so that none
\* goes round for ever.
THEOREM OwnOutputNotConverted == Spec => []NoEcho
<1>1. Init => Foreign
  BY DEF Init, Foreign, NoEcho
<1>2. Base => Places
  BY DEF Base
<1>3. Foreign => NoEcho
  BY DEF Foreign
<1>4. QED
  BY <1>1, <1>2, <1>3, Classified, ForeignStep, BaseAlways, OffsetsAlways, HistoriesAlways,
     PTL DEF Spec

----------------------------------------------------------------------------
(* Counters *)

\* The record in hand comes from t, has been counted and has not been answered.
Pending(t) == IF t = source /\ thread \in Counted THEN 1 ELSE 0

Account(t) ==
  totals[t]["received"] = totals[t]["converted"] + totals[t]["failed"] + Pending(t)

LEMMA AccountedIs == Accounted <=> \A t \in Inputs : Account(t)
BY DEF Accounted, Account, Pending

LEMMA ZeroAccounted ==
  ASSUME totals' = Zeros, thread' \notin Counted PROVE \A t \in Inputs : Account(t)'
BY DEF Account, Pending, Zeros, Zero, Counters

\* What neither counts nor moves a record between accounts keeps them.
LEMMA AccountsKept ==
  ASSUME Accounted, UNCHANGED totals, \A t \in Inputs : Pending(t)' = Pending(t)
  PROVE  \A t \in Inputs : Account(t)'
BY AccountedIs DEF Account

\* One more received as the record enters its account, or one more answered as it leaves.
LEMMA AccountsMoved ==
  ASSUME Accounted, totals \in [Inputs -> [Counters -> Nat]], source \in Inputs,
         NEW counter \in Counters, Increment(source, counter),
         IF counter = "received" THEN thread \notin Counted /\ thread' \in Counted
                                      /\ source' = source
         ELSE thread \in Counted /\ thread' \notin Counted
  PROVE  \A t \in Inputs : Account(t)'
<1> SUFFICES ASSUME NEW t \in Inputs PROVE Account(t)'
  OBVIOUS
<1>1. \A c \in Counters :
        totals'[t][c] = totals[t][c] + (IF t = source /\ c = counter THEN 1 ELSE 0)
  BY Incremented
<1>2. \A c \in Counters : totals[t][c] \in Nat
  OBVIOUS
<1>3. Account(t)
  BY AccountedIs
<1>4. QED
  BY <1>1, <1>2, <1>3 DEF Account, Pending, Counters

LEMMA AccountedStep == Places /\ CounterTypes /\ Accounted /\ [Next]_vars => Accounted'
<1> SUFFICES ASSUME Places, CounterTypes, Accounted, [Next]_vars
             PROVE  \A t \in Inputs : Account(t)'
  BY DEF Accounted, Account, Pending
<1>u. ASSUME UNCHANGED <<totals, thread, source>> PROVE \A t \in Inputs : Account(t)'
  BY <1>u, AccountsKept DEF Pending
<1>n. ASSUME UNCHANGED totals, thread \notin Counted, thread' \notin Counted
      PROVE  \A t \in Inputs : Account(t)'
  BY <1>n, AccountsKept DEF Pending
<1>c. ASSUME UNCHANGED <<totals, source>>, thread \in Counted, thread' \in Counted
      PROVE  \A t \in Inputs : Account(t)'
  BY <1>c, AccountsKept DEF Pending
<1>1. CASE UNCHANGED vars
  BY <1>1, <1>u, Zenon DEF vars, message, metrics
<1>2. CASE Kafka \/ OnParametersSet \/ PublishMetrics \/ ReadCounter
  BY <1>2, <1>u, Zenon
     DEF Kafka, Produce, Deliver, Begin, AutoCommit, Rebalance, OnParametersSet, PublishMetrics, ReadCounter, message,
         metrics
<1>3. CASE Lifecycle
  <2>1. CASE OnConfigure \/ OnActivateThrows \/ OnDeactivate \/ OnShutdown
    BY <1>u, <2>1, Zenon
       DEF OnConfigure, OnActivateThrows, OnDeactivate, OnShutdown, message, metrics
  <2>2. CASE OnActivate
    <3>1. thread = "none" /\ thread' = "top" /\ UNCHANGED totals
      BY <2>2 DEF OnActivate, Places, States, metrics
    <3>2. QED
      BY <1>n, <3>1 DEF Counted
  <2>3. CASE OnActivateFails
    BY <1>1, <2>3, Zenon DEF OnActivateFails
  <2>4. CASE OnCleanup
    <3>1. thread' = "none" /\ totals' = Zeros
      BY <2>4 DEF OnCleanup, Places, States
    <3>2. QED
      BY <3>1, ZeroAccounted DEF Counted
  <2>5. QED
    BY <1>3, <2>1, <2>2, <2>3, <2>4, Zenon DEF Lifecycle
<1>4. CASE Joined
  <2>1. thread \in {"none", "exited"} /\ thread' = "none" /\ UNCHANGED totals
    BY <1>4, Zenon DEF Joined, Deactivated, ShutDown, metrics
  <2>2. QED
    BY <1>n, <2>1 DEF Counted
<1>5. CASE ConsumerThread
  <2>1. CASE CheckRunning \/ NothingConsumed \/ Consume \/ DropEmpty \/ FindEntry
    <3>1. thread \in {"top", "consume", "entry"} /\ UNCHANGED totals
          /\ thread' \in {"top", "consume", "exited", "entry", "count"}
      BY <2>1 DEF CheckRunning, NothingConsumed, Consume, DropEmpty, FindEntry, Done, metrics
    <3>2. QED
      BY <1>n, <3>1 DEF Counted
  <2>2. CASE FindType \/ Convert \/ Send \/ SendFails
    <3>1. thread \in {"type", "convert", "send"} /\ UNCHANGED <<totals, source>>
          /\ thread' \in {"convert", "send", "converted", "failed"}
      BY <2>2 DEF FindType, Convert, Send, SendFails, message, metrics
    <3>2. QED
      BY <1>c, <3>1 DEF Counted
  <2>3. CASE CountReceived
    <3>1. thread = "count" /\ thread' = "type" /\ UNCHANGED source
          /\ Increment(source, "received")
      BY <2>3 DEF CountReceived, message
    <3>2. source \in Inputs
      BY <3>1, HandPlaced DEF Holding
    <3>3. QED
      BY <3>1, <3>2, AccountsMoved DEF Counted, Counters, CounterTypes
  <2>4. CASE CountConverted \/ CountFailed
    <3>1. thread \in {"converted", "failed"} /\ thread' = "top"
          /\ (Increment(source, "converted") \/ Increment(source, "failed"))
      BY <2>4 DEF CountConverted, CountFailed, Done
    <3>2. source \in Inputs
      BY <3>1, HandPlaced DEF Holding, Counted
    <3>3. QED
      BY <3>1, <3>2, AccountsMoved DEF Counted, Counters, CounterTypes
  <2>5. CASE ConvertThrows
    BY <2>5, ZeroAccounted DEF ConvertThrows, ProcessGone, Counted
  <2>6. QED
    BY <1>5, <2>1, <2>2, <2>3, <2>4, <2>5, Zenon DEF ConsumerThread
<1>6. CASE Killed \/ Launch
  BY <1>6, ZeroAccounted DEF Killed, Launch, ProcessGone, Counted
<1>7. QED
  BY <1>1, <1>2, <1>3, <1>4, <1>5, <1>6, Zenon DEF Next

LEMMA NeverAheadStep == Places /\ CounterTypes /\ NeverAhead /\ [Next]_vars => NeverAhead'
<1> SUFFICES ASSUME Places, CounterTypes, NeverAhead, [Next]_vars PROVE NeverAhead'
  OBVIOUS
<1> USE DEF NeverAhead
<1>u. ASSUME UNCHANGED <<metrics, reportVars>> PROVE NeverAhead'
  BY <1>u DEF metrics, reportVars
<1>z. ASSUME totals' = Zeros, reported' = Zeros PROVE NeverAhead'
  BY <1>z, ZerosTyped DEF Zeros, Zero
<1>i. ASSUME NEW c \in Counters, thread \in Holding, Increment(source, c), UNCHANGED reportVars
      PROVE  NeverAhead'
  <2>1. source \in Inputs /\ totals \in [Inputs -> [Counters -> Nat]]
    BY <1>i, HandPlaced DEF CounterTypes
  <2>2. \A t \in Inputs, d \in Counters :
          totals'[t][d] \in Nat /\ totals[t][d] \in Nat /\ totals[t][d] <= totals'[t][d]
    BY <1>i, <2>1, Incremented
  <2>3. \A t \in Inputs, d \in Counters : reported[t][d] \in Nat
    BY DEF CounterTypes
  <2>4. UNCHANGED reported
    BY <1>i DEF reportVars
  <2>5. QED
    BY <2>2, <2>3, <2>4
<1>1. CASE UNCHANGED vars
  BY <1>1, <1>u, Zenon DEF vars
<1>2. CASE Kafka \/ OnParametersSet
  BY <1>2, <1>u, Zenon DEF Kafka, Produce, Deliver, Begin, AutoCommit, Rebalance, OnParametersSet
<1>3. CASE OnCleanup
  <2>1. totals' = Zeros /\ reported' = Zeros
    BY <1>3, Zenon DEF OnCleanup
  <2>2. QED
    BY <1>z, <2>1
<1>4. CASE Lifecycle \/ Joined
  BY <1>1, <1>3, <1>4, <1>u, Zenon
     DEF Lifecycle, Joined, OnConfigure, OnActivate, OnActivateFails, OnActivateThrows,
         OnDeactivate, OnShutdown, Deactivated, ShutDown
<1>5. CASE CountReceived \/ CountConverted \/ CountFailed
  BY <1>5, <1>i DEF CountReceived, CountConverted, CountFailed, Counters, Holding, Counted
<1>6. CASE ProcessGone
  BY <1>6, <1>z, Zenon DEF ProcessGone
<1>7. CASE FindEntry
  BY <1>7 DEF FindEntry, reportVars
<1>8. CASE ConsumerThread
  BY <1>5, <1>6, <1>7, <1>8, <1>u, Zenon
     DEF ConsumerThread, CheckRunning, NothingConsumed, Consume, DropEmpty, FindType, Convert,
         ConvertThrows, Send, SendFails
<1>9. CASE PublishMetrics
  BY <1>9 DEF PublishMetrics, metrics
<1>10. CASE ReadCounter
  <2>1. \A t \in Inputs, c \in Counters : totals[t][c] \in Nat /\ reported[t][c] \in Nat
    BY DEF CounterTypes
  <2>2. QED
    BY <1>10, <2>1, ReadIs
<1>11. CASE Killed \/ Launch
  BY <1>6, <1>11, Zenon DEF Killed, Launch
<1>12. QED
  BY <1>1, <1>2, <1>4, <1>8, <1>9, <1>10, <1>11, Zenon DEF Next

\* Every counted record is converted, failed or in hand, and no report is ahead of the
\* counters that it is later subtracted from.
THEOREM CountersCorrect == Spec => []CountersAddUp
<1>1. Init => Accounted /\ NeverAhead
  BY DEF Init, Accounted, Counted, NeverAhead, Zeros, Zero, Counters
<1>2. Base => Places /\ CounterTypes
  BY DEF Base
<1>3. Accounted /\ NeverAhead => CountersAddUp
  BY DEF CountersAddUp
<1>4. QED
  BY <1>1, <1>2, <1>3, AccountedStep, NeverAheadStep, BaseAlways, PTL DEF Spec

----------------------------------------------------------------------------
(* The offsets only grow, and a join is waited for a bounded number of steps *)

\* What is committed comes up to the position or stays.
LEMMA CommitsMove ==
  ASSUME Offsets, LogStep, NEW t \in Inputs
  PROVE  committed[t] <= committed'[t]
<1>o. OffsetTypes /\ InOrder
  BY DEF Offsets
<1>u. ASSUME UNCHANGED committed PROVE committed[t] <= committed'[t]
  BY <1>o, <1>u DEF OffsetTypes, OffsetValues, NoOffset
<1>1. CASE Quiet \/ Answer \/ Produce \/ Deliver \/ Begin \/ Consume \/ Send
  BY <1>1, <1>u, Zenon DEF Quiet, Answer, Produce, Deliver, Begin, Consume, Send, logVars
<1>2. CASE Closed \/ Gone \/ Rebalance
  <2>1. PICK topics \in SUBSET Inputs, saved \in SUBSET stored :
          saved \subseteq topics /\ GiveUp(topics, saved)
    BY <1>o, <1>2, Loses, Zenon DEF GivesUp
  <2>2. QED
    BY <1>o, <2>1, GivenUp
<1>3. CASE AutoCommit
  <2>1. PICK u \in stored : committed' = [committed EXCEPT ![u] = position[u]]
    BY <1>3, Zenon DEF AutoCommit
  <2>2. QED
    BY <1>o, <2>1 DEF OffsetTypes, InOrder, OffsetValues, NoOffset
<1>4. QED
  BY <1>1, <1>2, <1>3, Zenon DEF LogStep, Kafka

\* Whatever fails, crashes included, what the group has committed is never taken back,
\* and no consumer begins or goes on before it.
THEOREM CommitsOnlyGrow == Spec => CommitsGrow
<1>1. Base /\ Offsets /\ [Next]_vars => [NeverSetBack]_vars
  <2> SUFFICES ASSUME Base, Offsets, [Next]_vars PROVE NeverSetBack
    OBVIOUS
  <2>1. LogStep
    BY Classified DEF Base
  <2>2. Offsets'
    BY <2>1, OffsetsStep
  <2>3. \A t \in Inputs : committed[t] <= committed'[t]
    BY <2>1, CommitsMove
  <2>4. QED
    BY <2>2, <2>3 DEF NeverSetBack, Offsets, InOrder
<1>2. QED
  BY <1>1, BaseAlways, OffsetsAlways, PTL DEF Spec, CommitsGrow

\* A callback that joins the thread has told it to stop.
Told == waiting # "none" => ~running

LEMMA ToldStep == Told /\ [Next]_vars => Told'
<1> SUFFICES ASSUME Told, [Next]_vars PROVE Told'
  OBVIOUS
<1> USE DEF Told
<1>1. CASE UNCHANGED <<running, waiting>> \/ waiting' = "none" \/ running' = FALSE
  BY <1>1
<1>2. CASE Lifecycle
  <2>1. OnActivate => waiting' = "none"
    BY DEF OnActivate, GroupFree
  <2>2. QED
    BY <1>1, <1>2, <2>1, Zenon DEF Lifecycle, OnConfigure, OnActivateFails, OnActivateThrows,
       OnDeactivate, OnCleanup, OnShutdown, runtime, vars
<1>3. CASE Joined \/ Killed \/ Launch
  BY <1>1, <1>3, Zenon DEF Joined, Deactivated, ShutDown, Killed, Launch, ProcessGone
<1>4. CASE ConsumerThread
  BY <1>1, <1>4, Zenon DEF ConsumerThread, CheckRunning, NothingConsumed, Consume, DropEmpty,
     FindEntry, CountReceived, FindType, Convert, ConvertThrows, ProcessGone, Send, SendFails,
     CountConverted, CountFailed, runtime
<1>5. CASE Kafka \/ OnParametersSet \/ PublishMetrics \/ ReadCounter \/ UNCHANGED vars
  BY <1>1, <1>5, Zenon DEF Kafka, Produce, Deliver, Begin, AutoCommit, Rebalance, OnParametersSet,
     PublishMetrics, ReadCounter, runtime, vars
<1>6. QED
  BY <1>2, <1>3, <1>4, <1>5, Zenon DEF Next

LEMMA ToldAlways == Spec => []Told
<1>1. Init => Told
  BY DEF Init, Told
<1>2. QED
  BY <1>1, ToldStep, PTL DEF Spec

LEMMA ThreadStepsTyped ==
  Places => ThreadSteps \in 0..8 /\ (ThreadSteps = 0 <=> thread \in {"none", "exited"})
BY DEF Places, ThreadSteps, Holding, Counted

\* Once running_ is FALSE the thread only goes to its end.
LEMMA ThreadAdvances ==
  ASSUME Places, ~running, ConsumerThread
  PROVE  (waiting' = waiting /\ ThreadSteps' < ThreadSteps) \/ waiting' = "none"
<1>1. CASE ConvertThrows
  BY <1>1, Zenon DEF ConvertThrows, ProcessGone
<1>2. CASE CheckRunning \/ NothingConsumed \/ Consume
  BY <1>2 DEF CheckRunning, NothingConsumed, Consume, runtime, ThreadSteps
<1>3. CASE FindEntry \/ CountReceived \/ Convert \/ SendFails
  BY <1>3 DEF FindEntry, CountReceived, Convert, SendFails, runtime, ThreadSteps
<1>4. CASE FindType
  <2>1. thread = "type" /\ thread' \in {"convert", "failed"} /\ waiting' = waiting
    BY <1>4 DEF FindType, runtime
  <2>2. QED
    BY <2>1 DEF ThreadSteps
<1>5. CASE Send
  BY <1>5 DEF Send, runtime, ThreadSteps
<1>6. CASE DropEmpty \/ CountConverted \/ CountFailed
  BY <1>6 DEF DropEmpty, CountConverted, CountFailed, Done, runtime, ThreadSteps
<1>7. QED
  BY <1>1, <1>2, <1>3, <1>4, <1>5, <1>6, Zenon DEF ConsumerThread

\* Nothing but consume() puts a record into the thread's hands.
LEMMA TakesOne ==
  ASSUME Places, LogStep
  PROVE  source # NoTopic \/ source' = NoTopic \/ thread = "consume"
<1>1. CASE Quiet \/ Closed \/ Kafka
  BY <1>1, Zenon DEF Quiet, Closed, Kafka, Produce, Deliver, Begin, AutoCommit, Rebalance, message
<1>2. CASE Answer \/ Gone
  BY <1>2, Zenon DEF Answer, Gone, Done, ProcessGone, HandEmpty
<1>3. CASE Consume
  BY <1>3, Zenon DEF Consume
<1>4. CASE Send
  BY <1>4, Zenon DEF Send, message
<1>5. QED
  BY <1>1, <1>2, <1>3, <1>4, Zenon DEF LogStep

\* on_deactivate and on_shutdown wait for at most eight steps of the thread, in which at
\* most one more record is consumed; nothing but Kafka and the end of the process comes
\* between them.
THEOREM JoinsAdvance == Spec => JoinBounded
<1>1. Base /\ Offsets /\ Told /\ [Next]_vars => [JoinAdvances]_vars
  <2> SUFFICES ASSUME Base, Offsets, Told, Next, waiting # "none" PROVE JoinAdvances
    BY DEF JoinAdvances
  <2>0. Places /\ ~running /\ toRead = {}
    BY DEF Base, Places, Told
  <2>1. ThreadSteps \in 0..8 /\ (ThreadSteps = 0 <=> thread \in {"none", "exited"})
    BY <2>0, ThreadStepsTyped
  <2>2. \/ waiting' = "none"
        \/ waiting' = waiting /\ ThreadSteps' < ThreadSteps
        \/ Kafka
    <3>1. CASE ConsumerThread
      BY <2>0, <3>1, ThreadAdvances
    <3>2. CASE Joined \/ Killed \/ Launch
      BY <3>2, Zenon DEF Joined, Deactivated, ShutDown, Killed, Launch, ProcessGone
    <3>3. ~(Lifecycle \/ OnParametersSet \/ PublishMetrics)
      BY DEF Lifecycle, OnConfigure, OnActivate, OnActivateFails, OnActivateThrows,
         OnDeactivate, OnCleanup, OnShutdown, OnParametersSet, PublishMetrics, GroupFree
    <3>4. ~ReadCounter
      BY <2>0 DEF ReadCounter
    <3>5. QED
      BY <3>1, <3>2, <3>3, <3>4, Zenon DEF Next
  <2>3. source # NoTopic \/ source' = NoTopic \/ ThreadSteps = 8
    <3>1. thread = "consume" => ThreadSteps = 8
      BY DEF ThreadSteps
    <3>2. LogStep
      BY <2>0, Classified
    <3>3. QED
      BY <3>1, <3>2, TakesOne, <2>0
  <2>4. ThreadSteps <= 8
    BY <2>1
  <2>5. QED
    BY <2>1, <2>2, <2>3, <2>4, Zenon DEF JoinAdvances
<1>2. QED
  BY <1>1, BaseAlways, OffsetsAlways, ToldAlways, PTL DEF Spec, JoinBounded
=============================================================================
