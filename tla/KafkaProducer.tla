--------------------------- MODULE KafkaProducer ---------------------------
(***************************************************************************)
(* kafka_client::KafkaProducer, the sending library under kafka_sink,      *)
(* kafka_cdr_to_json and gis_health_node.                                  *)
(*                                                                         *)
(* Three kinds of threads meet in one object: the owner, which calls       *)
(* start() and stop(); the callers of send(); and the internal poll        *)
(* thread, which creates the librdkafka client when start() could not and  *)
(* hands it the records that send() had to buffer.  librdkafka itself is   *)
(* outside the repository: only the number of messages in its own queue,   *)
(* and its answers to produce(), are kept.                                 *)
(*                                                                         *)
(* A record is the number of the send() call that brought it, so that      *)
(* "older" and "smaller" mean the same.  A critical section of mutex_ is   *)
(* one action, except the drain loop of the poll thread, during which      *)
(* librdkafka goes on delivering: it is one action per record, and the     *)
(* other users of mutex_ wait while poll = "drain".                        *)
(***************************************************************************)
EXTENDS Integers, Sequences

CONSTANTS
  MaxQueueMessages,  \* config.max_queue_messages, the bound of pending_records_
  DropModes,         \* values of config.drop_when_full
  StrictModes,       \* values of config.startup_mode = STRICT
  ClientQueue,       \* capacity of librdkafka's queue (the code never sets it)
  CreateOutcomes,    \* what RdKafka::Producer::create may answer
  SendPhases,        \* phases of the owner in which send() is called
  SendLimit          \* bound of the model: number of calls of send()

OwnerPhases == {"idle", "starting", "spawning", "joining", "flushing"}

ASSUME ConfigAssumption ==
  /\ MaxQueueMessages \in Nat \ {0}
  /\ DropModes \subseteq BOOLEAN
  /\ StrictModes \subseteq BOOLEAN
  /\ ClientQueue \in Nat \ {0}
  /\ CreateOutcomes \subseteq BOOLEAN /\ CreateOutcomes # {}
  /\ SendPhases \subseteq OwnerPhases
  /\ SendLimit \in Nat

VARIABLES
  dropWhenFull,  \* config_.drop_when_full
  strict,        \* config_.startup_mode = STRICT
  running,       \* running_
  status,        \* status_
  producer,      \* producer_ holds a client
  pending,       \* pending_records_
  sentOk,        \* sent_ok_
  dropped,       \* dropped_queue_full_
  sendErrors,    \* send_errors_
  owner,         \* where the owner is in start() or stop()
  poll,          \* where the poll thread is in poll_loop()
  queued,        \* messages in librdkafka's queue
  calls,         \* history: number of send() calls so far
  unavailable,   \* history: calls answered PRODUCER_UNAVAILABLE
  discarded,     \* history: records cleared by stop()
  lastProduced   \* history: the record librdkafka accepted last

config == <<dropWhenFull, strict>>
counters == <<sentOk, dropped, sendErrors>>
history == <<calls, unavailable, discarded, lastProduced>>
vars == <<config, running, status, producer, pending, counters, owner, poll, queued, history>>

Statuses == {"STOPPED", "STARTING", "RUNNING", "DEGRADED", "FAILED"}
PollPhases == {"none", "top", "drain", "polling", "check", "wait", "exited"}

TypeOK ==
  /\ dropWhenFull \in BOOLEAN /\ strict \in BOOLEAN
  /\ running \in BOOLEAN
  /\ status \in Statuses
  /\ producer \in BOOLEAN
  /\ pending \in Seq(1..SendLimit) /\ Len(pending) <= MaxQueueMessages
  /\ sentOk \in Nat /\ dropped \in Nat /\ sendErrors \in Nat
  /\ owner \in OwnerPhases
  /\ poll \in PollPhases
  /\ queued \in 0..ClientQueue
  /\ calls \in 0..SendLimit
  /\ unavailable \in Nat /\ discarded \in Nat
  /\ lastProduced \in 0..SendLimit

\* The configuration is the constructor's argument and never changes.
Init ==
  /\ dropWhenFull \in DropModes /\ strict \in StrictModes
  /\ running = FALSE
  /\ status = "STOPPED"
  /\ producer = FALSE
  /\ pending = <<>>
  /\ sentOk = 0 /\ dropped = 0 /\ sendErrors = 0
  /\ owner = "idle"
  /\ poll = "none"
  /\ queued = 0
  /\ calls = 0 /\ unavailable = 0 /\ discarded = 0 /\ lastProduced = 0

----------------------------------------------------------------------------
(* Helpers *)

\* Mutant of MutexFree: send() does not wait for the drain loop.
MutexFreeNoDrainLock == owner # "flushing"

\* mutex_ can be taken: neither the drain loop nor the flush of stop() has it.
MutexFree == poll # "drain" /\ owner # "flushing"

\* One when the condition holds: the increment of a conditional counter.
Count(condition) == IF condition THEN 1 ELSE 0

\* create_producer_locked(): on success the client replaces producer_.
CreateProducerLocked(ok) ==
  /\ producer' = ok
  /\ status' = IF ok THEN "RUNNING" ELSE "DEGRADED"

\* try_produce_locked() on a live client: librdkafka copies the record, or has
\* no room for it, or refuses it for good (too large, unknown topic, ...).
TryProduceLocked(record, result) ==
  \/ /\ result = "SENT"
     /\ queued < ClientQueue
     /\ queued' = queued + 1
     /\ sentOk' = sentOk + 1
     /\ lastProduced' = record
     /\ UNCHANGED sendErrors
  \/ /\ result = "QUEUE_FULL"
     /\ queued = ClientQueue
     /\ UNCHANGED <<queued, sentOk, lastProduced, sendErrors>>
  \/ /\ result = "ERROR"
     /\ sendErrors' = sendErrors + 1
     /\ UNCHANGED <<queued, sentOk, lastProduced>>

Results == {"SENT", "QUEUE_FULL", "ERROR"}

----------------------------------------------------------------------------
(* The owner: start() *)

StartBegin ==
  /\ owner = "idle"
  /\ ~running
  /\ running' = TRUE
  /\ status' = "STARTING"
  /\ owner' = "starting"
  /\ UNCHANGED <<config, producer, pending, counters, poll, queued, history>>

\* Under mutex_: a client is created, or STRICT gives up, or TOLERANT goes on
\* without one and leaves the retries to the poll thread.
StartCreate ==
  /\ owner = "starting"
  /\ \E ok \in CreateOutcomes :
       IF ok \/ ~strict
       THEN /\ CreateProducerLocked(ok)
            /\ owner' = "spawning"
            /\ UNCHANGED running
       ELSE /\ running' = FALSE
            /\ status' = "FAILED"
            /\ owner' = "idle"
            /\ UNCHANGED producer
  /\ UNCHANGED <<config, pending, counters, poll, queued, history>>

StartSpawn ==
  /\ owner = "spawning"
  /\ poll' = "top"
  /\ owner' = "idle"
  /\ UNCHANGED <<config, running, status, producer, pending, counters, queued,
                 history>>

----------------------------------------------------------------------------
(* The owner: stop(), also the destructor *)

StopBegin ==
  /\ owner = "idle"
  /\ running
  /\ running' = FALSE
  /\ owner' = "joining"
  /\ UNCHANGED <<config, status, producer, pending, counters, poll, queued,
                 history>>

\* Mutant of StopJoin: the poll thread is not joined.
StopNoJoin ==
  /\ owner = "joining"
  /\ owner' = "flushing"
  /\ UNCHANGED <<config, running, status, producer, pending, counters, poll, queued, history>>

\* poll_thread_.join() returns, stop() takes mutex_ and starts the flush.
StopJoin ==
  /\ owner = "joining"
  /\ poll = "exited"
  /\ poll' = "none"
  /\ owner' = "flushing"
  /\ UNCHANGED <<config, running, status, producer, pending, counters, queued,
                 history>>

\* flush() has emptied librdkafka's queue or run into flush_timeout_ms; the
\* client goes, with what is left in its queue, and so does the retry buffer.
StopFinish ==
  /\ owner = "flushing"
  /\ producer' = FALSE
  /\ queued' = 0
  /\ pending' = <<>>
  /\ discarded' = discarded + Len(pending)
  /\ status' = "STOPPED"
  /\ owner' = "idle"
  /\ UNCHANGED <<config, running, counters, poll, calls, unavailable,
                 lastProduced>>

----------------------------------------------------------------------------
(* The callers: send() *)

\* A send() call takes mutex_; its record gets the next number.
Called ==
  /\ calls < SendLimit
  /\ owner \in SendPhases
  /\ MutexFree
  /\ calls' = calls + 1
  /\ UNCHANGED <<config, running, status, producer, owner, poll>>

SendStopped ==
  /\ Called
  /\ ~running
  /\ unavailable' = unavailable + 1
  /\ UNCHANGED <<pending, counters, queued, discarded, lastProduced>>

\* Straight to librdkafka; a full queue drops the record in drop mode.
SendDirect ==
  /\ Called
  /\ running
  /\ producer
  /\ \E result \in Results :
       /\ TryProduceLocked(calls + 1, result)
       /\ result = "QUEUE_FULL" => dropWhenFull
       /\ dropped' = dropped + Count(result = "QUEUE_FULL")
  /\ UNCHANGED <<pending, unavailable, discarded>>

\* Mutant of SendBuffered: the bound is off by one.
SendBufferedOffByOne ==
  /\ Called
  /\ running
  /\ producer => queued = ClientQueue /\ ~dropWhenFull
  /\ IF Len(pending) > MaxQueueMessages
     THEN dropped' = dropped + 1 /\ UNCHANGED pending
     ELSE pending' = Append(pending, calls + 1) /\ UNCHANGED dropped
  /\ UNCHANGED <<sentOk, sendErrors, queued, unavailable, discarded, lastProduced>>

\* Mutant of SendBuffered: a record dropped at the bound is not counted.
SendDropUncounted ==
  /\ Called
  /\ running
  /\ producer => queued = ClientQueue /\ ~dropWhenFull
  /\ IF Len(pending) >= MaxQueueMessages
     THEN UNCHANGED pending
     ELSE pending' = Append(pending, calls + 1)
  /\ UNCHANGED <<counters, queued, unavailable, discarded, lastProduced>>

\* Mutant of SendBuffered: the last place of the buffer is never used.
SendBufferedOneShort ==
  /\ Called
  /\ running
  /\ producer => queued = ClientQueue /\ ~dropWhenFull
  /\ IF Len(pending) >= MaxQueueMessages - 1
     THEN dropped' = dropped + 1 /\ UNCHANGED pending
     ELSE pending' = Append(pending, calls + 1) /\ UNCHANGED dropped
  /\ UNCHANGED <<sentOk, sendErrors, queued, unavailable, discarded, lastProduced>>

\* No client yet, or its queue is full in buffer mode: the record waits in
\* pending_records_ if there is room.
SendBuffered ==
  /\ Called
  /\ running
  /\ producer => queued = ClientQueue /\ ~dropWhenFull
  /\ IF Len(pending) >= MaxQueueMessages
     THEN dropped' = dropped + 1 /\ UNCHANGED pending
     ELSE pending' = Append(pending, calls + 1) /\ UNCHANGED dropped
  /\ UNCHANGED <<sentOk, sendErrors, queued, unavailable, discarded, lastProduced>>

Send == SendStopped \/ SendDirect \/ SendBuffered

----------------------------------------------------------------------------
(* The poll thread: poll_loop() *)

PollExit ==
  /\ poll = "top"
  /\ ~running
  /\ poll' = "exited"
  /\ UNCHANGED <<config, running, status, producer, pending, counters, owner, queued, history>>

\* The loop without a client: one attempt to create it, then the drain in the
\* same critical section, or the wait.
PollCreate(ok) ==
  /\ poll = "top"
  /\ running
  /\ ~producer
  /\ CreateProducerLocked(ok)
  /\ poll' = IF ok THEN "drain" ELSE "check"
  /\ UNCHANGED <<config, running, pending, counters, owner, queued, history>>

\* Mutant of PollDrain: the buffer is drained only into a new client.
PollDrainsNewClients ==
  /\ poll = "top"
  /\ running
  /\ producer
  /\ poll' = "polling"
  /\ UNCHANGED <<config, running, status, producer, pending, counters, owner, queued, history>>

PollDrain ==
  /\ poll = "top"
  /\ running
  /\ producer
  /\ poll' = "drain"
  /\ UNCHANGED <<config, running, status, producer, pending, counters, owner, queued, history>>

\* One turn of the drain loop: the oldest record leaves the buffer, whatever
\* librdkafka says, unless the client queue is full in buffer mode.
DrainRecord ==
  /\ poll = "drain"
  /\ pending # <<>>
  /\ \E result \in Results :
       /\ TryProduceLocked(Head(pending), result)
       /\ dropped' = dropped + Count(result = "QUEUE_FULL" /\ dropWhenFull)
       /\ IF result = "QUEUE_FULL" /\ ~dropWhenFull
          THEN poll' = "polling" /\ UNCHANGED pending
          ELSE pending' = Tail(pending) /\ UNCHANGED poll
  /\ UNCHANGED <<config, running, status, producer, owner, calls, unavailable,
                 discarded>>

DrainEnd ==
  /\ poll = "drain"
  /\ pending = <<>>
  /\ poll' = "polling"
  /\ UNCHANGED <<config, running, status, producer, pending, counters, owner, queued, history>>

\* producer_->poll() without mutex_: no delivery callback is registered, so it
\* changes nothing of this object, but it does use the client.
PollServe ==
  /\ poll = "polling"
  /\ poll' = "check"
  /\ UNCHANGED <<config, running, status, producer, pending, counters, owner, queued, history>>

\* wait_for() returns at once when its predicate already holds.
PollWait ==
  /\ poll = "check"
  /\ MutexFree
  /\ poll' = IF ~running \/ pending # <<>> THEN "top" ELSE "wait"
  /\ UNCHANGED <<config, running, status, producer, pending, counters, owner, queued, history>>

\* Mutant of PollWake: no timeout, and a predicate that forgets running_.
PollWakeOnlyForRecords ==
  /\ poll = "wait"
  /\ MutexFree
  /\ pending # <<>>
  /\ poll' = "top"
  /\ UNCHANGED <<config, running, status, producer, pending, counters, owner, queued, history>>

\* Notified, or timed out after poll_timeout_ms or reconnect_backoff_ms.
PollWake ==
  /\ poll = "wait"
  /\ MutexFree
  /\ poll' = "top"
  /\ UNCHANGED <<config, running, status, producer, pending, counters, owner, queued, history>>

PollThread ==
  \/ PollExit \/ (\E ok \in CreateOutcomes : PollCreate(ok))
  \/ PollDrain \/ DrainRecord \/ DrainEnd \/ PollServe \/ PollWait \/ PollWake

----------------------------------------------------------------------------
(* librdkafka *)

\* A message leaves librdkafka's queue: delivered to the broker, or given
\* up after message.timeout.ms.  The code hears of neither.
ClientDelivers ==
  /\ queued > 0
  /\ queued' = queued - 1
  /\ UNCHANGED <<config, running, status, producer, pending, counters, owner, poll, history>>

----------------------------------------------------------------------------

Owner == StartBegin \/ StartCreate \/ StartSpawn \/ StopBegin \/ StopJoin \/ StopFinish

Next == Owner \/ Send \/ PollThread \/ ClientDelivers

Spec == Init /\ [][Next]_vars

\* The threads keep running and every wait in them is bounded by a timeout:
\* the flush by flush_timeout_ms, the condition variable by the two periods,
\* a message in librdkafka by message.timeout.ms; and a thread that waits for
\* mutex_ gets it in the end.  Nobody has to call start(), stop() or send().
ThreadsRun ==
  /\ WF_vars(StartCreate) /\ WF_vars(StartSpawn)
  /\ WF_vars(StopJoin) /\ WF_vars(StopFinish)
  /\ WF_vars(PollThread)
  /\ WF_vars(ClientDelivers)

\* The client can be created in the end: an attempt repeated for ever succeeds.
ClientComesUp == SF_vars(PollCreate(TRUE))

FairSpec == Spec /\ ThreadsRun /\ ClientComesUp

----------------------------------------------------------------------------
(* Safety *)

\* Every call of send() is in exactly one account: accepted by librdkafka,
\* dropped, refused, answered PRODUCER_UNAVAILABLE, still buffered, or cleared
\* by stop().  (send, poll_loop and stop together lose or count none twice.)
Conservation ==
  calls = sentOk + dropped + sendErrors + unavailable + discarded + Len(pending)

\* The unlocked use of producer_ in poll_loop never meets a client that stop()
\* has already destroyed, and no drain runs without a client.
PollHasClient == poll \in {"drain", "polling"} => producer

\* health() tells the truth whenever no start() or stop() is under way: RUNNING
\* exactly with a client, DEGRADED exactly without one, and a poll thread
\* exists exactly while the object is running.
StatusTruthful ==
  owner = "idle" =>
    /\ running => status = IF producer THEN "RUNNING" ELSE "DEGRADED"
    /\ ~running => status \in {"STOPPED", "FAILED"} /\ ~producer
    /\ running <=> poll # "none"

\* What the poll thread uses and what health() reports is the client that there is.
ClientFollowsStatus == PollHasClient /\ StatusTruthful

\* In drop mode, when no send() comes while start() makes the client (none does
\* in this repository), a send() that goes straight to librdkafka never finds an
\* older record still in the buffer.
NoOvertaking ==
  dropWhenFull /\ "starting" \notin SendPhases =>
    (producer /\ MutexFree => pending = <<>>)

\* The same promise seen from librdkafka: records arrive in send() order.
FifoStep == lastProduced' # lastProduced => lastProduced' > lastProduced
InOrder == [][dropWhenFull /\ "starting" \notin SendPhases => FifoStep]_vars

\* In either mode the retry buffer itself is a FIFO of records of the past: what
\* waits in it is in send() order.
BufferSorted ==
  /\ \A i, j \in 1..Len(pending) : i < j => pending[i] < pending[j]
  /\ \A i \in 1..Len(pending) : pending[i] <= calls

\* All of this together: to those who call send() the object with its threads is a
\* bounded queue that loses no record unaccounted and keeps them in order, strictly so
\* in drop mode.
Outbox == INSTANCE RecordOutbox WITH
  Capacity <- MaxQueueMessages,
  fifo <- (dropWhenFull /\ "starting" \notin SendPhases),
  open <- running,
  offered <- calls,
  waiting <- pending,
  accepted <- lastProduced,
  settled <- sentOk + dropped + sendErrors + unavailable + discarded

KeepsOutbox == Outbox!Spec

----------------------------------------------------------------------------
(* Liveness *)

\* stop() returns: the poll thread sees running_ = false and can be joined.
StopReturns == owner = "joining" ~> owner = "idle"

\* The number of steps the poll thread still takes once running_ is FALSE: it
\* goes down the loop to its head, and from inside the drain it first empties the
\* buffer.  (No send() buffers a record then.)
StepsToExit ==
  CASE poll = "drain" -> 4 + Len(pending)
    [] poll = "polling" -> 3
    [] poll \in {"check", "wait"} -> 2
    [] poll = "top" -> 1
    [] OTHER -> 0

\* What StopReturns rests on: while stop() waits for the poll thread, every step of
\* that thread brings its end nearer, no step of anyone else takes it away again,
\* and the wait is no longer than one buffer.
StopAdvances ==
  /\ owner = "joining" /\ owner' = "joining" =>
       /\ StepsToExit' <= StepsToExit
       /\ <<poll, pending>>' # <<poll, pending>> => StepsToExit' < StepsToExit
  /\ owner = "joining" /\ owner' # "joining" => StepsToExit = 0
  /\ owner = "joining" => StepsToExit <= MaxQueueMessages + 4
StopBounded == [][StopAdvances]_vars

\* A buffered record does not wait for ever: it reaches librdkafka, is dropped, or is
\* cleared by stop().  With drop_when_full every drain empties the buffer; without it the
\* drain gives way to a full queue of librdkafka, which senders may fill again before each
\* attempt, so that the record leaves only if they pause for long enough.
SendersPause == <>[][UNCHANGED calls]_vars

BufferedLeave ==
  \A record \in 1..SendLimit :
    dropWhenFull \/ SendersPause =>
      ((\E i \in 1..Len(pending) : pending[i] = record)
         ~> ~(\E i \in 1..Len(pending) : pending[i] = record))
=============================================================================
