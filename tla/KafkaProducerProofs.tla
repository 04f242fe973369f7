------------------------ MODULE KafkaProducerProofs ------------------------
(***************************************************************************)
(* Proofs about KafkaProducer, for every queue bound, mode, creation       *)
(* outcome and number of send() calls.                                     *)
(*                                                                         *)
(* The safety properties are consequences of one inductive invariant, Inv: *)
(* what the phases of the two threads say about running_ and producer_     *)
(* (Phases), the account of the calls, and the order of the buffer.  With  *)
(* it the producer implements RecordOutbox, and what stop() waits for is   *)
(* bounded.                                                                *)
(***************************************************************************)
EXTENDS KafkaProducer, SequenceTheorems, TLAPS

\* What the phase of the owner says of the other variables.  A poll thread
\* exists between StartSpawn and StopJoin, and it needs a client to drain.
Phases ==
  /\ PollHasClient
  /\ StatusTruthful
  /\ owner = "starting" => running /\ ~producer /\ poll = "none"
  /\ owner = "spawning" =>
       /\ running /\ poll = "none"
       /\ status = IF producer THEN "RUNNING" ELSE "DEGRADED"
  /\ owner = "joining" => ~running /\ poll # "none"
  /\ owner = "flushing" => ~running /\ poll = "none"
  /\ poll = "exited" => ~running

\* The buffer in the setting of InOrder: empty while the producer is stopped or
\* makes its client, and whenever a client is there, except during the drain; and
\* newer than all that librdkafka has.
Fifo ==
  dropWhenFull /\ "starting" \notin SendPhases =>
    /\ producer /\ poll # "drain" => pending = <<>>
    /\ ~running /\ owner = "idle" => pending = <<>>
    /\ owner = "starting" => pending = <<>>
    /\ \A i \in 1..Len(pending) : pending[i] > lastProduced
    /\ lastProduced <= calls

Inv == TypeOK /\ Phases /\ Conservation /\ BufferSorted /\ Fifo

----------------------------------------------------------------------------
(* Lemmas about the buffer *)

\* Taking the oldest record off a sorted buffer leaves a sorted buffer of
\* records that are all newer than the one taken.
LEMMA TailSorted ==
  ASSUME NEW S \in SUBSET Nat, NEW s \in Seq(S), s # <<>>,
         \A i, j \in 1..Len(s) : i < j => s[i] < s[j]
  PROVE  /\ Head(s) = s[1] /\ Head(s) \in S
         /\ Tail(s) \in Seq(S)
         /\ Len(Tail(s)) = Len(s) - 1
         /\ \A i \in 1..Len(Tail(s)) : Tail(s)[i] = s[i + 1] /\ Tail(s)[i] > Head(s)
         /\ \A i, j \in 1..Len(Tail(s)) : i < j => Tail(s)[i] < Tail(s)[j]
<1>1. Len(s) \in Nat /\ Len(s) >= 1
  BY EmptySeq, LenProperties
<1>2. Head(s) = s[1] /\ Tail(s) \in Seq(S) /\ Len(Tail(s)) = Len(s) - 1
      /\ \A i \in 1..Len(Tail(s)) : Tail(s)[i] = s[i + 1]
  BY HeadTailProperties
<1>3. \A i \in 1..Len(s) : s[i] \in S
  BY ElementOfSeq
<1>4. \A i \in 1..Len(Tail(s)) : Tail(s)[i] > Head(s)
  <2> SUFFICES ASSUME NEW i \in 1..Len(Tail(s)) PROVE Tail(s)[i] > Head(s)
    OBVIOUS
  <2>1. 1 \in 1..Len(s) /\ i + 1 \in 1..Len(s) /\ 1 < i + 1
    BY <1>1, <1>2
  <2>2. s[1] < s[i + 1]
    BY <2>1
  <2> QED
    BY <1>2, <1>3, <2>1, <2>2
<1>5. \A i, j \in 1..Len(Tail(s)) : i < j => Tail(s)[i] < Tail(s)[j]
  <2> SUFFICES ASSUME NEW i \in 1..Len(Tail(s)), NEW j \in 1..Len(Tail(s)), i < j
               PROVE  Tail(s)[i] < Tail(s)[j]
    OBVIOUS
  <2>1. i + 1 \in 1..Len(s) /\ j + 1 \in 1..Len(s) /\ i + 1 < j + 1
    BY <1>1, <1>2
  <2>2. s[i + 1] < s[j + 1]
    BY <2>1
  <2> QED
    BY <1>2, <2>2
<1> QED
  BY <1>1, <1>2, <1>3, <1>4, <1>5

\* Buffering a record newer than the whole buffer keeps it sorted.
LEMMA AppendSorted ==
  ASSUME NEW S \in SUBSET Nat, NEW s \in Seq(S), NEW e \in S,
         \A i, j \in 1..Len(s) : i < j => s[i] < s[j],
         \A i \in 1..Len(s) : s[i] < e
  PROVE  /\ Append(s, e) \in Seq(S)
         /\ Len(Append(s, e)) = Len(s) + 1
         /\ \A i \in 1..Len(Append(s, e)) :
              Append(s, e)[i] = e \/ (i \in 1..Len(s) /\ Append(s, e)[i] = s[i])
         /\ \A i, j \in 1..Len(Append(s, e)) :
              i < j => Append(s, e)[i] < Append(s, e)[j]
<1>1. Append(s, e) \in Seq(S) /\ Len(Append(s, e)) = Len(s) + 1 /\ Len(s) \in Nat
      /\ \A i \in 1..Len(s) : Append(s, e)[i] = s[i]
      /\ Append(s, e)[Len(s) + 1] = e
  BY AppendProperties, LenProperties
<1>2. \A i \in 1..Len(Append(s, e)) : i \in 1..Len(s) \/ i = Len(s) + 1
  BY <1>1
<1>3. \A i, j \in 1..Len(Append(s, e)) :
        i < j => Append(s, e)[i] < Append(s, e)[j]
  <2> SUFFICES ASSUME NEW i \in 1..Len(Append(s, e)), NEW j \in 1..Len(Append(s, e)),
                      i < j
               PROVE  Append(s, e)[i] < Append(s, e)[j]
    OBVIOUS
  <2>1. i \in 1..Len(s)
    BY <1>1, <1>2
  <2>2. CASE j \in 1..Len(s)
    BY <1>1, <2>1, <2>2
  <2>3. CASE j = Len(s) + 1
    BY <1>1, <2>1, <2>3
  <2> QED
    BY <1>2, <2>2, <2>3
<1> QED
  BY <1>1, <1>2, <1>3

----------------------------------------------------------------------------
(* The inductive invariant *)

\* The invariant holds initially.
LEMMA InvInit == Init => Inv
<1> SUFFICES ASSUME Init PROVE Inv
  OBVIOUS
<1>1. pending = <<>> /\ Len(pending) = 0 /\ <<>> \in Seq(1..SendLimit)
  BY EmptySeq DEF Init
<1>2. TypeOK
  <2>1. running \in BOOLEAN /\ producer \in BOOLEAN
    BY DEF Init
  <2> QED
    BY <1>1, <2>1, ConfigAssumption
    DEF Init, TypeOK, Statuses, OwnerPhases, PollPhases
<1>3. Phases
  BY DEF Init, Phases, PollHasClient, StatusTruthful
<1>4. Conservation
  BY <1>1 DEF Init, Conservation
<1>5. BufferSorted /\ Fifo
  BY <1>1 DEF Init, BufferSorted, Fifo
<1> QED
  BY <1>2, <1>3, <1>4, <1>5 DEF Inv

\* A step that leaves the records and their accounts alone.
LEMMA QuietStep ==
  ASSUME Inv, TypeOK', Phases',
         UNCHANGED <<pending, config, counters, history>>,
         dropWhenFull /\ "starting" \notin SendPhases =>
           /\ (producer /\ poll # "drain")' => pending = <<>>
           /\ (~running /\ owner = "idle")' => pending = <<>>
           /\ owner' = "starting" => pending = <<>>
  PROVE  Inv'
<1>1. Conservation'
  BY DEF Inv, Conservation, config, counters, history
<1>2. BufferSorted'
  BY DEF Inv, BufferSorted, history
<1>3. Fifo'
  BY DEF Inv, Fifo, config, history
<1> QED
  BY <1>1, <1>2, <1>3 DEF Inv

\* start() and stop() keep the invariant.
LEMMA OwnerStep == ASSUME Inv, Owner PROVE Inv'
<1> USE ConfigAssumption
<1>1. CASE StartBegin
  <2>1. TypeOK'
    BY <1>1 DEF Inv, TypeOK, StartBegin, config, counters, history, Statuses, OwnerPhases
  <2>2. Phases'
    BY <1>1 DEF Inv, Phases, PollHasClient, StatusTruthful, StartBegin
  <2> QED
    BY <1>1, <2>1, <2>2, QuietStep DEF Inv, Fifo, StartBegin
<1>2. CASE StartCreate
  <2> PICK ok \in CreateOutcomes :
         IF ok \/ ~strict
         THEN CreateProducerLocked(ok) /\ owner' = "spawning" /\ UNCHANGED running
         ELSE /\ running' = FALSE /\ status' = "FAILED" /\ owner' = "idle"
              /\ UNCHANGED producer
    BY <1>2 DEF StartCreate
  <2>0. owner = "starting" /\ UNCHANGED <<config, pending, counters, poll, queued, history>>
    BY <1>2 DEF StartCreate
  <2>1. TypeOK'
    BY <2>0 DEF Inv, TypeOK, CreateProducerLocked, config, counters, history, Statuses, OwnerPhases
  <2>2. Phases'
    <3>0. ok \in BOOLEAN /\ running /\ ~producer /\ poll' = "none"
      BY <2>0 DEF Inv, Phases
    <3>1. CASE ok
      <4>1. producer' = TRUE /\ status' = "RUNNING" /\ owner' = "spawning"
            /\ running' = running
        BY <3>0, <3>1 DEF CreateProducerLocked
      <4> QED
        BY <3>0, <4>1 DEF Phases, PollHasClient, StatusTruthful
    <3>2. CASE ~ok /\ ~strict
      <4>1. producer' = FALSE /\ status' = "DEGRADED" /\ owner' = "spawning"
            /\ running' = running
        BY <3>0, <3>2 DEF CreateProducerLocked
      <4> QED
        BY <3>0, <4>1 DEF Phases, PollHasClient, StatusTruthful
    <3>3. CASE ~ok /\ strict
      <4>1. producer' = producer /\ status' = "FAILED" /\ owner' = "idle"
            /\ running' = FALSE
        BY <3>3
      <4> QED
        BY <3>0, <4>1 DEF Phases, PollHasClient, StatusTruthful
    <3> QED
      BY <3>0, <3>1, <3>2, <3>3
  <2>3. dropWhenFull /\ "starting" \notin SendPhases => pending = <<>>
    BY <2>0 DEF Inv, Fifo
  <2> QED
    BY <2>0, <2>1, <2>2, <2>3, QuietStep
<1>3. CASE StartSpawn
  <2>1. TypeOK'
    BY <1>3 DEF Inv, TypeOK, StartSpawn, config, counters, history, OwnerPhases, PollPhases
  <2>2. Phases'
    BY <1>3 DEF Inv, Phases, PollHasClient, StatusTruthful, StartSpawn
  <2> QED
    BY <1>3, <2>1, <2>2, QuietStep DEF Inv, Phases, Fifo, StartSpawn
<1>4. CASE StopBegin
  <2>1. TypeOK'
    BY <1>4 DEF Inv, TypeOK, StopBegin, config, counters, history, OwnerPhases
  <2>2. Phases'
    BY <1>4 DEF Inv, Phases, PollHasClient, StatusTruthful, StopBegin
  <2> QED
    BY <1>4, <2>1, <2>2, QuietStep DEF Inv, Fifo, StopBegin
<1>5. CASE StopJoin
  <2>1. TypeOK'
    BY <1>5 DEF Inv, TypeOK, StopJoin, config, counters, history, OwnerPhases, PollPhases
  <2>2. Phases'
    BY <1>5 DEF Inv, Phases, PollHasClient, StatusTruthful, StopJoin
  <2> QED
    BY <1>5, <2>1, <2>2, QuietStep DEF Inv, Fifo, StopJoin
<1>6. CASE StopFinish
  <2>0. pending' = <<>> /\ Len(pending') = 0 /\ <<>> \in Seq(1..SendLimit)
        /\ Len(pending) \in Nat
    BY <1>6, EmptySeq, LenProperties DEF StopFinish, Inv, TypeOK
  <2>1. TypeOK'
    <3>1. (running \in BOOLEAN /\ producer \in BOOLEAN)'
      BY <1>6 DEF Inv, TypeOK, StopFinish
    <3> QED
      BY <1>6, <2>0, <3>1 DEF Inv, TypeOK, StopFinish, config, counters, Statuses, OwnerPhases
  <2>2. Phases'
    BY <1>6 DEF Inv, Phases, PollHasClient, StatusTruthful, StopFinish
  <2>3. Conservation'
    BY <1>6, <2>0 DEF Inv, TypeOK, Conservation, StopFinish, counters
  <2>4. BufferSorted' /\ Fifo'
    BY <1>6, <2>0 DEF Inv, BufferSorted, Fifo, StopFinish, config
  <2> QED
    BY <2>1, <2>2, <2>3, <2>4 DEF Inv
<1> QED
  BY <1>1, <1>2, <1>3, <1>4, <1>5, <1>6 DEF Owner

\* What try_produce_locked() does: exactly one of its three outcomes, of which
\* QUEUE_FULL is left for the caller to count.
LEMMA TryProduceOutcome ==
  ASSUME TypeOK, NEW record \in 1..SendLimit, NEW result \in Results,
         TryProduceLocked(record, result)
  PROVE  /\ queued' \in 0..ClientQueue
         /\ \/ /\ result = "SENT" /\ lastProduced' = record
               /\ sentOk' = sentOk + 1 /\ sendErrors' = sendErrors
            \/ /\ result = "QUEUE_FULL" /\ lastProduced' = lastProduced
               /\ sentOk' = sentOk /\ sendErrors' = sendErrors
            \/ /\ result = "ERROR" /\ lastProduced' = lastProduced
               /\ sentOk' = sentOk /\ sendErrors' = sendErrors + 1
<1> USE ConfigAssumption DEF TypeOK, TryProduceLocked
<1>1. CASE result = "SENT"
  BY <1>1
<1>2. CASE result = "QUEUE_FULL"
  BY <1>2
<1>3. CASE result = "ERROR"
  BY <1>3
<1> QED
  BY <1>1, <1>2, <1>3 DEF Results

\* A record that moves from one account, or from the caller, to another.
OneMore(account, others) == account' = account + 1 /\ UNCHANGED others

\* send() keeps the invariant.
LEMMA SendStep == ASSUME Inv, Send PROVE Inv'
<1> USE ConfigAssumption
<1>0. /\ TypeOK /\ Phases /\ Conservation /\ BufferSorted /\ Fifo
      /\ Len(pending) \in Nat
      /\ \A i \in 1..Len(pending) : pending[i] \in 1..SendLimit
  BY LenProperties, ElementOfSeq DEF Inv, TypeOK
<1>1. Called => /\ calls' = calls + 1 /\ calls + 1 \in 1..SendLimit
                /\ owner \in SendPhases /\ poll # "drain"
                /\ UNCHANGED <<dropWhenFull, strict, running, status, producer, owner, poll>>
  BY <1>0 DEF Called, MutexFree, TypeOK, config
<1>2. Called => Phases'
  BY <1>0, <1>1 DEF Phases, PollHasClient, StatusTruthful
<1>3. CASE SendStopped
  <2>0. Called /\ unavailable' = unavailable + 1
        /\ UNCHANGED <<pending, sentOk, dropped, sendErrors, queued, discarded, lastProduced>>
    BY <1>3 DEF SendStopped, counters
  <2>1. TypeOK'
    BY <1>0, <1>1, <2>0 DEF TypeOK
  <2>2. Conservation'
    BY <1>0, <1>1, <2>0 DEF TypeOK, Conservation
  <2>3. BufferSorted'
    BY <1>0, <1>1, <2>0 DEF TypeOK, BufferSorted
  <2>4. Fifo'
    <3> SUFFICES ASSUME dropWhenFull, "starting" \notin SendPhases PROVE Fifo'
      BY <1>1, <2>0 DEF Fifo
    <3> QED
      BY <1>0, <1>1, <2>0 DEF TypeOK, Fifo
  <2> QED
    BY <1>2, <2>0, <2>1, <2>2, <2>3, <2>4 DEF Inv
<1>4. CASE SendDirect
  <2>0. Called /\ running /\ producer
        /\ UNCHANGED <<pending, unavailable, discarded>>
    BY <1>4 DEF SendDirect
  <2>p. PICK result \in Results :
         /\ TryProduceLocked(calls + 1, result)
         /\ result = "QUEUE_FULL" => dropWhenFull
         /\ dropped' = dropped + Count(result = "QUEUE_FULL")
    BY <1>4 DEF SendDirect
  <2>1. /\ queued' \in 0..ClientQueue
        /\ lastProduced' \in {lastProduced, calls + 1}
        /\ \/ OneMore(sentOk, <<sendErrors, dropped>>)
           \/ OneMore(sendErrors, <<sentOk, dropped>>)
           \/ OneMore(dropped, <<sentOk, sendErrors>>)
    <3>1. calls + 1 \in 1..SendLimit
      BY <1>1, <2>0
    <3>2. dropped' = IF result = "QUEUE_FULL" THEN dropped + 1 ELSE dropped
      BY <1>0, <2>p DEF TypeOK, Count
    <3> QED
      BY <1>0, <2>p, <3>1, <3>2, TryProduceOutcome DEF OneMore
  <2>2. TypeOK'
    <3>1. (running \in BOOLEAN /\ producer \in BOOLEAN)'
      BY <1>0, <1>1, <2>0 DEF TypeOK
    <3>2. lastProduced' \in 0..SendLimit /\ calls' \in 0..SendLimit
      BY <1>0, <1>1, <2>0, <2>1 DEF TypeOK
    <3>3. sentOk' \in Nat /\ sendErrors' \in Nat /\ dropped' \in Nat
      BY <1>0, <2>1 DEF TypeOK, OneMore
    <3> QED
      BY <1>0, <1>1, <2>0, <2>1, <3>1, <3>2, <3>3 DEF TypeOK
  <2>3. Conservation'
    <3>1. sentOk \in Nat /\ sendErrors \in Nat /\ dropped \in Nat /\ calls \in Nat
          /\ unavailable \in Nat /\ discarded \in Nat
      BY <1>0 DEF TypeOK
    <3>2. calls' = calls + 1 /\ unavailable' = unavailable /\ discarded' = discarded
          /\ Len(pending') = Len(pending)
      BY <1>1, <2>0
    <3>3. CASE OneMore(sentOk, <<sendErrors, dropped>>)
      BY <1>0, <3>1, <3>2, <3>3 DEF Conservation, OneMore
    <3>4. CASE OneMore(sendErrors, <<sentOk, dropped>>)
      BY <1>0, <3>1, <3>2, <3>4 DEF Conservation, OneMore
    <3>5. CASE OneMore(dropped, <<sentOk, sendErrors>>)
      BY <1>0, <3>1, <3>2, <3>5 DEF Conservation, OneMore
    <3> QED
      BY <2>1, <3>3, <3>4, <3>5
  <2>4. BufferSorted'
    BY <1>0, <1>1, <2>0 DEF TypeOK, BufferSorted
  <2>5. Fifo'
    <3> SUFFICES ASSUME dropWhenFull, "starting" \notin SendPhases PROVE Fifo'
      BY <1>1, <2>0 DEF Fifo
    <3>1. pending' = <<>> /\ Len(pending') = 0
      BY <1>0, <1>1, <2>0, EmptySeq DEF Fifo
    <3>2. lastProduced' <= calls'
      BY <1>0, <1>1, <2>0, <2>1 DEF Fifo, TypeOK
    <3> QED
      BY <3>1, <3>2 DEF Fifo
  <2> QED
    BY <1>2, <2>0, <2>2, <2>3, <2>4, <2>5 DEF Inv
<1>5. CASE SendBuffered
  <2>0. Called /\ running /\ (producer => queued = ClientQueue /\ ~dropWhenFull)
        /\ UNCHANGED <<sentOk, sendErrors, queued, unavailable, discarded, lastProduced>>
    BY <1>5 DEF SendBuffered
  <2>1. CASE Len(pending) >= MaxQueueMessages
    <3>0. dropped' = dropped + 1 /\ pending' = pending
      BY <1>5, <2>1 DEF SendBuffered
    <3>1. TypeOK'
      BY <1>0, <1>1, <2>0, <3>0 DEF TypeOK
    <3>2. Conservation'
      BY <1>0, <1>1, <2>0, <3>0 DEF TypeOK, Conservation
    <3>3. BufferSorted'
      BY <1>0, <1>1, <2>0, <3>0 DEF TypeOK, BufferSorted
    <3>4. Fifo'
      <4> SUFFICES ASSUME dropWhenFull, "starting" \notin SendPhases PROVE Fifo'
        BY <1>1, <2>0 DEF Fifo
      <4> QED
        BY <1>0, <1>1, <2>0, <3>0 DEF TypeOK, Fifo
    <3> QED
      BY <1>2, <2>0, <3>1, <3>2, <3>3, <3>4 DEF Inv
  <2>2. CASE ~(Len(pending) >= MaxQueueMessages)
    <3>0. dropped' = dropped /\ pending' = Append(pending, calls + 1)
      BY <1>5, <2>2 DEF SendBuffered
    <3>a. /\ pending' \in Seq(1..SendLimit)
          /\ Len(pending') = Len(pending) + 1
          /\ \A i \in 1..Len(pending') :
               pending'[i] = calls + 1 \/ (i \in 1..Len(pending) /\ pending'[i] = pending[i])
          /\ \A i, j \in 1..Len(pending') : i < j => pending'[i] < pending'[j]
      <4>1. calls + 1 \in 1..SendLimit /\ pending \in Seq(1..SendLimit)
            /\ 1..SendLimit \in SUBSET Nat
        BY <1>0, <1>1, <2>0 DEF TypeOK
      <4>2. \A i \in 1..Len(pending) : pending[i] < calls + 1
        BY <1>0 DEF BufferSorted, TypeOK
      <4>3. \A i, j \in 1..Len(pending) : i < j => pending[i] < pending[j]
        BY <1>0 DEF BufferSorted
      <4> QED
        BY <3>0, <4>1, <4>2, <4>3, AppendSorted
    <3>1. TypeOK'
      <4>1. (running \in BOOLEAN /\ producer \in BOOLEAN)'
        BY <1>0, <1>1, <2>0 DEF TypeOK
      <4>2. Len(pending') <= MaxQueueMessages
        BY <1>0, <2>2, <3>a
      <4>3. calls' \in 0..SendLimit
        BY <1>0, <1>1, <2>0 DEF TypeOK
      <4> QED
        BY <1>0, <1>1, <2>0, <3>0, <3>a, <4>1, <4>2, <4>3 DEF TypeOK
    <3>2. Conservation'
      BY <1>0, <1>1, <2>0, <3>0, <3>a DEF TypeOK, Conservation
    <3>3. BufferSorted'
      <4>1. calls \in Nat /\ calls' = calls + 1
        BY <1>0, <1>1, <2>0 DEF TypeOK
      <4>2. \A i \in 1..Len(pending') : pending'[i] <= calls'
        BY <1>0, <3>a, <4>1 DEF BufferSorted
      <4> QED
        BY <3>a, <4>2 DEF BufferSorted
    <3>4. Fifo'
      <4> SUFFICES ASSUME dropWhenFull, "starting" \notin SendPhases PROVE Fifo'
        BY <1>1, <2>0 DEF Fifo
      <4>1. owner # "starting" /\ ~producer
        BY <1>1, <2>0
      <4>2. \A i \in 1..Len(pending') : pending'[i] > lastProduced'
        <5>1. lastProduced' = lastProduced /\ lastProduced \in Nat /\ calls \in Nat
              /\ lastProduced < calls + 1
          BY <1>0, <2>0 DEF Fifo, TypeOK
        <5>2. \A i \in 1..Len(pending) : pending[i] > lastProduced
          BY <1>0 DEF Fifo
        <5> QED
          BY <3>a, <5>1, <5>2
      <4>3. lastProduced' <= calls'
        BY <1>0, <1>1, <2>0 DEF Fifo, TypeOK
      <4> QED
        BY <1>1, <2>0, <4>1, <4>2, <4>3 DEF Fifo
    <3> QED
      BY <1>2, <2>0, <3>1, <3>2, <3>3, <3>4 DEF Inv
  <2> QED
    BY <2>1, <2>2
<1> QED
  BY <1>3, <1>4, <1>5 DEF Send

\* Draining one record keeps the invariant.
LEMMA DrainRecordStep == ASSUME Inv, DrainRecord PROVE Inv'
<1> USE ConfigAssumption
<1>0. TypeOK /\ Phases /\ Conservation /\ BufferSorted /\ Fifo
  BY DEF Inv
<1>1. /\ poll = "drain" /\ pending # <<>> /\ pending \in Seq(1..SendLimit)
      /\ UNCHANGED <<dropWhenFull, strict, running, status, producer, owner, calls, unavailable,
                     discarded>>
  BY <1>0 DEF DrainRecord, TypeOK, config
<1>p. PICK result \in Results :
       /\ TryProduceLocked(Head(pending), result)
       /\ dropped' = dropped + Count(result = "QUEUE_FULL" /\ dropWhenFull)
       /\ IF result = "QUEUE_FULL" /\ ~dropWhenFull
          THEN poll' = "polling" /\ UNCHANGED pending
          ELSE pending' = Tail(pending) /\ UNCHANGED poll
  BY DEF DrainRecord
<1>2. /\ Head(pending) = pending[1] /\ Head(pending) \in 1..SendLimit
      /\ Tail(pending) \in Seq(1..SendLimit)
      /\ Len(Tail(pending)) = Len(pending) - 1
      /\ \A i \in 1..Len(Tail(pending)) :
           Tail(pending)[i] = pending[i + 1] /\ Tail(pending)[i] > Head(pending)
      /\ \A i, j \in 1..Len(Tail(pending)) : i < j => Tail(pending)[i] < Tail(pending)[j]
      /\ Len(pending) \in Nat /\ Len(pending) >= 1
  <2>1. 1..SendLimit \in SUBSET Nat
    OBVIOUS
  <2>2. \A i, j \in 1..Len(pending) : i < j => pending[i] < pending[j]
    BY <1>0 DEF BufferSorted
  <2>3. Len(pending) \in Nat /\ Len(pending) >= 1
    BY <1>1, EmptySeq, LenProperties
  <2> QED
    BY <1>1, <2>1, <2>2, <2>3, TailSorted
<1>3. /\ queued' \in 0..ClientQueue
      /\ \/ /\ result = "SENT" /\ lastProduced' = Head(pending)
            /\ sentOk' = sentOk + 1 /\ sendErrors' = sendErrors
         \/ /\ result = "QUEUE_FULL" /\ lastProduced' = lastProduced
            /\ sentOk' = sentOk /\ sendErrors' = sendErrors
         \/ /\ result = "ERROR" /\ lastProduced' = lastProduced
            /\ sentOk' = sentOk /\ sendErrors' = sendErrors + 1
  BY <1>0, <1>p, <1>2, TryProduceOutcome
<1>4. (running \in BOOLEAN /\ producer \in BOOLEAN)'
  BY <1>0, <1>1 DEF TypeOK
<1>5. /\ sentOk \in Nat /\ sendErrors \in Nat /\ dropped \in Nat /\ calls \in Nat
      /\ unavailable \in Nat /\ discarded \in Nat /\ lastProduced \in 0..SendLimit
  BY <1>0 DEF TypeOK
<1>6. CASE result = "QUEUE_FULL" /\ ~dropWhenFull
  <2>1. /\ poll' = "polling" /\ pending' = pending /\ dropped' = dropped
        /\ sentOk' = sentOk /\ sendErrors' = sendErrors /\ lastProduced' = lastProduced
    <3>1. Count(result = "QUEUE_FULL" /\ dropWhenFull) = 0
      BY <1>6 DEF Count
    <3> QED
      BY <1>p, <1>3, <1>5, <1>6, <3>1
  <2>2. TypeOK'
    BY <1>0, <1>1, <1>3, <1>4, <2>1 DEF TypeOK, PollPhases
  <2>3. Phases'
    BY <1>0, <1>1, <2>1 DEF Phases, PollHasClient, StatusTruthful
  <2>4. Conservation' /\ BufferSorted'
    BY <1>0, <1>1, <2>1 DEF Conservation, BufferSorted
  <2>5. Fifo'
    BY <1>1, <1>6 DEF Fifo
  <2> QED
    BY <2>2, <2>3, <2>4, <2>5 DEF Inv
<1>7. CASE ~(result = "QUEUE_FULL" /\ ~dropWhenFull)
  <2>1. poll' = poll /\ pending' = Tail(pending)
    BY <1>p, <1>7
  <2>2. \/ OneMore(sentOk, <<sendErrors, dropped>>) /\ lastProduced' = Head(pending)
        \/ OneMore(sendErrors, <<sentOk, dropped>>) /\ lastProduced' = lastProduced
        \/ OneMore(dropped, <<sentOk, sendErrors>>) /\ lastProduced' = lastProduced
    <3>1. dropped' = IF result = "QUEUE_FULL" THEN dropped + 1 ELSE dropped
      BY <1>p, <1>5, <1>7 DEF Count
    <3> QED
      BY <1>3, <3>1 DEF OneMore
  <2>3. TypeOK'
    <3>1. sentOk' \in Nat /\ sendErrors' \in Nat /\ dropped' \in Nat
          /\ lastProduced' \in 0..SendLimit
      BY <1>2, <1>5, <2>2 DEF OneMore
    <3>2. pending' \in Seq(1..SendLimit) /\ Len(pending') <= MaxQueueMessages
      BY <1>0, <1>2, <2>1 DEF TypeOK
    <3> QED
      BY <1>0, <1>1, <1>3, <1>4, <2>1, <3>1, <3>2 DEF TypeOK
  <2>4. Phases'
    BY <1>0, <1>1, <2>1 DEF Phases, PollHasClient, StatusTruthful
  <2>5. Conservation'
    <3>0. Len(pending') = Len(pending) - 1
      BY <1>2, <2>1
    <3>1. CASE OneMore(sentOk, <<sendErrors, dropped>>)
      BY <1>0, <1>1, <1>2, <1>5, <3>0, <3>1 DEF Conservation, OneMore
    <3>2. CASE OneMore(sendErrors, <<sentOk, dropped>>)
      BY <1>0, <1>1, <1>2, <1>5, <3>0, <3>2 DEF Conservation, OneMore
    <3>3. CASE OneMore(dropped, <<sentOk, sendErrors>>)
      BY <1>0, <1>1, <1>2, <1>5, <3>0, <3>3 DEF Conservation, OneMore
    <3> QED
      BY <2>2, <3>1, <3>2, <3>3
  <2>6. \A i \in 1..Len(pending') : i + 1 \in 1..Len(pending) /\ pending'[i] = pending[i + 1]
    BY <1>2, <2>1
  <2>7. BufferSorted'
    <3>1. \A i \in 1..Len(pending) : pending[i] <= calls
      BY <1>0 DEF BufferSorted
    <3>2. \A i \in 1..Len(pending') : pending'[i] <= calls'
      BY <1>1, <2>6, <3>1
    <3> QED
      BY <1>2, <2>1, <3>2 DEF BufferSorted
  <2>8. Fifo'
    <3> SUFFICES ASSUME dropWhenFull, "starting" \notin SendPhases PROVE Fifo'
      BY <1>1 DEF Fifo
    <3>1. \A i \in 1..Len(pending) : pending[i] > lastProduced /\ pending[i] <= calls
      BY <1>0 DEF Fifo, BufferSorted
    <3>2. \A i \in 1..Len(pending') : pending'[i] > lastProduced'
      BY <1>2, <2>1, <2>2, <2>6, <3>1
    <3>3. lastProduced' <= calls'
      <4>1. Head(pending) <= calls
        BY <1>2, <3>1
      <4> QED
        BY <1>0, <1>1, <2>2, <4>1 DEF Fifo
    <3>4. running \/ owner = "joining"
      BY <1>0, <1>1 DEF Phases, StatusTruthful, TypeOK, OwnerPhases
    <3>5. owner # "starting"
      BY <1>0, <1>1 DEF Phases
    <3> QED
      BY <1>1, <2>1, <3>2, <3>3, <3>4, <3>5 DEF Fifo
  <2> QED
    BY <2>3, <2>4, <2>5, <2>7, <2>8 DEF Inv
<1> QED
  BY <1>6, <1>7

\* The poll thread keeps the invariant.
LEMMA PollStep == ASSUME Inv, PollThread PROVE Inv'
<1> USE ConfigAssumption
<1>1. CASE PollExit
  <2>1. TypeOK'
    BY <1>1 DEF Inv, TypeOK, PollExit, config, counters, history, PollPhases
  <2>2. Phases'
    BY <1>1 DEF Inv, Phases, PollHasClient, StatusTruthful, PollExit
  <2> QED
    BY <1>1, <2>1, <2>2, QuietStep DEF Inv, Fifo, PollExit
<1>2. CASE PollDrain
  <2>1. TypeOK'
    BY <1>2 DEF Inv, TypeOK, PollDrain, config, counters, history, PollPhases
  <2>2. Phases'
    BY <1>2 DEF Inv, Phases, PollHasClient, StatusTruthful, PollDrain
  <2> QED
    BY <1>2, <2>1, <2>2, QuietStep DEF Inv, Fifo, PollDrain
<1>3. CASE DrainEnd
  <2>1. TypeOK'
    BY <1>3 DEF Inv, TypeOK, DrainEnd, config, counters, history, PollPhases
  <2>2. Phases'
    BY <1>3 DEF Inv, Phases, PollHasClient, StatusTruthful, DrainEnd
  <2> QED
    BY <1>3, <2>1, <2>2, QuietStep DEF Inv, Fifo, DrainEnd
<1>4. CASE PollServe
  <2>1. TypeOK'
    BY <1>4 DEF Inv, TypeOK, PollServe, config, counters, history, PollPhases
  <2>2. Phases'
    BY <1>4 DEF Inv, Phases, PollHasClient, StatusTruthful, PollServe
  <2> QED
    BY <1>4, <2>1, <2>2, QuietStep DEF Inv, Fifo, PollServe
<1>5. CASE PollWait
  <2>1. TypeOK'
    BY <1>5 DEF Inv, TypeOK, PollWait, config, counters, history, PollPhases
  <2>2. Phases'
    BY <1>5 DEF Inv, Phases, PollHasClient, StatusTruthful, PollWait
  <2> QED
    BY <1>5, <2>1, <2>2, QuietStep DEF Inv, Fifo, PollWait
<1>6. CASE PollWake
  <2>1. TypeOK'
    BY <1>6 DEF Inv, TypeOK, PollWake, config, counters, history, PollPhases
  <2>2. Phases'
    BY <1>6 DEF Inv, Phases, PollHasClient, StatusTruthful, PollWake
  <2> QED
    BY <1>6, <2>1, <2>2, QuietStep DEF Inv, Fifo, PollWake
<1>7. CASE \E ok \in CreateOutcomes : PollCreate(ok)
  <2>p. PICK ok \in CreateOutcomes : PollCreate(ok)
    BY <1>7
  <2>0. /\ poll = "top" /\ running /\ ~producer /\ ok \in BOOLEAN
        /\ UNCHANGED <<config, running, pending, counters, owner, queued, history>>
    BY <2>p DEF PollCreate
  <2>1. CASE ok
    <3>0. producer' = TRUE /\ status' = "RUNNING" /\ poll' = "drain"
      BY <2>0, <2>p, <2>1 DEF PollCreate, CreateProducerLocked
    <3>1. TypeOK'
      BY <2>0, <3>0 DEF Inv, TypeOK, config, counters, history, PollPhases, Statuses
    <3>2. Phases'
      BY <2>0, <3>0 DEF Inv, Phases, PollHasClient, StatusTruthful
    <3> QED
      BY <2>0, <3>0, <3>1, <3>2, QuietStep DEF Inv, Fifo
  <2>2. CASE ~ok
    <3>0. producer' = FALSE /\ status' = "DEGRADED" /\ poll' = "check"
      BY <2>0, <2>p, <2>2 DEF PollCreate, CreateProducerLocked
    <3>1. TypeOK'
      BY <2>0, <3>0 DEF Inv, TypeOK, config, counters, history, PollPhases, Statuses
    <3>2. Phases'
      BY <2>0, <3>0 DEF Inv, Phases, PollHasClient, StatusTruthful
    <3> QED
      BY <2>0, <3>0, <3>1, <3>2, QuietStep DEF Inv, Fifo
  <2> QED
    BY <2>1, <2>2
<1> QED
  BY <1>1, <1>2, <1>3, <1>4, <1>5, <1>6, <1>7, DrainRecordStep DEF PollThread

\* librdkafka keeps the invariant.
LEMMA OutsideStep == ASSUME Inv, ClientDelivers PROVE Inv'
<1> USE ConfigAssumption
<1>1. TypeOK'
  BY DEF Inv, TypeOK, ClientDelivers, config, counters, history
<1>2. Phases'
  BY DEF Inv, Phases, PollHasClient, StatusTruthful, ClientDelivers
<1> QED
  BY <1>1, <1>2, QuietStep DEF Inv, Fifo, ClientDelivers

\* Every step keeps the invariant.
LEMMA InvStep == Inv /\ [Next]_vars => Inv'
<1> SUFFICES ASSUME Inv, [Next]_vars PROVE Inv'
  OBVIOUS
<1>1. CASE Next
  BY <1>1, OwnerStep, SendStep, PollStep, OutsideStep DEF Next
<1>2. CASE UNCHANGED vars
  BY <1>2 DEF vars, config, counters, history, Inv, TypeOK, Phases, PollHasClient,
              StatusTruthful, Conservation, BufferSorted, Fifo
<1> QED
  BY <1>1, <1>2

----------------------------------------------------------------------------
(* The theorems *)

\* Inv holds throughout every behaviour of the producer.
THEOREM Invariance == Spec => []Inv
  BY InvInit, InvStep, PTL DEF Spec

\* The variables keep their types and the retry buffer its bound.
THEOREM TypeCorrect == Spec => []TypeOK
  BY Invariance, PTL DEF Inv

\* Every send() call is in exactly one account, whatever the interleaving of
\* callers, poll thread, start() and stop().
THEOREM CallsConserved == Spec => []Conservation
  BY Invariance, PTL DEF Inv

\* No thread uses a client that is not there (try_produce_locked, poll).
THEOREM NoUseAfterReset == Spec => []PollHasClient
<1>1. Inv => PollHasClient
  BY DEF Inv, Phases
<1> QED
  BY <1>1, Invariance, PTL

\* health() between start() and stop() reports what is there.
THEOREM HealthTruthful == Spec => []StatusTruthful
<1>1. Inv => StatusTruthful
  BY DEF Inv, Phases
<1> QED
  BY <1>1, Invariance, PTL

\* What the poll thread uses and what health() reports is the client that there is.
THEOREM ClientAsReported == Spec => []ClientFollowsStatus
<1>1. PollHasClient /\ StatusTruthful => ClientFollowsStatus
  BY DEF ClientFollowsStatus
<1> QED
  BY <1>1, NoUseAfterReset, HealthTruthful, PTL

\* The retry buffer is in send() order in either mode.
THEOREM RetryBufferSorted == Spec => []BufferSorted
  BY Invariance, PTL DEF Inv

\* In drop mode a send() never overtakes a buffered record.
THEOREM DirectSendsFindEmptyBuffer == Spec => []NoOvertaking
<1>1. Inv => NoOvertaking
  BY DEF Inv, Fifo, NoOvertaking, MutexFree
<1> QED
  BY <1>1, Invariance, PTL

\* In drop mode, with no send() while start() makes the client, librdkafka
\* receives the records in the order of the send() calls.
THEOREM RecordsInOrder == Spec => InOrder
<1> DEFINE Step == dropWhenFull /\ "starting" \notin SendPhases => FifoStep
<1>1. Inv /\ [Next]_vars => [Step]_vars
  <2> SUFFICES ASSUME Inv, Next, dropWhenFull, "starting" \notin SendPhases
               PROVE  FifoStep
    BY DEF Step
  <2>0. TypeOK /\ lastProduced <= calls /\ lastProduced \in Nat /\ calls \in Nat
    BY ConfigAssumption DEF Inv, Fifo, TypeOK
  <2>1. CASE Owner
    BY <2>1 DEF Owner, StartBegin, StartCreate, StartSpawn, StopBegin, StopJoin,
                StopFinish, FifoStep, history
  <2>2. CASE SendStopped \/ SendBuffered
    BY <2>2 DEF SendStopped, SendBuffered, FifoStep
  <2>3. CASE SendDirect
    <3>p. PICK result \in Results : TryProduceLocked(calls + 1, result)
      BY <2>3 DEF SendDirect
    <3>1. lastProduced' \in {lastProduced, calls + 1}
      BY <3>p DEF TryProduceLocked
    <3> QED
      BY <2>0, <3>1 DEF FifoStep
  <2>4. CASE DrainRecord
    <3>p. PICK result \in Results : TryProduceLocked(Head(pending), result)
      BY <2>4 DEF DrainRecord
    <3>1. lastProduced' \in {lastProduced, Head(pending)}
      BY <3>p DEF TryProduceLocked
    <3>2. pending # <<>> /\ pending \in Seq(1..SendLimit)
      BY <2>0, <2>4 DEF DrainRecord, TypeOK
    <3>3. Len(pending) \in Nat /\ Len(pending) >= 1 /\ Head(pending) = pending[1]
      BY <3>2, EmptySeq, LenProperties, HeadTailProperties
    <3>4. Head(pending) > lastProduced
      BY <3>3 DEF Inv, Fifo
    <3> QED
      BY <3>1, <3>4 DEF FifoStep
  <2>5. CASE PollThread /\ ~DrainRecord
    BY <2>5 DEF PollThread, PollExit, PollCreate, PollDrain, DrainEnd, PollServe,
                PollWait, PollWake, FifoStep, history
  <2>6. CASE ClientDelivers
    BY <2>6 DEF ClientDelivers, FifoStep, history
  <2> QED
    BY <2>1, <2>2, <2>3, <2>4, <2>5, <2>6 DEF Next, Send
<1> QED
  BY <1>1, Invariance, PTL DEF Spec, InOrder, Step

----------------------------------------------------------------------------
(* stop() waits for a bounded number of steps of the poll thread *)

\* Where the poll thread is in its loop tells how far it has to go.
StepsPerPhase ==
  /\ poll = "drain" => StepsToExit = 4 + Len(pending)
  /\ poll = "polling" => StepsToExit = 3
  /\ poll \in {"check", "wait"} => StepsToExit = 2
  /\ poll = "top" => StepsToExit = 1
  /\ poll \in {"none", "exited"} => StepsToExit = 0
  /\ StepsToExit \in Nat /\ Len(pending) \in Nat
  /\ StepsToExit <= MaxQueueMessages + 4

LEMMA StepsByPhase == TypeOK => StepsPerPhase
<1> SUFFICES ASSUME TypeOK PROVE StepsPerPhase
  OBVIOUS
<1>1. Len(pending) \in Nat /\ Len(pending) <= MaxQueueMessages /\ MaxQueueMessages \in Nat
  BY ConfigAssumption, LenProperties DEF TypeOK
<1> QED
  BY <1>1 DEF StepsPerPhase, StepsToExit, TypeOK, PollPhases

\* The same after a step.
LEMMA StepsByPhaseAfter == TypeOK' => StepsPerPhase'
  BY StepsByPhase, PTL

\* One step of the drain, seen from the buffer.
LEMMA DrainShortens ==
  ASSUME TypeOK, DrainRecord
  PROVE  \/ poll' = "polling" /\ pending' = pending
         \/ poll' = "drain" /\ Len(pending') = Len(pending) - 1
<1>1. poll = "drain" /\ pending # <<>> /\ pending \in Seq(1..SendLimit)
  BY DEF DrainRecord, TypeOK
<1>2. Len(Tail(pending)) = Len(pending) - 1
  BY <1>1, HeadTailProperties
<1> QED
  BY <1>1, <1>2 DEF DrainRecord

\* While the object is not running, the poll thread only goes forward.
LEMMA PollGoesForward ==
  ASSUME TypeOK, TypeOK', PollThread, ~running
  PROVE  StepsToExit' < StepsToExit
<1>0. StepsPerPhase /\ StepsPerPhase'
  BY StepsByPhase, StepsByPhaseAfter
<1>1. CASE PollExit
  BY <1>0, <1>1 DEF PollExit, StepsPerPhase
<1>2. CASE (\E ok \in CreateOutcomes : PollCreate(ok)) \/ PollDrain
  BY <1>2 DEF PollCreate, PollDrain
<1>3. CASE DrainRecord
  <2>1. poll = "drain"
    BY <1>3 DEF DrainRecord
  <2> QED
    BY <1>0, <1>3, <2>1, DrainShortens DEF StepsPerPhase
<1>4. CASE DrainEnd
  BY <1>0, <1>4 DEF DrainEnd, StepsPerPhase
<1>5. CASE PollServe
  BY <1>0, <1>5 DEF PollServe, StepsPerPhase
<1>6. CASE PollWait
  <2>1. poll = "check" /\ poll' = "top"
    BY <1>6 DEF PollWait
  <2> QED
    BY <1>0, <2>1 DEF StepsPerPhase
<1>7. CASE PollWake
  BY <1>0, <1>7 DEF PollWake, StepsPerPhase
<1> QED
  BY <1>1, <1>2, <1>3, <1>4, <1>5, <1>6, <1>7 DEF PollThread

\* stop() waits for at most MaxQueueMessages + 4 steps of the poll thread, each of
\* which shortens the wait, and nothing that callers or librdkafka do lengthens it:
\* the safety half of StopReturns, for every size of the buffer.
THEOREM StopWaitsBounded == Spec => StopBounded
<1>1. Inv /\ Inv' /\ [Next]_vars => [StopAdvances]_vars
  <2> SUFFICES ASSUME Inv, Inv', Next PROVE StopAdvances
    OBVIOUS
  <2>0. TypeOK /\ TypeOK' /\ Phases
    BY DEF Inv
  <2>1. StepsToExit \in Nat /\ StepsToExit <= MaxQueueMessages + 4 /\ StepsToExit' \in Nat
    BY <2>0, StepsByPhase, StepsByPhaseAfter DEF StepsPerPhase
  <2>2. owner = "joining" => ~running
    BY <2>0 DEF Phases
  <2>3. CASE PollThread
    <3>1. owner' = owner
      BY <2>3 DEF PollThread, PollExit, PollCreate, PollDrain, DrainRecord, DrainEnd,
                  PollServe, PollWait, PollWake
    <3>2. owner = "joining" => StepsToExit' < StepsToExit
      BY <2>0, <2>2, <2>3, PollGoesForward
    <3> QED
      BY <2>1, <3>1, <3>2 DEF StopAdvances
  <2>4. CASE ~PollThread /\ owner = "joining"
    <3>1. CASE StopJoin
      <4>1. StepsToExit = 0 /\ owner' # "joining"
        BY <2>0, <3>1, StepsByPhase DEF StopJoin, StepsPerPhase
      <4> QED
        BY <2>1, <4>1 DEF StopAdvances
    <3>2. CASE ~StopJoin
      <4>1. UNCHANGED <<poll, pending, owner>>
        BY <2>2, <2>4, <3>2 DEF Next, Owner, StartBegin, StartCreate, StartSpawn, StopBegin,
             StopFinish, Send, Called, SendStopped, SendDirect, SendBuffered, ClientDelivers
      <4>2. StepsToExit' = StepsToExit
        BY <4>1 DEF StepsToExit
      <4> QED
        BY <2>1, <4>1, <4>2 DEF StopAdvances
    <3> QED
      BY <3>1, <3>2
  <2>5. CASE owner # "joining"
    BY <2>5 DEF StopAdvances
  <2> QED
    BY <2>3, <2>4, <2>5
<1> QED
  BY <1>1, Invariance, PTL DEF Spec, StopBounded

----------------------------------------------------------------------------
(* The producer is an outbox *)

Settled == sentOk + dropped + sendErrors + unavailable + discarded
InFifo == dropWhenFull /\ "starting" \notin SendPhases

\* The steps of the outbox in the variables of the producer.
Opens == ~running /\ running' = TRUE /\ UNCHANGED <<InFifo, calls, pending, lastProduced, Settled>>
Closes == running /\ running' = FALSE /\ UNCHANGED <<InFifo, calls, pending, lastProduced, Settled>>
Clears ==
  /\ ~running /\ pending' = <<>> /\ Settled' = Settled + Len(pending)
  /\ UNCHANGED <<InFifo, running, calls, lastProduced>>
HandsOver ==
  /\ running /\ (InFifo => pending = <<>>)
  /\ calls' = calls + 1 /\ lastProduced' = calls' /\ Settled' = Settled + 1
  /\ UNCHANGED <<InFifo, running, pending>>
Keeps ==
  /\ running /\ Len(pending) < MaxQueueMessages
  /\ calls' = calls + 1 /\ pending' = Append(pending, calls')
  /\ UNCHANGED <<InFifo, running, lastProduced, Settled>>
Loses ==
  /\ calls' = calls + 1 /\ Settled' = Settled + 1
  /\ UNCHANGED <<InFifo, running, pending, lastProduced>>
Leaves ==
  /\ pending # <<>> /\ pending' = Tail(pending)
  /\ lastProduced' \in {lastProduced, Head(pending)}
  /\ Settled' = Settled + 1
  /\ UNCHANGED <<InFifo, running, calls>>
Stays == UNCHANGED <<InFifo, running, calls, pending, lastProduced, Settled>>

OutboxSteps == Opens \/ Closes \/ Clears \/ HandsOver \/ Keeps \/ Loses \/ Leaves \/ Stays

LEMMA StepsOfOutbox == OutboxSteps => [Outbox!Next]_(Outbox!vars)
BY DEF OutboxSteps, Opens, Closes, Clears, HandsOver, Keeps, Loses, Leaves, Stays, Settled, InFifo,
   Outbox!Next, Outbox!vars, Outbox!Open, Outbox!Close, Outbox!Clear, Outbox!HandOver,
   Outbox!Keep, Outbox!Lose, Outbox!Leave

\* The accounts are numbers.
LEMMA AccountsTyped ==
  ASSUME Inv
  PROVE  /\ sentOk \in Nat /\ dropped \in Nat /\ sendErrors \in Nat /\ unavailable \in Nat
         /\ discarded \in Nat /\ calls \in Nat /\ Len(pending) \in Nat
BY ConfigAssumption DEF Inv, TypeOK, ConfigAssumption

\* The configuration does not change.
LEMMA FifoKept == UNCHANGED config => UNCHANGED InFifo
BY DEF config, InFifo

\* start() and stop() open, close and clear the outbox.
LEMMA OwnerIsOutbox == ASSUME Inv, Owner PROVE OutboxSteps
<1>1. CASE StartBegin
  <2>1. ~running /\ running' = TRUE /\ UNCHANGED <<config, counters, pending, history>>
    BY <1>1 DEF StartBegin
  <2>2. QED
    BY <2>1, FifoKept DEF OutboxSteps, Opens, Settled, counters, history
<1>2. CASE StopBegin
  <2>1. running /\ running' = FALSE /\ UNCHANGED <<config, counters, pending, history>>
    BY <1>2 DEF StopBegin
  <2>2. QED
    BY <2>1, FifoKept DEF OutboxSteps, Closes, Settled, counters, history
<1>3. CASE StartCreate
  <2>1. UNCHANGED <<config, counters, pending, history>>
    BY <1>3 DEF StartCreate
  <2>2. running' = running \/ running' = FALSE
    BY <1>3 DEF StartCreate
  <2>3. running
    BY <1>3 DEF StartCreate, Inv, Phases
  <2>4. QED
    BY <2>1, <2>2, <2>3, FifoKept DEF OutboxSteps, Closes, Stays, Settled, counters, history
<1>4. CASE StartSpawn \/ StopJoin
  <2>1. UNCHANGED <<config, counters, pending, history, running>>
    BY <1>4, Zenon DEF StartSpawn, StopJoin
  <2>2. QED
    BY <2>1, FifoKept DEF OutboxSteps, Stays, Settled, counters, history
<1>5. CASE StopFinish
  <2>1. /\ UNCHANGED <<config, counters, running, calls, unavailable, lastProduced>>
        /\ pending' = <<>> /\ discarded' = discarded + Len(pending)
    BY <1>5 DEF StopFinish
  <2>2. ~running
    BY <1>5 DEF StopFinish, Inv, Phases
  <2>3. Settled' = Settled + Len(pending)
    BY <2>1, AccountsTyped DEF Settled, counters
  <2>4. QED
    BY <2>1, <2>2, <2>3, FifoKept DEF OutboxSteps, Clears
<1>6. QED
  BY <1>1, <1>2, <1>3, <1>4, <1>5 DEF Owner

\* What librdkafka answers to a record.
LEMMA AnswerSettles ==
  ASSUME NEW record, NEW result \in Results, NEW drops \in BOOLEAN, Inv,
         TryProduceLocked(record, result),
         dropped' = dropped + Count(result = "QUEUE_FULL" /\ drops),
         UNCHANGED <<unavailable, discarded>>
  PROVE  /\ result = "QUEUE_FULL" /\ ~drops =>
              Settled' = Settled /\ lastProduced' = lastProduced
         /\ ~(result = "QUEUE_FULL" /\ ~drops) => Settled' = Settled + 1
         /\ lastProduced' = IF result = "SENT" THEN record ELSE lastProduced
<1>1. CASE result = "SENT"
  <2>1. sentOk' = sentOk + 1 /\ sendErrors' = sendErrors /\ lastProduced' = record
    BY <1>1 DEF TryProduceLocked
  <2>2. dropped' = dropped
    BY <1>1, AccountsTyped DEF Count
  <2>3. QED
    BY <1>1, <2>1, <2>2, AccountsTyped DEF Settled
<1>2. CASE result = "ERROR"
  <2>1. sentOk' = sentOk /\ sendErrors' = sendErrors + 1 /\ lastProduced' = lastProduced
    BY <1>2 DEF TryProduceLocked
  <2>2. dropped' = dropped
    BY <1>2, AccountsTyped DEF Count
  <2>3. QED
    BY <1>2, <2>1, <2>2, AccountsTyped DEF Settled
<1>3. CASE result = "QUEUE_FULL"
  <2>1. sentOk' = sentOk /\ sendErrors' = sendErrors /\ lastProduced' = lastProduced
    BY <1>3 DEF TryProduceLocked
  <2>2. dropped' = IF drops THEN dropped + 1 ELSE dropped
    BY <1>3, AccountsTyped DEF Count
  <2>3. QED
    BY <1>3, <2>1, <2>2, AccountsTyped DEF Settled
<1>4. QED
  BY <1>1, <1>2, <1>3 DEF Results

\* Each send() hands over, keeps or loses its record.
LEMMA SendIsOutbox == ASSUME Inv, Send PROVE OutboxSteps
<1>0. Called /\ calls' = calls + 1 /\ UNCHANGED <<config, running>> /\ UNCHANGED InFifo
  <2>1. Called
    BY DEF Send, SendStopped, SendDirect, SendBuffered
  <2>2. QED
    BY <2>1, FifoKept DEF Called
<1>1. CASE SendStopped
  <2>1. UNCHANGED <<pending, counters, discarded, lastProduced>> /\ unavailable' = unavailable + 1
    BY <1>1 DEF SendStopped
  <2>2. Settled' = Settled + 1
    BY <2>1, AccountsTyped DEF Settled, counters
  <2>3. QED
    BY <1>0, <2>1, <2>2 DEF OutboxSteps, Loses
<1>2. CASE SendDirect
  <2>1. running /\ producer /\ UNCHANGED <<pending, unavailable, discarded>>
    BY <1>2 DEF SendDirect
  <2>2. PICK result \in Results :
          /\ TryProduceLocked(calls + 1, result)
          /\ result = "QUEUE_FULL" => dropWhenFull
          /\ dropped' = dropped + Count(result = "QUEUE_FULL")
    BY <1>2 DEF SendDirect
  <2>3. Count(result = "QUEUE_FULL") = Count(result = "QUEUE_FULL" /\ TRUE)
    OBVIOUS
  <2>4. Settled' = Settled + 1 /\ lastProduced' = IF result = "SENT" THEN calls + 1 ELSE lastProduced
    BY <2>1, <2>2, <2>3, AnswerSettles
  <2>5. InFifo => pending = <<>>
    BY <1>0, <2>1 DEF InFifo, Inv, Fifo, Called, MutexFree
  <2>6. CASE result = "SENT"
    BY <1>0, <2>1, <2>4, <2>5, <2>6 DEF OutboxSteps, HandsOver
  <2>7. CASE result # "SENT"
    BY <1>0, <2>1, <2>4, <2>7 DEF OutboxSteps, Loses
  <2>8. QED
    BY <2>6, <2>7
<1>3. CASE SendBuffered
  <2>1. running /\ UNCHANGED <<sentOk, sendErrors, unavailable, discarded, lastProduced>>
    BY <1>3 DEF SendBuffered
  <2>2. CASE Len(pending) >= MaxQueueMessages
    <3>1. dropped' = dropped + 1 /\ pending' = pending
      BY <1>3, <2>2 DEF SendBuffered
    <3>2. Settled' = Settled + 1
      BY <2>1, <3>1, AccountsTyped DEF Settled
    <3>3. QED
      BY <1>0, <2>1, <3>1, <3>2 DEF OutboxSteps, Loses
  <2>3. CASE ~(Len(pending) >= MaxQueueMessages)
    <3>1. dropped' = dropped /\ pending' = Append(pending, calls + 1)
      BY <1>3, <2>3 DEF SendBuffered
    <3>2. Settled' = Settled
      BY <2>1, <3>1 DEF Settled
    <3>3. Len(pending) < MaxQueueMessages
      BY <2>3, AccountsTyped, ConfigAssumption DEF ConfigAssumption
    <3>4. QED
      BY <1>0, <2>1, <3>1, <3>2, <3>3 DEF OutboxSteps, Keeps
  <2>4. QED
    BY <2>2, <2>3
<1>4. QED
  BY <1>1, <1>2, <1>3 DEF Send

\* The poll thread takes the oldest record from the queue, or leaves it.
LEMMA PollIsOutbox == ASSUME Inv, PollThread PROVE OutboxSteps
<1>1. CASE DrainRecord
  <2>1. /\ pending # <<>>
        /\ UNCHANGED <<config, running, calls, unavailable, discarded>>
    BY <1>1 DEF DrainRecord
  <2>2. PICK result \in Results :
          /\ TryProduceLocked(Head(pending), result)
          /\ dropped' = dropped + Count(result = "QUEUE_FULL" /\ dropWhenFull)
          /\ IF result = "QUEUE_FULL" /\ ~dropWhenFull
             THEN poll' = "polling" /\ UNCHANGED pending
             ELSE pending' = Tail(pending) /\ UNCHANGED poll
    BY <1>1 DEF DrainRecord
  <2>3. dropWhenFull \in BOOLEAN
    BY DEF Inv, TypeOK
  <2>4. /\ result = "QUEUE_FULL" /\ ~dropWhenFull =>
              Settled' = Settled /\ lastProduced' = lastProduced
        /\ ~(result = "QUEUE_FULL" /\ ~dropWhenFull) => Settled' = Settled + 1
        /\ lastProduced' = IF result = "SENT" THEN Head(pending) ELSE lastProduced
    BY <2>1, <2>2, <2>3, AnswerSettles
  <2>5. CASE result = "QUEUE_FULL" /\ ~dropWhenFull
    BY <2>1, <2>2, <2>4, <2>5, FifoKept DEF OutboxSteps, Stays
  <2>6. CASE ~(result = "QUEUE_FULL" /\ ~dropWhenFull)
    <3>1. lastProduced' \in {lastProduced, Head(pending)}
      BY <2>4
    <3>2. pending' = Tail(pending) /\ Settled' = Settled + 1
      BY <2>2, <2>4, <2>6
    <3>3. QED
      BY <2>1, <3>1, <3>2, FifoKept DEF OutboxSteps, Leaves
  <2>7. QED
    BY <2>5, <2>6
<1>2. CASE PollThread /\ ~DrainRecord
  <2>1. UNCHANGED <<config, running, pending, counters, history>>
    BY <1>2, Zenon DEF PollThread, PollExit, PollCreate, PollDrain, DrainEnd, PollServe,
       PollWait, PollWake
  <2>2. QED
    BY <2>1, FifoKept DEF OutboxSteps, Stays, Settled, counters, history
<1>3. QED
  BY <1>1, <1>2

\* Whatever its threads and librdkafka do, in every mode, the producer is a bounded queue
\* that accounts for each record and keeps them in order; with drop_when_full it hands
\* none over past one that waits.
THEOREM ProducerIsOutbox == Spec => KeepsOutbox
<1>1. Init => Outbox!Init
  BY ConfigAssumption DEF Init, Outbox!Init, ConfigAssumption
<1>2. Inv /\ [Next]_vars => [Outbox!Next]_(Outbox!vars)
  <2>1. ClientDelivers \/ UNCHANGED vars => OutboxSteps
    <3>1. ClientDelivers \/ UNCHANGED vars => UNCHANGED <<config, running, pending, counters, history>>
      BY DEF ClientDelivers, vars
    <3>2. QED
      BY <3>1, FifoKept DEF OutboxSteps, Stays, Settled, counters, history
  <2>2. QED
    BY <2>1, OwnerIsOutbox, SendIsOutbox, PollIsOutbox, StepsOfOutbox DEF Next
<1>3. QED
  BY <1>1, <1>2, Invariance, PTL DEF Spec, KeepsOutbox, Outbox!Spec
=============================================================================
