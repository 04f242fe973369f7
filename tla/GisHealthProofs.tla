-------------------------- MODULE GisHealthProofs --------------------------
(***************************************************************************)
(* Theorems about gis_health_node and its producer together, for every     *)
(* robot list, queue bound and startup mode.  They rest on the invariant   *)
(* of the producer, which each step of the composition keeps or makes      *)
(* anew.                                                                   *)
(***************************************************************************)
EXTENDS GisHealth, KafkaProducerProofs

\* The steps of the producer in which send() is not called.
Runs == StartCreate \/ StartSpawn \/ StopJoin \/ StopFinish \/ PollThread \/ ClientDelivers

----------------------------------------------------------------------------
(* The invariant of the producer in the composition *)

\* What librdkafka holds is no more than it has been given: it is given records in order.
Room == dropWhenFull /\ queued <= lastProduced

LEMMA NewIsInit == NewProducer => Init'
BY DEF NewProducer, Init

LEMMA InitNext == Init' => Inv'
BY InvInit, PTL

LEMMA ProducerPart == GisNext => NewProducer \/ Send \/ Runs \/ StartBegin \/ StopBegin \/ UNCHANGED vars
BY DEF GisNext, Node, OnConfigureFails, OnConfigure, Start, Configured, OnActivate, Activated,
   OnDeactivate, OnCleanup, OnShutdown, Stopped, OnHealthTimer, Pinged, SendMessage, ProducerRuns,
   Relaunch, Runs, gisVars

LEMMA ProducerStep == Inv /\ [GisNext]_gisVars => Inv'
<1> SUFFICES ASSUME Inv, [GisNext]_gisVars PROVE Inv'
  OBVIOUS
<1>1. CASE NewProducer
  BY <1>1, NewIsInit, InitNext
<1>2. CASE Send \/ Runs \/ StartBegin \/ StopBegin \/ UNCHANGED vars
  BY <1>2, InvStep DEF Next, Owner, Runs
<1>3. UNCHANGED gisVars => UNCHANGED vars
  BY DEF gisVars
<1>4. QED
  BY <1>1, <1>2, <1>3, ProducerPart

\* What the invariant says here of the numbers.
LEMMA Numbers ==
  ASSUME Inv, Room
  PROVE  /\ calls \in Nat /\ lastProduced \in Nat /\ queued \in Nat /\ dropped \in Nat
         /\ lastProduced <= calls
         /\ Len(pending) \in Nat /\ Len(pending) <= calls
         /\ \A i \in 1..Len(pending) : pending[i] \in Nat /\ pending[i] > lastProduced
         /\ pending # <<>> => Head(pending) = pending[1] /\ 1 \in 1..Len(pending)
         /\ MaxQueueMessages \in Nat /\ ClientQueue \in Nat /\ SendLimit \in Nat
<1>1. TypeOK /\ Conservation /\ Fifo
  BY DEF Inv
<1>2. MaxQueueMessages \in Nat /\ ClientQueue \in Nat /\ SendLimit \in Nat
  BY ConfigAssumption DEF ConfigAssumption
<1>3. pending \in Seq(1..SendLimit) /\ queued \in Nat /\ lastProduced \in Nat /\ calls \in Nat
  BY <1>1, <1>2 DEF TypeOK
<1>4. /\ sentOk \in Nat /\ dropped \in Nat /\ sendErrors \in Nat /\ unavailable \in Nat
      /\ discarded \in Nat
  BY <1>1 DEF TypeOK
<1>5. Len(pending) \in Nat /\ \A i \in 1..Len(pending) : pending[i] \in Nat
  BY <1>2, <1>3
<1>6. Len(pending) <= calls
  BY <1>1, <1>3, <1>4, <1>5 DEF Conservation
<1>7. lastProduced <= calls /\ \A i \in 1..Len(pending) : pending[i] > lastProduced
  BY <1>1, GisAssumption DEF Fifo, Room, GisAssumption
<1>8. pending # <<>> => Head(pending) = pending[1] /\ 1 \in 1..Len(pending)
  BY <1>3, EmptySeq
<1>9. QED
  BY <1>2, <1>3, <1>4, <1>5, <1>6, <1>7, <1>8

----------------------------------------------------------------------------
(* Room *)

\* Records that find no room come after the first that the buffer has room for.
Late(record) == MaxQueueMessages <= ClientQueue => record > MaxQueueMessages

LEMMA SendRoom ==
  ASSUME Inv, Room, Send
  PROVE  calls' = calls + 1 /\ Room' /\ (dropped' > dropped => Late(calls'))
<1>0. Called /\ calls' = calls + 1 /\ (dropWhenFull' <=> dropWhenFull)
  BY DEF Send, SendStopped, SendDirect, SendBuffered, Called, config
<1>1. CASE SendStopped
  <2>1. UNCHANGED <<queued, lastProduced, dropped>>
    BY <1>1 DEF SendStopped, counters
  <2>2. QED
    BY <1>0, <2>1, Numbers DEF Room
<1>2. CASE SendBuffered
  <2>1. UNCHANGED <<queued, lastProduced>>
        /\ (dropped' = dropped \/ Len(pending) >= MaxQueueMessages)
    BY <1>2 DEF SendBuffered
  <2>2. QED
    BY <1>0, <2>1, Numbers DEF Room, Late
<1>3. CASE SendDirect
  <2>1. PICK result \in Results : /\ TryProduceLocked(calls + 1, result)
                                  /\ dropped' = dropped + Count(result = "QUEUE_FULL")
    BY <1>3 DEF SendDirect
  <2>2. CASE result = "SENT"
    <3>1. queued' = queued + 1 /\ lastProduced' = calls + 1
      BY <2>1, <2>2 DEF TryProduceLocked
    <3>2. dropped' = dropped
      BY <2>1, <2>2, Numbers DEF Count
    <3>3. QED
      BY <1>0, <3>1, <3>2, Numbers DEF Room
  <2>3. CASE result = "QUEUE_FULL"
    <3>1. queued = ClientQueue /\ UNCHANGED <<queued, lastProduced>>
      BY <2>1, <2>3 DEF TryProduceLocked
    <3>2. QED
      BY <1>0, <3>1, Numbers DEF Room, Late
  <2>4. CASE result = "ERROR"
    <3>1. UNCHANGED <<queued, lastProduced>>
      BY <2>1, <2>4 DEF TryProduceLocked
    <3>2. dropped' = dropped
      BY <2>1, <2>4, Numbers DEF Count
    <3>3. QED
      BY <1>0, <3>1, <3>2, Numbers DEF Room
  <2>5. QED
    BY <2>2, <2>3, <2>4 DEF Results
<1>4. QED
  BY <1>1, <1>2, <1>3 DEF Send

LEMMA RunsRoom ==
  ASSUME Inv, Room, Runs
  PROVE  /\ calls' = calls /\ Room'
         /\ dropped' > dropped => Head(pending) \in Nat /\ Late(Head(pending))
<1>1. CASE DrainRecord
  <2>0. pending # <<>> /\ calls' = calls /\ (dropWhenFull' <=> dropWhenFull)
    BY <1>1 DEF DrainRecord, config
  <2>1. PICK result \in Results :
          /\ TryProduceLocked(Head(pending), result)
          /\ dropped' = dropped + Count(result = "QUEUE_FULL" /\ dropWhenFull)
    BY <1>1 DEF DrainRecord
  <2>2. CASE result = "SENT"
    <3>1. queued' = queued + 1 /\ lastProduced' = Head(pending)
      BY <2>1, <2>2 DEF TryProduceLocked
    <3>2. dropped' = dropped
      BY <2>1, <2>2, Numbers DEF Count
    <3>3. QED
      BY <2>0, <3>1, <3>2, Numbers DEF Room
  <2>3. CASE result = "QUEUE_FULL"
    <3>1. queued = ClientQueue /\ UNCHANGED <<queued, lastProduced>>
      BY <2>1, <2>3 DEF TryProduceLocked
    <3>2. QED
      BY <2>0, <3>1, Numbers DEF Room, Late
  <2>4. CASE result = "ERROR"
    <3>1. UNCHANGED <<queued, lastProduced>>
      BY <2>1, <2>4 DEF TryProduceLocked
    <3>2. dropped' = dropped
      BY <2>1, <2>4, Numbers DEF Count
    <3>3. QED
      BY <2>0, <3>1, <3>2, Numbers DEF Room
  <2>5. QED
    BY <2>2, <2>3, <2>4 DEF Results
<1>2. CASE StopFinish
  <2>1. queued' = 0 /\ UNCHANGED <<lastProduced, calls, dropped>>
        /\ (dropWhenFull' <=> dropWhenFull)
    BY <1>2 DEF StopFinish, config, counters
  <2>2. QED
    BY <2>1, Numbers DEF Room
<1>3. CASE ClientDelivers
  <2>1. queued' = queued - 1 /\ UNCHANGED <<lastProduced, calls, dropped>>
        /\ (dropWhenFull' <=> dropWhenFull)
    BY <1>3 DEF ClientDelivers, config, counters, history
  <2>2. QED
    BY <2>1, Numbers DEF Room
<1>4. CASE \/ StartCreate \/ StartSpawn \/ StopJoin \/ PollExit
           \/ (\E ok \in CreateOutcomes : PollCreate(ok))
           \/ PollDrain \/ DrainEnd \/ PollServe \/ PollWait \/ PollWake
  <2>1. UNCHANGED <<config, counters, queued, history>>
    BY <1>4, Zenon
       DEF StartCreate, StartSpawn, StopJoin, PollExit, PollCreate, PollDrain, DrainEnd,
           PollServe, PollWait, PollWake
  <2>2. UNCHANGED <<queued, lastProduced, calls, dropped>> /\ (dropWhenFull' <=> dropWhenFull)
    BY <2>1, Zenon DEF config, counters, history
  <2>3. QED
    BY <2>2, Numbers DEF Room
<1>5. QED
  BY <1>1, <1>2, <1>3, <1>4, Zenon DEF Runs, PollThread

----------------------------------------------------------------------------
(* The messages of the tasks *)

LEMMA MessagesTyped ==
  ASSUME NEW r \in Robots
  PROVE  Registration(r) \in Messages /\ Ping(r) \in Messages
BY DEF Registration, Ping, Messages

LEMMA FieldsOf ==
  ASSUME NEW r
  PROVE  /\ Registration(r).kind = "REGISTRATION" /\ Registration(r).robot = r
         /\ Ping(r).kind = "PING" /\ Ping(r).robot = r
BY DEF Registration, Ping

\* Each robot of the list has its REGISTRATION, and no PING comes before it.
LEMMA ActivationBuilt ==
  ASSUME NEW list \in Seq(Robots)
  PROVE  /\ ActivationMessages(list) \in Seq(Messages)
         /\ Len(ActivationMessages(list)) = 2 * Len(list)
         /\ \A k \in 1..Len(list) : \E h \in 1..(2 * Len(list)) :
              ActivationMessages(list)[h] = Registration(list[k])
         /\ \A i \in 1..(2 * Len(list)) : ActivationMessages(list)[i].kind = "PING" =>
              \E h \in 1..(i - 1) :
                ActivationMessages(list)[h] = Registration(ActivationMessages(list)[i].robot)
<1> DEFINE messages == ActivationMessages(list)
           n == 2 * Len(list)
<1>0. Len(list) \in Nat /\ n \in Nat /\ \A k \in 1..Len(list) : list[k] \in Robots
  OBVIOUS
<1>1. \A i \in 1..n :
        /\ i % 2 = 1 => (i + 1) \div 2 \in 1..Len(list)
        /\ i % 2 # 1 => i \div 2 \in 1..Len(list) /\ (i - 1) % 2 = 1 /\ i - 1 \in 1..n
                        /\ ((i - 1) + 1) \div 2 = i \div 2
  BY <1>0
<1>2. \A k \in 1..Len(list) :
        2 * k - 1 \in 1..n /\ (2 * k - 1) % 2 = 1 /\ ((2 * k - 1) + 1) \div 2 = k
  BY <1>0
<1>3. messages = [i \in 1..n |-> IF i % 2 = 1 THEN Registration(list[(i + 1) \div 2])
                                              ELSE Ping(list[i \div 2])]
  BY DEF ActivationMessages
<1>4. \A i \in 1..n :
        /\ i % 2 = 1 => messages[i] = Registration(list[(i + 1) \div 2])
        /\ i % 2 # 1 => messages[i] = Ping(list[i \div 2])
  BY <1>3
<1>5. \A i \in 1..n : messages[i] \in Messages
  BY <1>0, <1>1, <1>4, MessagesTyped
<1>6. messages \in Seq(Messages) /\ Len(messages) = n
  BY <1>0, <1>3, <1>5
<1> HIDE DEF messages
<1>7. ASSUME NEW k \in 1..Len(list)
      PROVE  \E h \in 1..n : messages[h] = Registration(list[k])
  <2>1. messages[2 * k - 1] = Registration(list[k])
    BY <1>2, <1>4
  <2>2. QED
    BY <1>2, <2>1
<1>8. ASSUME NEW i \in 1..n, messages[i].kind = "PING"
      PROVE  \E h \in 1..(i - 1) : messages[h] = Registration(messages[i].robot)
  <2>1. i % 2 # 1
    <3> SUFFICES ASSUME i % 2 = 1 PROVE FALSE
      OBVIOUS
    <3>1. messages[i] = Registration(list[(i + 1) \div 2])
      BY <1>4
    <3>2. messages[i].kind = "REGISTRATION"
      BY <3>1, FieldsOf
    <3>3. QED
      BY <1>8, <3>2
  <2>2. messages[i].robot = list[i \div 2]
    <3>1. messages[i] = Ping(list[i \div 2])
      BY <1>4, <2>1
    <3>2. QED
      BY <3>1, FieldsOf
  <2>3. i - 1 \in 1..n /\ messages[i - 1] = Registration(list[i \div 2])
    BY <1>1, <1>4, <2>1
  <2>4. i - 1 \in 1..(i - 1)
    BY <2>3
  <2>5. QED
    BY <2>2, <2>3, <2>4
<1>9. QED
  BY <1>6, <1>7, <1>8 DEF messages

LEMMA TimerBuilt ==
  ASSUME NEW list \in Seq(Robots)
  PROVE  /\ TimerMessages(list) \in Seq(Messages) /\ Len(TimerMessages(list)) = Len(list)
         /\ \A i \in 1..Len(list) : TimerMessages(list)[i].robot = list[i]
<1>1. \A i \in 1..Len(list) : Ping(list[i]) \in Messages /\ Ping(list[i]).robot = list[i]
  BY MessagesTyped DEF Ping
<1>2. QED
  BY <1>1 DEF TimerMessages

----------------------------------------------------------------------------
(* The node *)

\* The timer runs, and messages are sent, only where they may; the history is that of
\* the calls.
Tasking ==
  /\ task \in Tasks
  /\ timer => state = "active" /\ task \in {"none", "ping"}
  /\ task \in {"configure", "start"} => state = "unconfigured"
  /\ task \in {"activate", "cleanup"} => state = "inactive"
  /\ todo # <<>> => task \in {"activate", "ping"}

Histories ==
  /\ robots \in Seq(Robots)
  /\ todo \in Seq(Messages) /\ sends \in Seq(Messages) /\ Len(sends) = calls
  /\ \A i \in lost : i \in Nat /\ Late(i)

LEMMA TaskingStep == Tasking /\ GisNext => Tasking'
<1> SUFFICES ASSUME Tasking, GisNext PROVE Tasking'
  OBVIOUS
<1> USE DEF Tasking, Tasks, Begin, End
<1>1. CASE OnConfigureFails
  BY <1>1 DEF OnConfigureFails
<1>2. CASE OnConfigure \/ Start \/ Configured
  BY <1>2 DEF OnConfigure, Start, Configured
<1>3. CASE OnActivate \/ Activated
  BY <1>3 DEF OnActivate, Activated
<1>4. CASE OnDeactivate \/ OnCleanup \/ OnShutdown \/ Stopped
  BY <1>4 DEF OnDeactivate, OnCleanup, OnShutdown, Stopped
<1>5. CASE OnHealthTimer \/ Pinged
  BY <1>5 DEF OnHealthTimer, Pinged
<1>6. CASE SendMessage
  BY <1>6 DEF SendMessage
<1>7. CASE ProducerRuns
  BY <1>7 DEF ProducerRuns
<1>8. CASE Relaunch
  BY <1>8 DEF Relaunch
<1>9. QED
  BY <1>1, <1>2, <1>3, <1>4, <1>5, <1>6, <1>7, <1>8 DEF GisNext, Node

\* Besides sending, the producer's own steps and new tasks, the node makes a producer
\* anew, or neither sends nor plans anything.
Anew ==
  /\ NewProducer
  /\ todo' = <<>> /\ robots' \in RobotLists
  /\ task' \in {"none", "configure"} /\ state' = "unconfigured"

Idle == UNCHANGED <<robots, todo, sends, fates, calls, pending, lastProduced>>

LEMMA Classified ==
  ASSUME Tasking, GisNext
  PROVE  \/ SendMessage \/ ProducerRuns \/ OnActivate \/ OnHealthTimer \/ OnConfigureFails
         \/ Anew \/ Idle
<1> USE DEF Begin, End, Idle
<1>2. CASE OnConfigure \/ Relaunch
  BY <1>2 DEF OnConfigure, Relaunch, Anew
<1>3. CASE Start
  BY <1>3 DEF Start, StartBegin, history
<1>4. CASE Configured \/ Activated \/ OnDeactivate \/ Stopped \/ Pinged
  BY <1>4 DEF Configured, Activated, OnDeactivate, Stopped, Pinged, vars, history
<1>5. CASE OnCleanup \/ OnShutdown
  <2>1. todo = <<>> /\ todo' = <<>> /\ UNCHANGED <<robots, sends, fates>>
    BY <1>5 DEF OnCleanup, OnShutdown, Tasking
  <2>2. UNCHANGED <<pending, history>>
    BY <1>5 DEF OnCleanup, OnShutdown, StopBegin, vars
  <2>3. QED
    BY <2>1, <2>2 DEF history
<1>6. QED
  BY <1>2, <1>3, <1>4, <1>5 DEF GisNext, Node

LEMMA ListsTyped == \A list \in RobotLists : list \in Seq(Robots)
BY GisAssumption DEF GisAssumption

LEMMA HistoriesStep ==
  Inv /\ Room /\ Tasking /\ Histories /\ GisNext => Histories' /\ Room'
<1> SUFFICES ASSUME Inv, Room, Tasking, Histories, GisNext PROVE Histories' /\ Room'
  OBVIOUS
<1> USE DEF Histories
<1>1. CASE SendMessage
  <2>1. calls' = calls + 1 /\ Room' /\ (dropped' > dropped => Late(calls'))
    BY <1>1, SendRoom DEF SendMessage
  <2>2. calls \in Nat
    BY Numbers
  <2>3. /\ todo # <<>> /\ todo' = Tail(todo) /\ sends' = Append(sends, Head(todo))
        /\ robots' = robots
    BY <1>1 DEF SendMessage
  <2>4. /\ todo' \in Seq(Messages) /\ sends' \in Seq(Messages)
        /\ Len(sends') = Len(sends) + 1
    BY <2>3
  <2>5. lost' = lost \/ (dropped' > dropped /\ lost' = lost \cup {calls'})
    BY <1>1 DEF SendMessage, Answered
  <2>6. \A i \in lost' : i \in Nat /\ Late(i)
    BY <2>1, <2>2, <2>5
  <2>7. QED
    BY <2>1, <2>3, <2>4, <2>6 DEF Late
<1>2. CASE ProducerRuns
  <2>1. /\ calls' = calls /\ Room'
        /\ dropped' > dropped => Head(pending) \in Nat /\ Late(Head(pending))
    BY <1>2, RunsRoom DEF ProducerRuns, Runs
  <2>2. /\ UNCHANGED <<robots, todo, sends>>
        /\ lost' = lost \/ (dropped' > dropped /\ lost' = lost \cup {Head(pending)})
    BY <1>2 DEF ProducerRuns, Answered
  <2>3. \A i \in lost' : i \in Nat /\ Late(i)
    BY <2>1, <2>2
  <2>4. QED
    BY <2>1, <2>2, <2>3 DEF Late
<1>3. CASE OnActivate \/ OnHealthTimer
  <2>1. UNCHANGED <<vars, robots, sends, lost>>
    BY <1>3 DEF OnActivate, OnHealthTimer, fates
  <2>2. todo' \in Seq(Messages)
    BY <1>3, ActivationBuilt, TimerBuilt DEF OnActivate, OnHealthTimer, Begin
  <2>3. UNCHANGED <<dropWhenFull, queued, lastProduced, calls>>
    BY <2>1 DEF vars, config, history
  <2>4. QED
    BY <2>1, <2>2, <2>3 DEF Room, Late
<1>4. CASE Anew
  <2>1. /\ dropWhenFull' \in DropModes /\ queued' = 0 /\ lastProduced' = 0 /\ calls' = 0
        /\ sends' = <<>> /\ lost' = {}
    BY <1>4 DEF Anew, NewProducer
  <2>2. Room'
    BY <2>1, GisAssumption DEF GisAssumption, Room
  <2>3. todo' = <<>> /\ robots' \in Seq(Robots)
    BY <1>4, ListsTyped DEF Anew
  <2>4. QED
    BY <2>1, <2>2, <2>3
<1>5. CASE Idle
  <2>1. Histories'
    BY <1>5 DEF Idle, Late, fates
  <2>2. Room'
    <3>1. UNCHANGED <<dropWhenFull, queued, lastProduced>> \/ Runs \/ Send \/ NewProducer
      BY ProducerPart DEF StartBegin, StopBegin, vars, config, history
    <3>2. CASE NewProducer
      <4>1. dropWhenFull' \in DropModes /\ queued' = 0 /\ lastProduced' = 0
        BY <3>2 DEF NewProducer
      <4>2. QED
        BY <4>1, GisAssumption DEF GisAssumption, Room
    <3>3. QED
      BY <3>1, <3>2, SendRoom, RunsRoom DEF Room
  <2>3. QED
    BY <2>1, <2>2
<1>6. CASE OnConfigureFails
  <2>1. /\ robots' \in RobotLists \cup {<<>>}
        /\ UNCHANGED <<vars, todo, sends, lost>>
    BY <1>6 DEF OnConfigureFails, fates
  <2>2. UNCHANGED <<dropWhenFull, queued, lastProduced, calls>>
    BY <2>1 DEF vars, config, history
  <2>3. robots' \in Seq(Robots)
    <3>1. CASE robots' = <<>>
      BY <3>1
    <3>2. CASE robots' \in RobotLists
      BY <3>2, ListsTyped
    <3>3. QED
      BY <2>1, <3>1, <3>2
  <2>4. QED
    BY <2>1, <2>2, <2>3 DEF Room, Late
<1>7. QED
  BY <1>1, <1>2, <1>3, <1>4, <1>5, <1>6, Classified

Base == Inv /\ Room /\ Tasking /\ Histories

LEMMA BaseInit == GisInit => Base
<1> SUFFICES ASSUME GisInit PROVE Base
  OBVIOUS
<1>1. Init /\ Inv
  BY InvInit DEF GisInit
<1>2. Room
  BY <1>1, GisAssumption DEF Init, Room, GisAssumption
<1>3. Tasking
  BY DEF GisInit, Tasking, Tasks
<1>4. Histories
  BY <1>1, ListsTyped DEF GisInit, Init, Histories
<1>5. QED
  BY <1>1, <1>2, <1>3, <1>4 DEF Base

LEMMA BaseStutter == Base /\ UNCHANGED gisVars => Base'
<1> SUFFICES ASSUME Base, UNCHANGED gisVars PROVE Base'
  OBVIOUS
<1>1. Inv'
  BY ProducerStep DEF Base
<1>2. Tasking' /\ Histories'
  BY DEF Base, Tasking, Histories, Late, gisVars, vars, history, fates
<1>3. Room'
  BY DEF Base, Room, gisVars, vars, config, history
<1>4. QED
  BY <1>1, <1>2, <1>3 DEF Base

LEMMA BaseAlways == GisSpec => []Base
<1>1. Base /\ [GisNext]_gisVars => Base'
  BY BaseStutter, ProducerStep, TaskingStep, HistoriesStep DEF Base
<1>2. QED
  BY <1>1, BaseInit, PTL DEF GisSpec

\* With room for two messages of each robot no REGISTRATION of the first activation
\* after on_configure is dropped, in the retry buffer or in librdkafka.
THEOREM FirstRegistrationsNotDropped == GisSpec => []FirstRegistrationsKept
<1>1. Base => FirstRegistrationsKept
  <2> SUFFICES ASSUME Base, 2 * Len(robots) <= MaxQueueMessages,
                      MaxQueueMessages <= ClientQueue, NEW i \in lost
               PROVE  i > 2 * Len(robots)
    BY DEF FirstRegistrationsKept
  <2>1. i \in Nat /\ i > MaxQueueMessages /\ robots \in Seq(Robots)
    BY DEF Base, Histories, Late
  <2>2. MaxQueueMessages \in Nat
    BY ConfigAssumption DEF ConfigAssumption
  <2>3. QED
    BY <2>1, <2>2
<1>2. QED
  BY <1>1, BaseAlways, PTL

----------------------------------------------------------------------------
(* REGISTRATIONs come first *)

\* The message has a REGISTRATION of its robot before it.
Sent(robot) == \E i \in 1..Len(sends) : sends[i] = Registration(robot)
Planned(robot, n) == \E i \in 1..n : todo[i] = Registration(robot)

\* In the history and in the plan of the running task no PING comes first; once it has
\* been activated a node has announced all its robots.
Announced ==
  /\ \A k \in 1..Len(sends) : sends[k].kind = "PING" =>
       \E i \in 1..(k - 1) : sends[i] = Registration(sends[k].robot)
  /\ \A k \in 1..Len(todo) : todo[k].kind = "PING" =>
       Sent(todo[k].robot) \/ Planned(todo[k].robot, k - 1)
  /\ task = "activate" => \A k \in 1..Len(robots) :
       Sent(robots[k]) \/ Planned(robots[k], Len(todo))
  /\ state = "active" => \A k \in 1..Len(robots) : Sent(robots[k])

LEMMA SendAnnounces ==
  ASSUME Base, Announced, SendMessage PROVE Announced'
<1> DEFINE SentNext(robot) == \E i \in 1..Len(sends') : sends'[i] = Registration(robot)
           PlannedNext(robot, n) == \E i \in 1..n : todo'[i] = Registration(robot)
<1>1. /\ todo # <<>> /\ todo' = Tail(todo) /\ sends' = Append(sends, Head(todo))
      /\ UNCHANGED <<state, robots, task>>
  BY DEF SendMessage
<1>2. todo \in Seq(Messages) /\ sends \in Seq(Messages) /\ robots \in Seq(Robots)
  BY DEF Base, Histories
<1>3. /\ Len(todo) \in Nat /\ Len(todo) >= 1 /\ Len(todo') = Len(todo) - 1
      /\ Head(todo) = todo[1]
      /\ \A k \in 1..Len(todo') : k + 1 \in 1..Len(todo) /\ todo'[k] = todo[k + 1]
  BY <1>1, <1>2, HeadTailProperties, EmptySeq
<1>4. /\ Len(sends) \in Nat /\ Len(sends') = Len(sends) + 1
      /\ sends'[Len(sends) + 1] = todo[1]
      /\ \A k \in 1..Len(sends) : sends'[k] = sends[k]
  BY <1>1, <1>2, <1>3
<1>5. ASSUME NEW robot, Sent(robot) PROVE SentNext(robot)
  <2>1. PICK i \in 1..Len(sends) : sends[i] = Registration(robot)
    BY <1>5 DEF Sent
  <2>2. i \in 1..Len(sends') /\ sends'[i] = Registration(robot)
    BY <1>4, <2>1
  <2>3. QED
    BY <2>2
<1>6. ASSUME NEW robot, NEW n \in Nat, n <= Len(todo), Planned(robot, n)
      PROVE  SentNext(robot) \/ PlannedNext(robot, n - 1)
  <2>1. PICK i \in 1..n : todo[i] = Registration(robot)
    BY <1>6 DEF Planned
  <2>2. CASE i = 1
    <3>1. Len(sends) + 1 \in 1..Len(sends') /\ sends'[Len(sends) + 1] = Registration(robot)
      BY <1>4, <2>1, <2>2
    <3>2. QED
      BY <3>1
  <2>3. CASE i # 1
    <3>1. i - 1 \in 1..(n - 1) /\ i - 1 \in 1..Len(todo') /\ (i - 1) + 1 = i
      BY <1>3, <1>6, <2>3
    <3>2. todo'[i - 1] = Registration(robot)
      BY <1>3, <2>1, <3>1
    <3>3. QED
      BY <3>1, <3>2
  <2>4. QED
    BY <2>2, <2>3
<1>7. ASSUME NEW k \in 1..Len(sends'), sends'[k].kind = "PING"
      PROVE  \E i \in 1..(k - 1) : sends'[i] = Registration(sends'[k].robot)
  <2>1. CASE k \in 1..Len(sends)
    <3>1. sends'[k] = sends[k]
      BY <1>4, <2>1
    <3>2. PICK i \in 1..(k - 1) : sends[i] = Registration(sends[k].robot)
      BY <1>7, <2>1, <3>1 DEF Announced
    <3>3. i \in 1..Len(sends)
      BY <1>4, <2>1, <3>2
    <3>4. QED
      BY <1>4, <3>1, <3>2, <3>3
  <2>2. CASE k = Len(sends) + 1
    <3>1. sends'[k] = todo[1]
      BY <1>4, <2>2
    <3>2. Sent(todo[1].robot) \/ Planned(todo[1].robot, 0)
      BY <1>3, <1>7, <3>1 DEF Announced
    <3>3. PICK i \in 1..Len(sends) : sends[i] = Registration(todo[1].robot)
      BY <3>2 DEF Sent, Planned
    <3>4. i \in 1..(k - 1) /\ sends'[i] = sends[i]
      BY <1>4, <2>2, <3>3
    <3>5. QED
      BY <3>1, <3>3, <3>4
  <2>3. QED
    BY <1>4, <2>1, <2>2
<1>8. ASSUME NEW k \in 1..Len(todo'), todo'[k].kind = "PING"
      PROVE  SentNext(todo'[k].robot) \/ PlannedNext(todo'[k].robot, k - 1)
  <2>1. k + 1 \in 1..Len(todo) /\ todo'[k] = todo[k + 1] /\ (k + 1) - 1 = k /\ k \in Nat
        /\ k <= Len(todo)
    BY <1>3
  <2>2. Sent(todo[k + 1].robot) \/ Planned(todo[k + 1].robot, k)
    BY <1>8, <2>1 DEF Announced
  <2>3. QED
    BY <1>5, <1>6, <2>1, <2>2
<1>9. ASSUME task = "activate", NEW k \in 1..Len(robots)
      PROVE  SentNext(robots[k]) \/ PlannedNext(robots[k], Len(todo'))
  <2>1. Sent(robots[k]) \/ Planned(robots[k], Len(todo))
    BY <1>9 DEF Announced
  <2>2. QED
    BY <1>1, <1>3, <1>5, <1>6, <2>1
<1>10. ASSUME state = "active", NEW k \in 1..Len(robots) PROVE SentNext(robots[k])
  BY <1>1, <1>5, <1>10 DEF Announced
<1>11. QED
  BY <1>1, <1>7, <1>8, <1>9, <1>10 DEF Announced, Sent, Planned

LEMMA AnnouncedStep == Base /\ Announced /\ GisNext => Announced'
<1> SUFFICES ASSUME Base, Announced, GisNext PROVE Announced'
  OBVIOUS
<1>1. CASE SendMessage
  BY <1>1, SendAnnounces
<1>2. CASE ProducerRuns
  BY <1>2 DEF ProducerRuns, Announced, Sent, Planned
<1>3. CASE OnActivate
  <2>1. /\ state = "inactive" /\ task' = "activate" /\ todo' = ActivationMessages(robots)
        /\ UNCHANGED <<state, robots, sends>>
    BY <1>3 DEF OnActivate, Begin
  <2>2. /\ Len(todo') \in Nat
        /\ \A k \in 1..Len(robots) : \E h \in 1..Len(todo') :
             todo'[h] = Registration(robots[k])
        /\ \A i \in 1..Len(todo') : todo'[i].kind = "PING" =>
             \E h \in 1..(i - 1) : todo'[h] = Registration(todo'[i].robot)
    <3>1. robots \in Seq(Robots)
      BY DEF Base, Histories
    <3> DEFINE messages == ActivationMessages(robots)
    <3>2. /\ messages \in Seq(Messages) /\ Len(messages) = 2 * Len(robots)
          /\ \A k \in 1..Len(robots) : \E h \in 1..(2 * Len(robots)) :
               messages[h] = Registration(robots[k])
          /\ \A i \in 1..(2 * Len(robots)) : messages[i].kind = "PING" =>
               \E h \in 1..(i - 1) : messages[h] = Registration(messages[i].robot)
      BY <3>1, ActivationBuilt, Zenon
    <3>3. todo' = messages
      BY <2>1
    <3> HIDE DEF messages
    <3>4. Len(messages) \in Nat
      BY <3>2
    <3>5. QED
      BY <3>2, <3>3, <3>4
  <2>3. QED
    BY <2>1, <2>2 DEF Announced, Sent, Planned
<1>4. CASE OnHealthTimer
  <2>1. /\ state = "active" /\ task' = "ping" /\ todo' = TimerMessages(robots)
        /\ UNCHANGED <<state, robots, sends>>
    BY <1>4 DEF OnHealthTimer, Begin, Base, Tasking
  <2>2. /\ Len(todo') = Len(robots)
        /\ \A i \in 1..Len(todo') : todo'[i].robot = robots[i]
    BY <2>1, TimerBuilt DEF Base, Histories
  <2>3. QED
    BY <2>1, <2>2 DEF Announced, Sent, Planned
<1>5. CASE Anew
  <2>1. todo' = <<>> /\ sends' = <<>> /\ task' # "activate" /\ state' # "active"
    BY <1>5 DEF Anew, NewProducer
  <2>2. QED
    BY <2>1 DEF Announced
<1>6. CASE Idle
  <2>1. UNCHANGED <<robots, todo, sends>>
    BY <1>6 DEF Idle
  <2>2. CASE task' = "activate" => task = "activate"
    <3>1. CASE state' = "active" => state = "active"
      BY <2>1, <2>2, <3>1 DEF Announced, Sent, Planned
    <3>2. CASE state' = "active" /\ state # "active"
      <4>1. Activated /\ todo = <<>> /\ task = "activate" /\ task' = "none"
        BY <1>6, <3>2 DEF GisNext, Node, OnConfigureFails, OnConfigure, Start, Configured,
           OnActivate, Activated, OnDeactivate, OnCleanup, OnShutdown, Stopped, OnHealthTimer,
           Pinged, SendMessage, ProducerRuns, Relaunch, Begin, End, gisVars
      <4>2. \A k \in 1..Len(robots) : Sent(robots[k])
        BY <4>1 DEF Announced, Planned
      <4>3. QED
        BY <2>1, <4>1, <4>2 DEF Announced, Sent, Planned
    <3>3. QED
      BY <3>1, <3>2
  <2>3. CASE task' = "activate" /\ task # "activate"
    <3>1. OnActivate
      BY <2>3 DEF GisNext, Node, OnConfigureFails, OnConfigure, Start, Configured,
         OnActivate, Activated, OnDeactivate, OnCleanup, OnShutdown, Stopped, OnHealthTimer,
         Pinged, SendMessage, ProducerRuns, Relaunch, Begin, End, gisVars
    <3>2. QED
      BY <1>3, <3>1
  <2>4. QED
    BY <2>2, <2>3
<1>7. CASE OnConfigureFails
  <2>1. /\ todo = <<>> /\ todo' = <<>> /\ task' = "none" /\ state' = "unconfigured"
        /\ sends' = sends
    BY <1>7 DEF OnConfigureFails, Base, Tasking
  <2>2. QED
    BY <2>1 DEF Announced
<1>8. QED
  BY <1>1, <1>2, <1>3, <1>4, <1>5, <1>6, <1>7, Classified DEF Base

----------------------------------------------------------------------------
(* The answers *)

\* Outside the drain the producer's own steps answer no message.
LEMMA RunsCount ==
  ASSUME Runs, ~DrainRecord
  PROVE  UNCHANGED counters
BY Zenon DEF Runs, PollThread, StartCreate, StartSpawn, StopJoin, StopFinish, PollExit, PollCreate,
   PollDrain, DrainEnd, PollServe, PollWait, PollWake, ClientDelivers

LEMMA SameFates ==
  ASSUME Inv, UNCHANGED counters, NEW call, Answered(call)
  PROVE  UNCHANGED fates
<1>1. UNCHANGED <<sentOk, sendErrors, dropped>>
  BY DEF counters
<1>2. sentOk \in Nat /\ sendErrors \in Nat /\ dropped \in Nat
  BY DEF Inv, TypeOK
<1>3. ~(sentOk' > sentOk) /\ ~(sendErrors' > sendErrors) /\ ~(dropped' > dropped)
  BY <1>1, <1>2
<1>4. QED
  BY <1>3, Zenon DEF Answered, fates

Decided(call) == call \in taken \/ call \in refused \/ call \in lost
Waiting(call) == \E j \in 1..Len(pending) : pending[j] = call

\* Until stop() clears the buffer.
Alive == running \/ owner \in {"joining", "flushing"}

\* Every message is answered or waits until the producer is stopped, and what went to
\* librdkafka had no older one waiting.
Answers ==
  /\ \A k \in taken : k \in 1..calls /\ \A i \in 1..(k - 1) : Decided(i)
  /\ Alive => \A i \in 1..calls : Decided(i) \/ Waiting(i)
  /\ task = "configure" => calls = 0

\* A message is answered or begins to wait.
LEMMA SendAnswers ==
  ASSUME Base, Answers, SendMessage
  PROVE  Answers'
<1> DEFINE DecidedNext(call) == call \in taken' \/ call \in refused' \/ call \in lost'
           WaitingNext(call) == \E j \in 1..Len(pending') : pending'[j] = call
<1>1. /\ Called /\ Answered(calls') /\ task' = task /\ todo # <<>>
      /\ SendStopped \/ SendDirect \/ SendBuffered
  BY DEF SendMessage, Send, SendStopped, SendDirect, SendBuffered
<1>2. calls' = calls + 1 /\ owner \in SendPhases /\ MutexFree
  BY <1>1 DEF Called
<1>3. UNCHANGED running /\ UNCHANGED owner
  BY <1>1, Zenon DEF Called
<1>4. /\ calls \in Nat /\ Inv /\ pending \in Seq(1..SendLimit) /\ Len(pending) \in Nat
      /\ sentOk \in Nat /\ sendErrors \in Nat /\ dropped \in Nat
  BY Numbers DEF Base, Inv, TypeOK
<1>5. task' # "configure"
  BY <1>1 DEF Base, Tasking
<1>6. \A i : Decided(i) => DecidedNext(i)
  BY <1>1, Zenon DEF Answered, Decided
<1>7. ASSUME NEW k \in taken PROVE k \in 1..calls' /\ \A i \in 1..(k - 1) : DecidedNext(i)
  BY <1>2, <1>4, <1>6 DEF Answers
<1>8. CASE SendStopped
  <2>1. UNCHANGED counters /\ ~running
    BY <1>8, Zenon DEF SendStopped
  <2>2. taken' = taken
    BY <1>1, <1>4, <2>1, SameFates, Zenon DEF fates
  <2>3. ~Alive'
    BY <1>2, <1>3, <2>1, GisAssumption DEF Alive, GisAssumption
  <2>4. QED
    BY <1>5, <1>7, <2>2, <2>3 DEF Answers, Decided
<1>9. CASE SendBuffered
  <2>1. running /\ sentOk' = sentOk /\ sendErrors' = sendErrors
        /\ \/ dropped' = dropped + 1 /\ pending' = pending
           \/ pending' = Append(pending, calls + 1)
    BY <1>9 DEF SendBuffered
  <2>2. ~(sentOk' > sentOk)
    BY <1>4, <2>1
  <2>3. taken' = taken
    BY <1>1, <2>2, Zenon DEF Answered
  <2>4. DecidedNext(calls') \/ WaitingNext(calls')
    <3>1. CASE dropped' = dropped + 1
      <4>1. dropped' > dropped
        BY <1>4, <3>1
      <4>2. QED
        BY <1>1, <4>1, Zenon DEF Answered
    <3>2. CASE pending' = Append(pending, calls + 1)
      <4>1. Len(pending') = Len(pending) + 1 /\ pending'[Len(pending) + 1] = calls + 1
        BY <1>4, <3>2
      <4>2. Len(pending) + 1 \in 1..Len(pending')
        BY <1>4, <4>1
      <4>3. QED
        BY <1>2, <4>1, <4>2
    <3>3. QED
      BY <2>1, <3>1, <3>2
  <2>5. \A i : Waiting(i) => WaitingNext(i)
    <3>1. /\ Len(pending') \in Nat /\ Len(pending') >= Len(pending)
          /\ \A j \in 1..Len(pending) : pending'[j] = pending[j]
      BY <1>4, <2>1
    <3>2. QED
      BY <1>4, <3>1 DEF Waiting
  <2>6. ASSUME NEW i \in 1..calls' PROVE DecidedNext(i) \/ WaitingNext(i)
    <3>1. CASE i = calls'
      BY <2>4, <3>1
    <3>2. CASE i # calls'
      <4>1. i \in 1..calls
        BY <1>2, <1>4, <3>2
      <4>2. QED
        BY <1>6, <2>1, <2>5, <4>1 DEF Answers, Alive
    <3>3. QED
      BY <3>1, <3>2
  <2>7. QED
    BY <1>5, <1>7, <2>3, <2>6 DEF Answers, Decided, Waiting
<1>10. CASE SendDirect
  <2>1. running /\ producer /\ pending' = pending
    BY <1>10 DEF SendDirect
  <2>2. pending = <<>>
    BY <1>2, <2>1, GisAssumption DEF Base, Room, Inv, Fifo, MutexFree, GisAssumption
  <2>3. \A i \in 1..calls : Decided(i)
    BY <2>1, <2>2, EmptySeq DEF Answers, Alive, Waiting
  <2>4. DecidedNext(calls') /\ taken' \subseteq taken \cup {calls'}
    <3>1. PICK result \in Results : /\ TryProduceLocked(calls + 1, result)
                                    /\ dropped' = dropped + Count(result = "QUEUE_FULL")
      BY <1>10 DEF SendDirect
    <3>2. sentOk' > sentOk \/ sendErrors' > sendErrors \/ dropped' > dropped
      BY <1>4, <3>1 DEF TryProduceLocked, Results, Count
    <3>3. QED
      BY <1>1, <3>2, Zenon DEF Answered
  <2>5. ASSUME NEW i \in 1..calls' PROVE DecidedNext(i)
    <3>1. i = calls' \/ i \in 1..calls
      BY <1>2, <1>4
    <3>2. QED
      BY <1>6, <2>3, <2>4, <3>1
  <2>6. ASSUME NEW k \in taken' PROVE k \in 1..calls' /\ \A i \in 1..(k - 1) : DecidedNext(i)
    <3>1. CASE k \in taken
      BY <1>7, <3>1
    <3>2. CASE k = calls'
      <4>1. k \in 1..calls' /\ \A i \in 1..(k - 1) : i \in 1..calls'
        BY <1>2, <1>4, <3>2
      <4>2. QED
        BY <2>5, <4>1
    <3>3. QED
      BY <2>4, <3>1, <3>2
  <2>7. QED
    BY <1>5, <2>5, <2>6 DEF Answers, Decided
<1>11. QED
  BY <1>1, <1>8, <1>9, <1>10

\* The drain answers the oldest of those that wait: there is no older one.
LEMMA DrainAnswers ==
  ASSUME Base, Answers, DrainRecord, Answered(Head(pending)), task' = task
  PROVE  Answers'
<1> DEFINE head == pending[1]
           DecidedNext(call) == call \in taken' \/ call \in refused' \/ call \in lost'
           WaitingNext(call) == \E j \in 1..Len(pending') : pending'[j] = call
<1>1. poll = "drain" /\ pending # <<>>
  BY DEF DrainRecord
<1>2. UNCHANGED <<running, owner, calls>>
  BY DEF DrainRecord
<1>3. /\ calls \in Nat /\ Inv /\ pending \in Seq(1..SendLimit) /\ SendLimit \in Nat
      /\ sentOk \in Nat /\ sendErrors \in Nat /\ dropped \in Nat
      /\ dropWhenFull
  BY Numbers DEF Base, Inv, TypeOK, Room
<1>4. /\ Len(pending) \in Nat /\ Len(pending) >= 1 /\ Head(pending) = head
      /\ head \in Nat /\ head >= 1
  BY <1>1, <1>3
<1>5. Alive
  <2>1. owner \in OwnerPhases /\ poll # "none"
    BY <1>1, <1>3 DEF Inv, TypeOK
  <2>2. QED
    BY <1>3, <2>1 DEF Inv, Phases, StatusTruthful, Alive, OwnerPhases
<1>6. /\ \A j \in 1..Len(pending) : pending[j] \in Nat /\ pending[j] <= calls
      /\ \A j \in 2..Len(pending) : head < pending[j]
  BY <1>3, <1>4 DEF Inv, BufferSorted
<1>7. \A i : Decided(i) => DecidedNext(i)
  BY Zenon DEF Answered, Decided
<1>8. PICK result \in Results :
        /\ TryProduceLocked(Head(pending), result)
        /\ dropped' = dropped + Count(result = "QUEUE_FULL" /\ dropWhenFull)
        /\ IF result = "QUEUE_FULL" /\ ~dropWhenFull
           THEN poll' = "polling" /\ UNCHANGED pending
           ELSE pending' = Tail(pending) /\ UNCHANGED poll
  BY DEF DrainRecord
<1>9. pending' = Tail(pending)
  BY <1>3, <1>8
<1>10. DecidedNext(head) /\ taken' \subseteq taken \cup {head}
  <2>1. sentOk' > sentOk \/ sendErrors' > sendErrors \/ dropped' > dropped
    BY <1>3, <1>8 DEF TryProduceLocked, Results, Count
  <2>2. QED
    BY <1>4, <2>1, Zenon DEF Answered
<1>11. ASSUME NEW i, Waiting(i), i # head PROVE WaitingNext(i)
  <2>1. PICK j \in 1..Len(pending) : pending[j] = i
    BY <1>11 DEF Waiting
  <2>2. j # 1
    BY <1>11, <2>1
  <2>3. Len(pending') = Len(pending) - 1 /\ pending'[j - 1] = pending[j] /\ j - 1 \in 1..Len(pending')
    BY <1>1, <1>3, <1>4, <1>9, <2>1, <2>2
  <2>4. QED
    BY <2>1, <2>3
<1>12. ASSUME NEW i \in 1..(head - 1) PROVE Decided(i)
  <2>1. i \in 1..calls
    BY <1>3, <1>4, <1>6
  <2>2. ~Waiting(i)
    BY <1>4, <1>6 DEF Waiting
  <2>3. QED
    BY <1>5, <2>1, <2>2 DEF Answers
<1>13. ASSUME NEW i \in 1..calls PROVE DecidedNext(i) \/ WaitingNext(i)
  BY <1>5, <1>7, <1>10, <1>11 DEF Answers
<1>14. ASSUME NEW k \in taken' PROVE k \in 1..calls /\ \A i \in 1..(k - 1) : DecidedNext(i)
  <2>1. CASE k \in taken
    BY <1>7, <2>1 DEF Answers
  <2>2. CASE k = head
    BY <1>3, <1>4, <1>6, <1>7, <1>12, <2>2
  <2>3. QED
    BY <1>10, <2>1, <2>2
<1>15. task' = "configure" => calls' = 0
  BY <1>2 DEF Answers
<1>16. QED
  BY <1>2, <1>13, <1>14, <1>15 DEF Answers, Decided, Waiting

\* Where nothing is sent, answered or cleared.
LEMMA SameAnswers ==
  ASSUME Answers, UNCHANGED <<calls, fates>>,
         Alive' => (Alive /\ pending' = pending) \/ calls = 0,
         task' = "configure" => task = "configure" \/ calls = 0
  PROVE  Answers'
<1>1. calls' = calls /\ taken' = taken /\ refused' = refused /\ lost' = lost
  BY DEF fates
<1>2. CASE calls = 0
  BY <1>1, <1>2 DEF Answers, Decided
<1>3. CASE calls # 0
  BY <1>1, <1>3 DEF Answers, Decided, Waiting
<1>4. QED
  BY <1>2, <1>3

LEMMA AnswersStep == Base /\ Answers /\ [GisNext]_gisVars => Answers'
<1> SUFFICES ASSUME Base, Answers, [GisNext]_gisVars PROVE Answers'
  OBVIOUS
<1> USE DEF Begin, End
<1>1. CASE SendMessage
  BY <1>1, SendAnswers
<1>2. CASE ProducerRuns
  <2>1. Runs /\ Answered(Head(pending)) /\ task' = task /\ Inv
    BY <1>2 DEF ProducerRuns, Runs, Base
  <2>2. CASE DrainRecord
    BY <2>1, <2>2, DrainAnswers
  <2>3. CASE ~DrainRecord
    <3>1. UNCHANGED fates
      BY <2>1, <2>3, RunsCount, SameFates, Zenon
    <3>2. calls' = calls
      BY <2>1, RunsRoom DEF Base
    <3>3. Alive' => Alive /\ pending' = pending
      <4>1. CASE StartCreate \/ StartSpawn
        BY <2>1, <4>1 DEF StartCreate, StartSpawn, Inv, Phases, Alive
      <4>2. CASE StopJoin \/ StopFinish
        BY <2>1, <4>2 DEF StopJoin, StopFinish, Inv, Phases, Alive
      <4>3. CASE PollThread
        <5>1. UNCHANGED <<running, owner, pending>>
          BY <2>3, <4>3, Zenon DEF PollThread, PollExit, PollCreate, PollDrain, DrainEnd, PollServe,
             PollWait, PollWake
        <5>2. QED
          BY <5>1, Zenon DEF Alive
      <4>4. CASE ClientDelivers
        BY <4>4 DEF ClientDelivers, Alive
      <4>5. QED
        BY <2>1, <4>1, <4>2, <4>3, <4>4, Zenon DEF Runs
    <3>4. QED
      BY <2>1, <3>1, <3>2, <3>3, SameAnswers
  <2>4. QED
    BY <2>2, <2>3
<1>3. CASE OnConfigure \/ Relaunch
  <2>1. calls' = 0 /\ taken' = {}
    BY <1>3 DEF OnConfigure, Relaunch, NewProducer
  <2>2. QED
    BY <2>1 DEF Answers
<1>4. CASE Start
  <2>1. calls = 0 /\ UNCHANGED <<calls, fates>> /\ task' = "start"
    BY <1>4 DEF Start, StartBegin, Answers, history
  <2>2. QED
    BY <2>1, SameAnswers
<1>5. CASE OnCleanup \/ OnShutdown
  <2>1. UNCHANGED fates /\ task' # "configure" /\ (StopBegin \/ UNCHANGED vars)
    BY <1>5 DEF OnCleanup, OnShutdown
  <2>2. UNCHANGED <<calls, pending>>
    BY <2>1 DEF StopBegin, vars, history
  <2>3. Alive' => Alive
    BY <2>1 DEF StopBegin, vars, Alive
  <2>4. QED
    BY <2>1, <2>2, <2>3, SameAnswers
<1>6. CASE \/ OnConfigureFails \/ Configured \/ OnActivate \/ Activated \/ OnDeactivate \/ Stopped
           \/ OnHealthTimer \/ Pinged \/ UNCHANGED gisVars
  <2>1. UNCHANGED <<vars, fates>> /\ (task' = "configure" => task = "configure")
    BY <1>6 DEF OnConfigureFails, Configured, OnActivate, Activated, OnDeactivate, Stopped,
       OnHealthTimer, Pinged, gisVars
  <2>2. UNCHANGED <<calls, pending, running, owner>>
    BY <2>1 DEF vars, history
  <2>3. QED
    BY <2>1, <2>2, SameAnswers DEF Alive
<1>7. QED
  BY <1>1, <1>2, <1>3, <1>4, <1>5, <1>6 DEF GisNext, Node

\* When librdkafka takes a PING, each REGISTRATION of the robot that was sent before it,
\* and there is one, has been taken, refused or dropped: none waits to be overtaken, on
\* whatever side of an outage they were sent.
THEOREM RobotsAnnouncedFirst == GisSpec => []PingNeverFirst
<1>1. GisInit => Announced /\ Answers
  BY DEF GisInit, Init, Announced, Sent, Planned, Answers, Alive
<1>2. Base /\ Announced /\ [GisNext]_gisVars => Announced'
  <2>1. UNCHANGED gisVars /\ Announced => Announced'
    BY DEF gisVars, Announced, Sent, Planned
  <2>2. QED
    BY <2>1, AnnouncedStep
<1>3. Base /\ Announced /\ Answers => PingNeverFirst
  <2> SUFFICES ASSUME Base, Announced, Answers, NEW ping \in taken, sends[ping].kind = "PING"
               PROVE  LET earlier == {i \in 1..(ping - 1) :
                                        sends[i] = Registration(sends[ping].robot)} IN
                      earlier # {} /\ earlier \subseteq taken \cup refused \cup lost
    BY DEF PingNeverFirst
  <2>1. ping \in 1..Len(sends) /\ \A i \in 1..(ping - 1) : Decided(i)
    BY DEF Base, Histories, Answers
  <2>2. \E i \in 1..(ping - 1) : sends[i] = Registration(sends[ping].robot)
    BY <2>1 DEF Announced
  <2>3. QED
    BY <2>1, <2>2 DEF Decided
<1>4. QED
  BY <1>1, <1>2, <1>3, AnswersStep, BaseAlways, PTL DEF GisSpec

----------------------------------------------------------------------------
(* The promises of the producer, in the composition *)

\* Inside gis_health_node the producer accounts for each call of send(), reports the
\* client that there is, and never lets a message overtake one that waits.
THEOREM ProducerPromisesKept ==
  GisSpec => [](TypeOK /\ Conservation /\ ClientFollowsStatus /\ BufferSorted /\ NoOvertaking)
<1>1. Inv => TypeOK /\ Conservation /\ ClientFollowsStatus /\ BufferSorted /\ NoOvertaking
  <2>1. Inv => NoOvertaking
    BY DEF Inv, Fifo, NoOvertaking, MutexFree
  <2>2. Inv => PollHasClient /\ StatusTruthful
    BY DEF Inv, Phases
  <2>3. QED
    BY <2>1, <2>2 DEF Inv, ClientFollowsStatus
<1>2. QED
  BY <1>1, BaseAlways, PTL DEF Base

\* The node drives its producer as the module KafkaProducer lets an owner drive it: from
\* one on_configure or launch to the next, a behaviour of the composition is one of the
\* producer.
THEOREM ProducerDrivenAsSpecified == GisSpec => Init /\ [][Next \/ NewProducer]_vars
<1>1. [GisNext]_gisVars => [Next \/ NewProducer]_vars
  <2>1. Send \/ Runs \/ StartBegin \/ StopBegin => Next
    BY DEF Next, Owner, Runs
  <2>2. UNCHANGED gisVars => UNCHANGED vars
    BY DEF gisVars
  <2>3. QED
    BY <2>1, <2>2, ProducerPart
<1>2. GisInit => Init
  BY DEF GisInit
<1>3. QED
  BY <1>1, <1>2, PTL DEF GisSpec

----------------------------------------------------------------------------
(* The values of the node *)

Valued ==
  /\ state \in {"unconfigured", "inactive", "active", "finalized"}
  /\ robots \in RobotLists \cup {<<>>}
  /\ timer \in BOOLEAN

LEMMA ValuedStep == Valued /\ [GisNext]_gisVars => Valued'
<1> SUFFICES ASSUME Valued, [GisNext]_gisVars PROVE Valued'
  OBVIOUS
<1> USE DEF Valued, Begin, End
<1>1. CASE OnConfigureFails \/ OnConfigure \/ Start \/ Configured
  BY <1>1 DEF OnConfigureFails, OnConfigure, Start, Configured
<1>2. CASE OnActivate \/ Activated \/ OnDeactivate
  BY <1>2 DEF OnActivate, Activated, OnDeactivate
<1>3. CASE OnCleanup \/ OnShutdown \/ Stopped
  BY <1>3 DEF OnCleanup, OnShutdown, Stopped
<1>4. CASE OnHealthTimer \/ Pinged \/ SendMessage
  BY <1>4 DEF OnHealthTimer, Pinged, SendMessage
<1>5. CASE ProducerRuns \/ Relaunch \/ UNCHANGED gisVars
  BY <1>5 DEF ProducerRuns, Relaunch, gisVars
<1>6. QED
  BY <1>1, <1>2, <1>3, <1>4, <1>5 DEF GisNext, Node

Numbered == taken \cup refused \cup lost \subseteq 1..SendLimit

LEMMA NumberedStep == Base /\ Base' /\ Numbered /\ GisNext => Numbered'
<1> SUFFICES ASSUME Base, Base', Numbered, GisNext PROVE Numbered'
  OBVIOUS
<1> USE DEF Numbered
<1>1. SendLimit \in Nat /\ calls' \in 0..SendLimit /\ calls \in 0..SendLimit
      /\ pending \in Seq(1..SendLimit)
  BY ConfigAssumption DEF Base, Inv, TypeOK, ConfigAssumption
<1>2. CASE SendMessage
  <2>1. calls' = calls + 1
    BY <1>2, SendRoom DEF SendMessage, Base
  <2>2. calls' \in 1..SendLimit
    BY <1>1, <2>1
  <2>3. Answered(calls')
    BY <1>2 DEF SendMessage
  <2>4. QED
    BY <2>2, <2>3, Zenon DEF Answered
<1>3. CASE ProducerRuns
  <2>1. CASE DrainRecord
    <3>1. pending # <<>>
      BY <2>1 DEF DrainRecord
    <3>2. Head(pending) \in 1..SendLimit
      BY <1>1, <3>1
    <3>3. Answered(Head(pending))
      BY <1>3 DEF ProducerRuns
    <3>4. QED
      BY <3>2, <3>3, Zenon DEF Answered
  <2>2. CASE ~DrainRecord
    <3>1. UNCHANGED counters
      BY <1>3, <2>2, RunsCount DEF ProducerRuns, Runs
    <3>2. UNCHANGED fates
      BY <1>3, <3>1, SameFates DEF ProducerRuns, Base
    <3>3. QED
      BY <3>2 DEF fates
  <2>3. QED
    BY <2>1, <2>2
<1>4. CASE OnActivate \/ OnHealthTimer \/ OnConfigureFails
  BY <1>4 DEF OnActivate, OnHealthTimer, OnConfigureFails, fates
<1>5. CASE Anew \/ Idle
  BY <1>5 DEF Anew, NewProducer, Idle, fates
<1>6. QED
  BY <1>2, <1>3, <1>4, <1>5, Classified DEF Base

\* The node's variables keep their types; the node is in one of its tasks at a time.
THEOREM NodeTyped == GisSpec => []GisTypeOK
<1>1. GisInit => Valued /\ Numbered
  BY DEF GisInit, Valued, Numbered
<1>2. Base /\ Base' /\ Valued /\ Numbered /\ [GisNext]_gisVars => Valued' /\ Numbered'
  <2>1. UNCHANGED gisVars /\ Numbered => Numbered'
    BY DEF gisVars, fates, Numbered
  <2>2. QED
    BY <2>1, ValuedStep, NumberedStep
<1>3. Base /\ Valued /\ Numbered => GisTypeOK
  BY DEF Base, Tasking, Histories, Valued, Numbered, GisTypeOK
<1>4. QED
  BY <1>1, <1>2, <1>3, BaseAlways, PTL DEF GisSpec

----------------------------------------------------------------------------
(* The producer and the lifecycle *)

\* stop() has stopped the producer when on_cleanup waits for it.
Following == ProducerFollowsState /\ (task = "cleanup" => ~running)

LEMMA RunsKeep ==
  ASSUME Runs
  PROVE  /\ UNCHANGED unavailable
         /\ UNCHANGED running \/ owner = "starting"
         /\ \/ owner' \in {owner, "idle"}
            \/ owner = "starting" /\ owner' = "spawning"
            \/ owner = "joining" /\ owner' = "flushing"
<1>1. CASE StartCreate
  BY <1>1 DEF StartCreate, history
<1>2. CASE StartSpawn \/ StopJoin \/ StopFinish
  BY <1>2 DEF StartSpawn, StopJoin, StopFinish, history
<1>3. CASE PollThread
  BY <1>3, Zenon DEF PollThread, PollExit, PollCreate, PollDrain, DrainRecord, DrainEnd, PollServe,
     PollWait, PollWake, history
<1>4. CASE ClientDelivers
  BY <1>4 DEF ClientDelivers, history
<1>5. QED
  BY <1>1, <1>2, <1>3, <1>4, Zenon DEF Runs

LEMMA FollowingStep == Base /\ Following /\ GisNext => Following'
<1> SUFFICES ASSUME Base, Following, GisNext PROVE Following'
  OBVIOUS
<1> USE DEF Following, ProducerFollowsState, Begin, End
<1>0. /\ owner \in OwnerPhases /\ Tasking
      /\ owner \notin {"starting", "spawning", "joining", "flushing"} => owner = "idle"
  BY DEF Base, Inv, TypeOK, OwnerPhases
<1>1. CASE SendMessage
  <2>1. /\ todo # <<>> /\ Send
        /\ UNCHANGED <<state, task>>
    BY <1>1 DEF SendMessage
  <2>2. running /\ owner = "idle" /\ ~SendStopped
    BY <2>1 DEF SendStopped
  <2>3. UNCHANGED <<running, owner, unavailable>>
    BY <2>1, <2>2, Zenon DEF Send, SendDirect, SendBuffered, Called
  <2>4. QED
    BY <2>1, <2>2, <2>3
<1>2. CASE ProducerRuns
  <2>1. Runs /\ UNCHANGED <<state, task, todo>>
    BY <1>2 DEF ProducerRuns, Runs
  <2>2. owner = "starting" => task = "start" /\ todo = <<>>
    BY <1>0 DEF Tasking
  <2>3. QED
    BY <2>1, <2>2, RunsKeep
<1>3. CASE OnConfigure \/ Relaunch
  <2>1. ~running' /\ owner' = "idle" /\ unavailable' = 0 /\ todo' = <<>>
    BY <1>3 DEF OnConfigure, Relaunch, NewProducer
  <2>2. state' = "unconfigured" /\ task' \in {"none", "configure"}
    BY <1>3 DEF OnConfigure, Relaunch
  <2>3. QED
    BY <2>1, <2>2
<1>4. CASE Start
  BY <1>0, <1>4 DEF Start, StartBegin, Tasking, history
<1>5. CASE Configured
  BY <1>0, <1>5 DEF Configured, Tasking, vars, history
<1>6. CASE OnActivate \/ OnHealthTimer
  <2>1. running /\ owner = "idle"
    BY <1>0, <1>6 DEF OnActivate, OnHealthTimer, Tasking
  <2>2. UNCHANGED <<vars, state>> /\ task' \in {"activate", "ping"}
    BY <1>6 DEF OnActivate, OnHealthTimer
  <2>3. task = "none"
    BY <1>6 DEF OnActivate, OnHealthTimer
  <2>4. UNCHANGED <<running, owner, unavailable>>
    BY <2>2 DEF vars, history
  <2>5. QED
    BY <2>1, <2>2, <2>3, <2>4
<1>7. CASE Activated \/ OnDeactivate \/ Pinged
  <2>1. /\ UNCHANGED <<vars, todo>> /\ task' = "none" /\ task \in {"none", "activate", "ping"}
        /\ state' \in {"active", "inactive", "finalized", state}
        /\ state' \in {"active", "inactive"} => state \in {"active", "inactive"}
        /\ state' = "unconfigured" => state = "unconfigured"
    BY <1>0, <1>7 DEF Activated, OnDeactivate, Pinged, Tasking
  <2>2. UNCHANGED <<running, owner, unavailable>>
    BY <2>1 DEF vars, history
  <2>3. QED
    BY <2>1, <2>2
<1>8. CASE OnCleanup \/ OnShutdown
  <2>1. task = "none" /\ task' \in {"cleanup", "shutdown"} /\ todo' = <<>> /\ UNCHANGED unavailable
    BY <1>8 DEF OnCleanup, OnShutdown, StopBegin, vars, history
  <2>2. owner = "idle"
    BY <1>0, <2>1
  <2>3. owner' \in {"idle", "joining"}
    BY <1>8, <2>2 DEF OnCleanup, OnShutdown, StopBegin, vars
  <2>4. task' = "cleanup" => ~running'
    BY <1>8 DEF OnCleanup, OnShutdown, StopBegin
  <2>5. QED
    BY <2>1, <2>3, <2>4
<1>9. CASE Stopped \/ OnConfigureFails
  <2>1. /\ UNCHANGED <<vars, todo>> /\ task' = "none" /\ owner = "idle" /\ todo = <<>>
        /\ state' \in {"unconfigured", "finalized"}
    BY <1>0, <1>9 DEF Stopped, OnConfigureFails, Tasking
  <2>2. state' = "unconfigured" => ~running
    BY <1>9 DEF Stopped, OnConfigureFails
  <2>3. UNCHANGED <<running, owner, unavailable>>
    BY <2>1 DEF vars, history
  <2>4. QED
    BY <2>1, <2>2, <2>3
<1>10. QED
  BY <1>1, <1>2, <1>3, <1>4, <1>5, <1>6, <1>7, <1>8, <1>9 DEF GisNext, Node

\* The producer runs just while the node is configured: every REGISTRATION and PING
\* finds it running, and none is answered PRODUCER_UNAVAILABLE.
THEOREM SendsFindTheProducer == GisSpec => []ProducerFollowsState
<1>1. GisInit => Following
  BY DEF GisInit, Init, Following, ProducerFollowsState
<1>2. Base /\ Following /\ [GisNext]_gisVars => Following'
  <2>1. UNCHANGED gisVars /\ Following => Following'
    BY DEF gisVars, vars, history, Following, ProducerFollowsState
  <2>2. QED
    BY <2>1, FollowingStep
<1>3. Following => ProducerFollowsState
  BY DEF Following
<1>4. QED
  BY <1>1, <1>2, <1>3, BaseAlways, PTL DEF GisSpec
=============================================================================
