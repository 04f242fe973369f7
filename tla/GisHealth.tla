----------------------------- MODULE GisHealth -----------------------------
(***************************************************************************)
(* gis_health_node composed with the KafkaProducer that it owns: the       *)
(* lifecycle node that announces each robot with a REGISTRATION when it is *)
(* activated and sends a PING for each one then and with every tick of its *)
(* timer.                                                                  *)
(*                                                                         *)
(* Callbacks and timer share the default, mutually exclusive group, so one *)
(* task runs at a time; the poll thread of the producer and librdkafka run *)
(* beside it.  Every on_configure makes a new KafkaProducer, with the      *)
(* default configuration but for the startup mode; the node alone sends    *)
(* with it, and never inside start() or stop().  What the answers of send()*)
(* say is only logged.                                                     *)
(***************************************************************************)
EXTENDS KafkaProducer

CONSTANTS
  Robots,      \* ids of robots
  RobotLists   \* values of gis.robot_list that load_parameters() accepts

ASSUME GisAssumption ==
  /\ RobotLists \subseteq Seq(Robots) \ {<<>>}
  /\ DropModes = {TRUE}
  /\ SendPhases = {"idle"}

Messages == [kind : {"REGISTRATION", "PING"}, robot : Robots]
Registration(robot) == [kind |-> "REGISTRATION", robot |-> robot]
Ping(robot) == [kind |-> "PING", robot |-> robot]

VARIABLES
  state,    \* lifecycle state
  robots,   \* parameters_.robot_list
  timer,    \* health_timer_ is set
  task,     \* the callback that is running
  todo,     \* the messages that it has yet to send
  sends,    \* history: the messages of the producer's send() calls
  taken,    \* history: those of the calls whose message librdkafka took
  refused,  \* history: those whose message it answered with an error
  lost      \* history: those for which there was no room

fates == <<taken, refused, lost>>
gisVars == <<vars, state, robots, timer, task, todo, sends, fates>>

Tasks == {"none", "configure", "start", "activate", "ping", "cleanup", "shutdown"}

GisInit ==
  /\ Init
  /\ state = "unconfigured" /\ robots \in RobotLists /\ timer = FALSE
  /\ task = "none" /\ todo = <<>>
  /\ sends = <<>> /\ taken = {} /\ refused = {} /\ lost = {}

----------------------------------------------------------------------------
(* Helpers *)

\* Mutant of ActivationMessages: the PING comes first.
ActivationPingsFirst(list) ==
  [i \in 1..(2 * Len(list)) |->
     IF i % 2 = 0 THEN Registration(list[i \div 2]) ELSE Ping(list[(i + 1) \div 2])]

\* For each robot a REGISTRATION, then a PING.
ActivationMessages(list) ==
  [i \in 1..(2 * Len(list)) |->
     IF i % 2 = 1 THEN Registration(list[(i + 1) \div 2]) ELSE Ping(list[i \div 2])]

TimerMessages(list) == [i \in 1..Len(list) |-> Ping(list[i])]

\* A KafkaProducer is made; Init of the module KafkaProducer.
NewProducer ==
  /\ dropWhenFull' \in DropModes /\ strict' \in StrictModes
  /\ running' = FALSE /\ status' = "STOPPED"
  /\ producer' = FALSE /\ pending' = <<>>
  /\ sentOk' = 0 /\ dropped' = 0 /\ sendErrors' = 0
  /\ owner' = "idle" /\ poll' = "none"
  /\ queued' = 0
  /\ calls' = 0 /\ unavailable' = 0 /\ discarded' = 0 /\ lastProduced' = 0
  /\ sends' = <<>> /\ taken' = {} /\ refused' = {} /\ lost' = {}

\* The message of this call has been answered, now or when its turn in the retry buffer
\* came; or it has not, and waits there.
Answered(call) ==
  /\ taken' = IF sentOk' > sentOk THEN taken \cup {call} ELSE taken
  /\ refused' = IF sendErrors' > sendErrors THEN refused \cup {call} ELSE refused
  /\ lost' = IF dropped' > dropped THEN lost \cup {call} ELSE lost

\* A task begins, with these messages to send.
Begin(name, messages) ==
  /\ task = "none"
  /\ task' = name
  /\ todo' = messages

\* A task has sent its messages and ends in a lifecycle state.
End(name, next) ==
  /\ task = name /\ todo = <<>>
  /\ task' = "none"
  /\ state' = next
  /\ UNCHANGED todo

----------------------------------------------------------------------------
(* Lifecycle callbacks *)

\* load_parameters() stores the parameters and refuses them: UNCONFIGURED, without a
\* producer.
OnConfigureFails ==
  /\ task = "none" /\ state = "unconfigured"
  /\ robots' \in RobotLists \cup {<<>>}
  /\ UNCHANGED <<vars, state, timer, task, todo, sends, fates>>

\* load_parameters(), and the new object in start_producer().
OnConfigure ==
  /\ state = "unconfigured"
  /\ Begin("configure", <<>>)
  /\ robots' \in RobotLists
  /\ NewProducer
  /\ UNCHANGED <<state, timer>>

\* start() begins.
Start ==
  /\ task = "configure"
  /\ StartBegin
  /\ task' = "start"
  /\ UNCHANGED <<state, robots, timer, todo, sends, fates>>

\* start() has returned; one that fails is reset at once.
Configured ==
  /\ owner = "idle"
  /\ End("start", IF running THEN "inactive" ELSE "unconfigured")
  /\ UNCHANGED <<vars, robots, timer, sends, fates>>

OnActivate ==
  /\ state = "inactive"
  /\ calls + 2 * Len(robots) <= SendLimit
  /\ Begin("activate", ActivationMessages(robots))
  /\ UNCHANGED <<vars, state, robots, timer, sends, fates>>

\* The messages are sent; create_wall_timer() throws at a period of centuries, which
\* load_parameters() accepts, and leaves the producer running.
Activated ==
  /\ \/ End("activate", "active") /\ timer' = TRUE
     \/ End("activate", "finalized") /\ UNCHANGED timer
  /\ UNCHANGED <<vars, robots, sends, fates>>

\* The producer stays, with what waits in it.
OnDeactivate ==
  /\ task = "none" /\ state = "active"
  /\ state' = "inactive"
  /\ timer' = FALSE
  /\ UNCHANGED <<vars, robots, task, todo, sends, fates>>

\* on_cleanup up to the join in stop().
OnCleanup ==
  /\ state = "inactive"
  /\ Begin("cleanup", <<>>)
  /\ StopBegin
  /\ UNCHANGED <<state, robots, timer, sends, fates>>

\* on_shutdown up to the join in stop(), for which there is a producer or not.
OnShutdown ==
  /\ state \in {"unconfigured", "inactive", "active"}
  /\ Begin("shutdown", <<>>)
  /\ timer' = FALSE
  /\ IF running THEN StopBegin ELSE UNCHANGED vars
  /\ UNCHANGED <<state, robots, sends, fates>>

\* stop() has returned.
Stopped ==
  /\ owner = "idle"
  /\ End("cleanup", "unconfigured") \/ End("shutdown", "finalized")
  /\ UNCHANGED <<vars, robots, timer, sends, fates>>

OnHealthTimer ==
  /\ timer
  /\ calls + Len(robots) <= SendLimit
  /\ Begin("ping", TimerMessages(robots))
  /\ UNCHANGED <<vars, state, robots, timer, sends, fates>>

Pinged ==
  /\ End("ping", state)
  /\ UNCHANGED <<vars, robots, timer, sends, fates>>

\* send_registration_for(), send_ping_for()
SendMessage ==
  /\ todo # <<>>
  /\ Send
  /\ todo' = Tail(todo)
  /\ sends' = Append(sends, Head(todo))
  /\ Answered(calls')
  /\ UNCHANGED <<state, robots, timer, task>>

Node ==
  \/ OnConfigureFails \/ OnConfigure \/ Start \/ Configured \/ OnActivate \/ Activated
  \/ OnDeactivate \/ OnCleanup \/ OnShutdown \/ Stopped \/ OnHealthTimer \/ Pinged
  \/ SendMessage

----------------------------------------------------------------------------
(* The producer *)

\* What goes on in start() and stop(), in the poll thread and in librdkafka.
ProducerRuns ==
  /\ StartCreate \/ StartSpawn \/ StopJoin \/ StopFinish \/ PollThread \/ ClientDelivers
  /\ Answered(Head(pending))
  /\ UNCHANGED <<state, robots, timer, task, todo, sends>>

\* The process ends, wherever it is, and somebody launches it again.
Relaunch ==
  /\ NewProducer
  /\ state' = "unconfigured" /\ robots' \in RobotLists /\ timer' = FALSE
  /\ task' = "none" /\ todo' = <<>>

GisNext == Node \/ ProducerRuns \/ Relaunch

GisSpec == GisInit /\ [][GisNext]_gisVars

----------------------------------------------------------------------------
(* Safety *)

\* When librdkafka takes a PING, every REGISTRATION that was sent for the robot before
\* it, and there is one, has met its fate: librdkafka has taken it earlier, has refused
\* it, or there was no room for it (the node only logs those two).  None is still
\* waiting to be overtaken, however the broker comes and goes.
PingNeverFirst ==
  \A ping \in taken : sends[ping].kind = "PING" =>
    LET earlier == {i \in 1..(ping - 1) : sends[i] = Registration(sends[ping].robot)} IN
    earlier # {} /\ earlier \subseteq taken \cup refused \cup lost

\* Nothing repeats a REGISTRATION before the next activation.  Of the first one after
\* on_configure none is dropped for want of room, neither in the retry buffer nor in
\* librdkafka, however long there is no broker, if the buffer has room for two messages
\* of each robot.
FirstRegistrationsKept ==
  2 * Len(robots) <= MaxQueueMessages /\ MaxQueueMessages <= ClientQueue =>
    \A i \in lost : i > 2 * Len(robots)

\* The values of the node's own variables.
GisTypeOK ==
  /\ state \in {"unconfigured", "inactive", "active", "finalized"}
  /\ robots \in RobotLists \cup {<<>>}
  /\ timer \in BOOLEAN
  /\ task \in Tasks
  /\ todo \in Seq(Messages) /\ sends \in Seq(Messages)
  /\ taken \cup refused \cup lost \subseteq 1..SendLimit

\* The producer runs when the node is configured and at no time before: start() and
\* stop() are inside the callbacks.  (A failed activation ends in FINALIZED and leaves it
\* running.)  So every message finds it running and none is answered
\* PRODUCER_UNAVAILABLE.
ProducerFollowsState ==
  /\ owner \in {"starting", "spawning"} => task = "start"
  /\ owner \in {"joining", "flushing"} => task \in {"cleanup", "shutdown"}
  /\ task \in {"none", "activate", "ping"} =>
       /\ state \in {"inactive", "active"} => running
       /\ state = "unconfigured" => ~running
  /\ todo # <<>> => running /\ owner = "idle"
  /\ unavailable = 0
=============================================================================
