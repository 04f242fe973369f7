----------------------- MODULE DispatcherController -----------------------
(***************************************************************************)
(* The control plane: dispatcher_controller, the two lifecycle sinks it    *)
(* drives, the component container it loads topic_tools into, and the      *)
(* introspection manager it asks for topics.                               *)
(*                                                                         *)
(* Every service handler, the parameter callback and the startup timer     *)
(* hold mutex_ from beginning to end, so at most one "request" is under    *)
(* way.  What it does not hold still is the rest of the system: each call  *)
(* of another node is a step of its own, the node may be gone when it is   *)
(* called, it may refuse, and a call given up after service_timeout_ may   *)
(* still be executed later.                                                *)
(*                                                                         *)
(* A selection is a sequence of entries [topic, tool]; the topics of a     *)
(* plan are determined by it, so the selection also stands for the value   *)
(* of a sink's subscriptions_yaml.  The empty selection is "none".         *)
(***************************************************************************)
EXTENDS Integers, Sequences, FiniteSets

CONSTANTS
  Topics,                \* ROS topics
  NoName,                \* the empty name, which an entry may have in place of a topic
  Gui, File, All,        \* selections the GUI sends, the file holds, discovery finds
  MaxTopics,             \* all_mode_max_topics
  StartMode,             \* selection_mode when the node is launched
  MosquittoEnabled,      \* mosquitto_sink_node_name is not empty
  AllowMissing,          \* allow_missing_sinks
  ValidateTopics,        \* validate_topics
  DisableIntrospection,  \* disable_introspection_after_apply
  Requests,              \* bound of the model: the requests that are made
  Faults, FaultLimit,    \* bound of the model: what goes wrong, and how often
  ToolIds                \* unique ids the container hands out

Entries == [topic : Topics, tool : BOOLEAN]
Selections == Gui \cup File \cup All \cup {<<>>}

ASSUME ConstantsAssumption ==
  /\ Selections \subseteq Seq(Entries)
  /\ MaxTopics \in Nat
  /\ StartMode \in {"gui", "file", "all"}
  /\ {MosquittoEnabled, AllowMissing, ValidateTopics, DisableIntrospection}
       \subseteq BOOLEAN
  /\ Faults \subseteq {"timeout", "crash", "unreachable", "reject"}
  /\ FaultLimit \in Nat
  /\ ToolIds \subseteq Nat \ {0}

Sinks == IF MosquittoEnabled THEN {"kafka", "mosquitto"} ELSE {"kafka"}
Servers == Sinks \cup {"container", "introspection"}
Modes == {"gui", "file", "all"}
Applying == {"apply", "reload", "mode", "param", "startup"}
Transitions == {"configure", "activate", "deactivate"}

VARIABLES
  phase, lastError,  \* phase_; last_error_ is not empty
  mode, path,        \* selection_mode_; selection_file_path_ is not empty
  cache,             \* last_gui_selection_
  applied,           \* applied_selection_
  active,            \* active_topic_tools_: input topic -> unique id
  startup,           \* startup_apply_timer_ is armed
  request,           \* the handler that holds mutex_
  argument,          \* its flag: reset_cached, or the parameter call clears the path
  stage, sink,       \* the call it makes next, and to which sink
  selection, todo,   \* what it applies, and what is left of the current loop
  up,                \* servers whose services can be reached
  state, subs, streamed,  \* of each sink: lifecycle state, subscriptions_yaml,
                          \* and the selection it is subscribed to
  loaded,            \* ids of the components in the container
  introspecting,     \* introspection_enabled of the introspection manager
  lateSink, lateTool,\* requests that were given up and may still be executed
  faults,            \* bound of the model: faults so far
  clean,             \* history: since the request began no other actor has changed
                     \* anything, and no call that it skipped has timed out
  orphans,           \* history: ids of components whose LoadNode timed out
  stale              \* history: ids that the controller has from a container that ended

memory == <<mode, path, cache, applied, startup>>
outcome == <<phase, lastError>>
handler == <<request, argument, stage, sink, selection, todo, clean>>
sinks == <<state, subs, streamed>>
tools == <<active, loaded, orphans, stale>>
late == <<lateSink, lateTool>>
vars == <<memory, outcome, handler, sinks, tools, late, up, introspecting, faults>>

\* Requests that were given up, numbered in the order they were sent.
SinkRequests == [to : Sinks, do : Transitions \cup {"params"}, subs : Selections,
                 n : Nat]
ToolRequests == [do : {"load", "unload"}, id : ToolIds \cup {0}, n : Nat]

TypeOK ==
  /\ phase \in {"IDLE", "BUSY", "ERROR"} /\ lastError \in BOOLEAN
  /\ mode \in Modes /\ path \in BOOLEAN
  /\ cache \in Selections /\ applied \in Selections
  /\ DOMAIN active \subseteq Topics /\ active \in [DOMAIN active -> ToolIds]
  /\ startup \in BOOLEAN
  /\ request \in Applying \cup {"stop", "none"} /\ argument \in BOOLEAN
  /\ stage \in Transitions \cup
       {"idle", "state", "confirm", "clear", "load", "params", "finish"}
  /\ sink \in Sinks
  /\ selection \in Selections
  /\ todo \subseteq Topics \cup Nat
  /\ up \in [Servers -> BOOLEAN]
  /\ state \in [Sinks -> {"unconfigured", "inactive", "active", "finalized"}]
  /\ subs \in [Sinks -> Selections] /\ streamed \in [Sinks -> Selections]
  /\ loaded \subseteq ToolIds /\ orphans \subseteq ToolIds
  /\ stale \subseteq ToolIds \ loaded
  /\ introspecting \in BOOLEAN
  /\ lateSink \subseteq SinkRequests /\ lateTool \subseteq ToolRequests
  /\ faults \in 0..FaultLimit
  /\ clean \in BOOLEAN

Init ==
  /\ phase = "IDLE" /\ lastError = FALSE
  /\ mode = StartMode /\ path \in BOOLEAN
  /\ cache = <<>> /\ applied = <<>>
  /\ active = <<>>
  /\ startup \in {FALSE, mode = "file" /\ path}
  /\ request = "none" /\ argument = FALSE
  /\ stage = "idle" /\ sink = "kafka" /\ selection = <<>> /\ todo = {}
  /\ up = [s \in Servers |-> TRUE]
  /\ state = [s \in Sinks |-> "unconfigured"]
  /\ subs = [s \in Sinks |-> <<>>] /\ streamed = [s \in Sinks |-> <<>>]
  /\ loaded = {} /\ orphans = {} /\ stale = {}
  /\ introspecting = TRUE
  /\ lateSink = {} /\ lateTool = {}
  /\ faults = 0
  /\ clean = TRUE

----------------------------------------------------------------------------
(* Helpers *)

Stopping == request = "stop"

\* A fault of this kind happens now.
Fault(kind) ==
  /\ kind \in Faults
  /\ faults < FaultLimit
  /\ faults' = faults + 1

\* No reply from a server: its service is not there, or the call times out.
NoService(s) == ~up[s] /\ UNCHANGED faults
TimedOut(s) == up[s] /\ Fault("timeout")
Unanswered(s) == NoService(s) \/ TimedOut(s)

\* The handlers that store the message of a failure in last_error_; for the
\* mode service and the parameter callback it is in the reply only.
Reporting == {"apply", "reload", "startup", "stop"}

\* The handler returns and releases mutex_.
Return ==
  /\ request' = "none" /\ argument' = FALSE
  /\ stage' = "idle" /\ sink' = "kafka" /\ selection' = <<>> /\ todo' = {}
  /\ clean' = TRUE

\* Mutant of Fail: the phase stays BUSY.
FailStaysBusy ==
  /\ Return
  /\ UNCHANGED phase
  /\ lastError' = (lastError \/ request \in Reporting)

Fail ==
  /\ Return
  /\ phase' = "ERROR"
  /\ lastError' = (lastError \/ request \in Reporting)

\* The handler goes on with another call, after a timeout less sure than before.
Goto(next, s, work) ==
  /\ stage' = next /\ sink' = s /\ todo' = work
  /\ clean' = (clean /\ faults' = faults)
  /\ UNCHANGED <<request, argument, selection, outcome>>

\* build_topic_tools_plan() finds a name in each entry.
HasPlan(sel) == \A i \in DOMAIN sel : sel[i].topic # NoName

\* The entries of a selection that go through a tool, by their position.
PlanTools(sel) == {i \in DOMAIN sel : sel[i].tool}

\* Mutant of Ready: the tools of the selection are left as they are.
ReadyNoTools == Goto("params", sink, {})

\* A sink can take the new subscriptions; before those of Kafka come the tools.
Ready ==
  IF sink = "kafka" THEN Goto("clear", sink, DOMAIN active)
                    ELSE Goto("params", sink, {})

\* Mutant of Resume: an unconfigured sink is not configured.
ResumeNoConfigure == Ready

\* A sink that is not active gets its subscriptions, once it is configured.
Resume ==
  IF state[sink] = "unconfigured" THEN Goto("configure", sink, {}) ELSE Ready

\* Mutant of SinkDone: a stop forgets the second sink.
SinkDoneKafkaOnly ==
  IF Stopping THEN Goto("clear", sink, DOMAIN active)
  ELSE IF sink = "kafka" /\ MosquittoEnabled THEN Goto("state", "mosquitto", {})
  ELSE Goto("finish", sink, {})

\* This sink is done, in an apply as in a stop.
SinkDone ==
  IF sink = "kafka" /\ MosquittoEnabled THEN Goto("state", "mosquitto", {})
  ELSE IF Stopping THEN Goto("clear", sink, DOMAIN active)
  ELSE Goto("finish", sink, {})

----------------------------------------------------------------------------
(* The sinks and the container, as the controller's calls meet them *)

\* The state from which a transition starts.
From == [configure |-> "unconfigured", activate |-> "inactive", deactivate |-> "active"]
Legal(t, s) == state[s] = From[t]

\* change_state succeeds: on activation the sink subscribes to what its
\* parameter says, on deactivation it drops all subscriptions.
Succeed(t, s) ==
  /\ Legal(t, s)
  /\ state' = [state EXCEPT ![s] = IF t = "activate" THEN "active" ELSE "inactive"]
  /\ streamed' = [streamed EXCEPT ![s] = IF t = "activate" THEN subs[s] ELSE <<>>]

\* ... or not: from the wrong state, by a failing callback, or, when
\* on_activate throws, by ending in FINALIZED, streaming already or not yet.
\* on_deactivate cannot fail.
Refuse(t, s) ==
  \/ ~Legal(t, s) /\ UNCHANGED <<state, streamed, faults>>
  \/ Legal(t, s) /\ t # "deactivate" /\ Fault("reject") /\ UNCHANGED <<state, streamed>>
  \/ /\ Legal(t, s) /\ t = "activate" /\ Fault("reject")
     /\ state' = [state EXCEPT ![s] = "finalized"]
     /\ streamed' \in {streamed, [streamed EXCEPT ![s] = subs[s]]}

\* Mutant of AcceptSubscriptions: the sink takes the parameter while ACTIVE.
AcceptWhileActive(s, sel) == subs' = [subs EXCEPT ![s] = sel]

\* on_parameters_set of a sink: "deactivate first".
AcceptSubscriptions(s, sel) ==
  /\ state[s] # "active"
  /\ subs' = [subs EXCEPT ![s] = sel]

\* A request is executed after all the earlier ones to the same service.
Served(s, service, n) ==
  \A r \in lateSink : r.to = s /\ r.do \in service => n <= r.n

\* A request whose reply did not come in time is lost, or executed later.
GiveUp(r) == lateSink' \in {lateSink, lateSink \cup {r}}
GiveUpTool(r) == lateTool' \in {lateTool, lateTool \cup {r}}

\* The container counts its components, and begins again when it is restarted.  Its
\* next id is one that nobody knows, the smallest of them standing for all; or one that
\* the controller has from a container that ended.
FreshIds ==
  LET known == {active[t] : t \in DOMAIN active} \cup {r.id : r \in lateTool} IN
  ToolIds \ (loaded \cup (known \ stale))
NextIds == {id \in FreshIds : id \in stale \/ \A other \in FreshIds \ stale : id <= other}

----------------------------------------------------------------------------
(* Beginning of a request: up to the point where phase_ becomes BUSY *)

Idle(r) == request = "none" /\ phase # "BUSY" /\ r \in Requests

\* Refused before anything was applied: phase_ stays as it is.
Reject(r) ==
  /\ Return
  /\ lastError' = (lastError \/ r \in Reporting)
  /\ UNCHANGED phase

Reply == Return /\ UNCHANGED outcome

\* apply_selection() begins; it refuses an empty selection.
Start(r, sel, flag) ==
  IF sel = <<>>
  THEN /\ Return
       /\ phase' = "ERROR"
       /\ lastError' = (lastError \/ r \in Reporting)
  ELSE /\ phase' = "BUSY"
       /\ request' = r /\ argument' = flag /\ selection' = sel
       /\ stage' = "state" /\ sink' = "kafka" /\ todo' = {}
       /\ clean' = TRUE
       /\ UNCHANGED lastError

\* What the source of a mode yields; file says that a path is at hand.
Yield(m, file) ==
  {sel \in Selections :
     \/ m = "gui" /\ sel = cache /\ sel # <<>>
     \/ m = "file" /\ file /\ sel \in File /\ HasPlan(sel)
     \/ m = "all" /\ up["introspection"] /\ sel \in All /\ Len(sel) <= MaxTopics}

\* Getting a selection, and applying it when asked to.  It may fail for reasons of
\* its own: unreadable file, no types, no plan, no answer.
Obtain(r, m, file, flag, now) ==
  /\ introspecting' \in IF m = "all" /\ up["introspection"]
                         THEN {introspecting, TRUE} ELSE {introspecting}
  /\ \/ m # "gui" /\ Reject(r)
     \/ \E sel \in Yield(m, file) :
          IF Len(sel) > MaxTopics THEN Reject(r)
          ELSE IF now THEN Start(r, sel, flag)
          ELSE Reply
  /\ UNCHANGED <<cache, applied, sinks, tools, late, up, faults>>

\* handle_apply_selection, in gui mode; in another mode it only says so.
ApplySelection ==
  /\ Idle("apply")
  /\ mode = "gui"
  /\ \/ Reject("apply")
     \/ \E sel \in Gui :
          IF Len(sel) > MaxTopics THEN Reject("apply") ELSE Start("apply", sel, FALSE)
  /\ UNCHANGED <<memory, sinks, tools, late, up, introspecting, faults>>

\* handle_reload_selection.
ReloadSelection ==
  /\ Idle("reload")
  /\ \E given, now \in BOOLEAN : Obtain("reload", mode, path \/ given, FALSE, now)
  /\ UNCHANGED <<mode, path, startup>>

\* switch_mode(), for set_selection_mode and for the parameter selection_mode:
\* the mode and a path are stored before anything can fail.  An empty path is none
\* in the service; in the parameter call it clears the path, once the switch is done.
SwitchMode(r) ==
  /\ Idle(r)
  /\ \E m \in Modes, given, cleared, now \in BOOLEAN :
       /\ cleared => r = "param" /\ ~given
       /\ mode' = m
       /\ \/ /\ now => m = "gui" /\ cache = <<>>
             /\ Reply
             /\ path' = ((path \/ given) /\ ~cleared)
             /\ UNCHANGED <<cache, introspecting, applied, sinks, tools, late, up, faults>>
          \/ /\ now /\ (m = "gui" => cache # <<>>)
             /\ Obtain(r, m, path \/ given, cleared, TRUE)
             /\ path' = (path \/ given)
  /\ UNCHANGED startup

StartupApply ==
  /\ Idle("startup")
  /\ startup
  /\ startup' = FALSE
  /\ IF mode = "file" /\ path THEN Obtain("startup", "file", TRUE, FALSE, TRUE)
     ELSE UNCHANGED <<cache, applied, outcome, handler, sinks, tools, late, up,
                      introspecting, faults>>
  /\ UNCHANGED <<mode, path>>

\* handle_stop_streaming: phase_ does not become BUSY.
StopStreaming ==
  /\ Idle("stop")
  /\ request' = "stop" /\ argument' \in BOOLEAN
  /\ stage' = "state" /\ sink' = "kafka"
  /\ clean' = TRUE
  /\ UNCHANGED <<selection, todo, memory, outcome, sinks, tools, late, up,
                 introspecting, faults>>

Begin ==
  \/ ApplySelection \/ ReloadSelection \/ SwitchMode("mode") \/ SwitchMode("param")
  \/ StartupApply \/ StopStreaming

----------------------------------------------------------------------------
(* The calls of a sink: get_state, change_state, set_parameters *)

\* An apply has the state of the Kafka sink, and plans its tools.
Planning == stage = "state" /\ sink = "kafka" /\ ~Stopping

\* get_sink_state() answers; validate_topics and the plan may still refuse the selection.
ReadState ==
  /\ stage \in {"state", "confirm"}
  /\ UNCHANGED <<memory, sinks, tools, late, up, introspecting, faults>>
  /\ up[sink]
  /\ \/ /\ Planning => HasPlan(selection)
        /\ IF stage = "state" /\ state[sink] = "active" THEN Goto("deactivate", sink, {})
           ELSE IF Stopping THEN SinkDone
           ELSE Resume
     \/ Planning /\ (ValidateTopics \/ ~HasPlan(selection)) /\ Fail

\* Mutant of StateUnknown: it waits for the service without a time limit.
StateUnknownWaits ==
  /\ stage \in {"state", "confirm"}
  /\ TimedOut(sink)
  /\ IF AllowMissing /\ stage = "state" /\ (Stopping \/ sink = "mosquitto")
     THEN SinkDone ELSE Fail
  /\ UNCHANGED <<memory, sinks, tools, late, up, introspecting>>

\* It does not: a sink may be skipped, except the Kafka sink in an apply, and
\* except after its deactivation.
StateUnknown ==
  /\ stage \in {"state", "confirm"}
  /\ Unanswered(sink)
  /\ IF AllowMissing /\ stage = "state" /\ (Stopping \/ sink = "mosquitto")
     THEN SinkDone ELSE Fail
  /\ UNCHANGED <<memory, sinks, tools, late, up, introspecting>>

ChangeState ==
  /\ stage \in Transitions
  /\ up[sink]
  /\ Served(sink, Transitions, faults + 1)
  /\ \/ /\ Succeed(stage, sink)
        /\ UNCHANGED faults
        /\ IF stage = "configure" THEN Ready
           ELSE IF stage = "deactivate" /\ ~Stopping THEN Goto("confirm", sink, {})
           ELSE SinkDone
     \/ Refuse(stage, sink) /\ Fail
  /\ UNCHANGED <<subs, memory, tools, late, up, introspecting>>

ChangeStateUnanswered ==
  /\ stage \in Transitions
  /\ \/ NoService(sink) /\ UNCHANGED lateSink
     \/ TimedOut(sink) /\ GiveUp([to |-> sink, do |-> stage, subs |-> <<>>, n |-> faults])
  /\ Fail
  /\ UNCHANGED <<memory, sinks, tools, lateTool, up, introspecting>>

SetSubscriptions ==
  /\ stage = "params"
  /\ up[sink]
  /\ Served(sink, {"params"}, faults + 1)
  /\ \/ /\ AcceptSubscriptions(sink, selection)
        /\ UNCHANGED faults
        /\ Goto("activate", sink, {})
     \/ /\ \/ state[sink] = "active" /\ UNCHANGED faults
           \/ Fault("reject")
        /\ Fail
        /\ UNCHANGED subs
  /\ UNCHANGED <<state, streamed, memory, tools, late, up, introspecting>>

\* Without the parameter service a sink that may be missing is activated with
\* whatever subscriptions it has.
SetSubscriptionsUnanswered ==
  /\ stage = "params"
  /\ \/ /\ NoService(sink)
        /\ IF AllowMissing THEN Goto("activate", sink, {}) ELSE Fail
        /\ UNCHANGED lateSink
     \/ /\ TimedOut(sink)
        /\ Fail
        /\ GiveUp([to |-> sink, do |-> "params", subs |-> selection,
                     n |-> faults])
  /\ UNCHANGED <<memory, sinks, tools, lateTool, up, introspecting>>

----------------------------------------------------------------------------
(* The calls of the container: reconcile_topic_tools() *)

\* deactivate_and_unload_tool(): the entry stays in active_topic_tools_ until
\* the whole loop is through.
UnloadTool ==
  /\ stage = "clear"
  /\ UNCHANGED <<active, stale, memory, sinks, late, up, introspecting, faults>>
  /\ up["container"]
  /\ \E t \in todo :
       IF active[t] \in loaded
       THEN /\ loaded' = loaded \ {active[t]}
            /\ orphans' = orphans \ {active[t]}
            /\ Goto("clear", sink, todo \ {t})
       ELSE Fail /\ UNCHANGED <<loaded, orphans>>

\* Mutant of UnloadUnanswered: the tools are forgotten on failure.
UnloadForgets ==
  /\ stage = "clear"
  /\ \E t \in todo :
       \/ NoService("container") /\ UNCHANGED lateTool
       \/ TimedOut("container") /\ GiveUpTool([do |-> "unload", id |-> active[t],
                                                        n |-> faults])
  /\ Fail
  /\ active' = <<>>
  /\ UNCHANGED <<memory, sinks, loaded, orphans, stale, lateSink, up, introspecting>>

UnloadUnanswered ==
  /\ stage = "clear"
  /\ \E t \in todo :
       \/ NoService("container") /\ UNCHANGED lateTool
       \/ TimedOut("container") /\ GiveUpTool([do |-> "unload", id |-> active[t],
                                                        n |-> faults])
  /\ Fail
  /\ UNCHANGED <<memory, sinks, tools, lateSink, up, introspecting>>

\* Mutant of ClearDone: the map is not cleared after the loop.
ClearDoneKeeps ==
  /\ stage = "clear"
  /\ UNCHANGED <<tools, memory, sinks, late, up, introspecting, faults>>
  /\ todo = {}
  /\ IF Stopping THEN Goto("finish", sink, {}) ELSE Goto("load", sink, PlanTools(selection))

\* Mutant of ClearDone: the ids are set to 0 and the entries stay.
ClearDoneZeroes ==
  /\ stage = "clear"
  /\ UNCHANGED <<loaded, orphans, stale, memory, sinks, late, up, introspecting, faults>>
  /\ todo = {}
  /\ active' = [t \in DOMAIN active |-> 0]
  /\ IF Stopping THEN Goto("finish", sink, {}) ELSE Goto("load", sink, PlanTools(selection))

\* Unloading is over; in an apply the tools of the new selection follow.
ClearDone ==
  /\ stage = "clear"
  /\ UNCHANGED <<loaded, orphans, memory, sinks, late, up, introspecting, faults>>
  /\ todo = {}
  /\ active' = <<>> /\ stale' = {}
  /\ IF Stopping THEN Goto("finish", sink, {}) ELSE Goto("load", sink, PlanTools(selection))

\* The first tool left to load.
NextTool == CHOOSE i \in todo : \A j \in todo : i <= j

\* load_and_activate_topic_tool(): an entry for the same input is overwritten.
LoadTool ==
  /\ stage = "load"
  /\ UNCHANGED <<orphans, memory, sinks, late, up, introspecting>>
  /\ up["container"]
  /\ todo # {}
  /\ LET t == selection[NextTool].topic IN
     \/ /\ \E id \in NextIds :
             /\ loaded' = loaded \cup {id} /\ stale' = stale \ {id}
             /\ active' = [u \in DOMAIN active \cup {t} |->
                             IF u = t THEN id ELSE active[u]]
        /\ UNCHANGED faults
        /\ Goto("load", sink, todo \ {NextTool})
     \/ Fault("reject") /\ Fail /\ UNCHANGED <<loaded, stale, active>>

LoadUnanswered ==
  /\ stage = "load"
  /\ todo # {}
  /\ \/ NoService("container") /\ UNCHANGED lateTool
     \/ TimedOut("container") /\ GiveUpTool([do |-> "load", id |-> 0, n |-> faults])
  /\ Fail
  /\ UNCHANGED <<memory, sinks, tools, lateSink, up, introspecting>>

LoadDone ==
  /\ stage = "load"
  /\ UNCHANGED <<memory, sinks, tools, late, up, introspecting, faults>>
  /\ todo = {}
  /\ Goto("params", sink, {})

\* The request has succeeded.  Switching introspection off is best effort.
Finish ==
  /\ stage = "finish"
  /\ Return
  /\ phase' = "IDLE"
  /\ applied' = selection
  /\ cache' = IF request = "apply" THEN selection
              ELSE IF Stopping /\ argument THEN <<>>
              ELSE cache
  /\ path' = (path /\ ~(request = "param" /\ argument))
  /\ introspecting' \in IF ~Stopping /\ DisableIntrospection /\ up["introspection"]
                         THEN {FALSE, introspecting} ELSE {introspecting}
  /\ UNCHANGED <<lastError, mode, startup, sinks, tools, late, up, faults>>

Continue ==
  \/ ReadState \/ StateUnknown \/ ChangeState \/ ChangeStateUnanswered
  \/ SetSubscriptions \/ SetSubscriptionsUnanswered
  \/ UnloadTool \/ UnloadUnanswered \/ ClearDone
  \/ LoadTool \/ LoadUnanswered \/ LoadDone \/ Finish

----------------------------------------------------------------------------
(* The rest of the system *)

Interferes == clean' = (request = "none")

\* A server cannot be reached any more; when its process ended, what it kept
\* is gone too.
ServerLost(s) ==
  /\ up[s]
  /\ up' = [up EXCEPT ![s] = FALSE]
  /\ Interferes
  /\ \/ /\ Fault("unreachable")
        /\ UNCHANGED <<sinks, loaded, orphans, stale, late, introspecting>>
     \/ /\ Fault("crash")
        /\ IF s \in Sinks
           THEN /\ state' = [state EXCEPT ![s] = "unconfigured"]
                /\ subs' = [subs EXCEPT ![s] = <<>>]
                /\ streamed' = [streamed EXCEPT ![s] = <<>>]
                /\ lateSink' = {r \in lateSink : r.to # s}
           ELSE UNCHANGED <<sinks, lateSink>>
        /\ IF s = "container"
           THEN /\ loaded' = {} /\ orphans' = {} /\ lateTool' = {}
                /\ stale' = {active[t] : t \in DOMAIN active}
           ELSE UNCHANGED <<loaded, orphans, stale, lateTool>>
        /\ introspecting' = (introspecting \/ s = "introspection")
  /\ UNCHANGED <<active, memory, outcome, request, argument, stage, sink, selection, todo>>

ServerReturns(s) ==
  /\ ~up[s]
  /\ up' = [up EXCEPT ![s] = TRUE]
  /\ Interferes
  /\ UNCHANGED <<memory, outcome, request, argument, stage, sink, selection, todo, sinks,
                 tools, late, introspecting, faults>>

\* A request the controller has given up is executed after all.
LateAtSink(r) ==
  /\ r \in lateSink
  /\ up[r.to]
  /\ lateSink' = lateSink \ {r}
  /\ Interferes
  /\ \/ /\ r.do = "params"
        /\ Served(r.to, {"params"}, r.n)
        /\ AcceptSubscriptions(r.to, r.subs) \/ (state[r.to] = "active" /\ UNCHANGED subs)
        /\ UNCHANGED <<state, streamed, faults>>
     \/ /\ r.do \in Transitions
        /\ Served(r.to, Transitions, r.n)
        /\ (Succeed(r.do, r.to) /\ UNCHANGED faults) \/ Refuse(r.do, r.to)
        /\ UNCHANGED subs
  /\ UNCHANGED <<memory, outcome, request, argument, stage, sink, selection, todo, tools,
                 lateTool, up, introspecting>>

LateAtContainer(r) ==
  /\ r \in lateTool
  /\ up["container"]
  /\ lateTool' = lateTool \ {r}
  /\ Interferes
  /\ \/ /\ r.do = "unload"
        /\ loaded' = loaded \ {r.id} /\ orphans' = orphans \ {r.id}
        /\ UNCHANGED stale
     \/ /\ r.do = "load"
        /\ \E id \in NextIds :
             /\ loaded' = loaded \cup {id} /\ orphans' = orphans \cup {id}
             /\ stale' = stale \ {id}
  /\ UNCHANGED <<active, memory, outcome, request, argument, stage, sink, selection, todo,
                 sinks, lateSink, up, introspecting, faults>>

World ==
  \/ \E s \in Servers : ServerLost(s) \/ ServerReturns(s)
  \/ \E r \in lateSink : LateAtSink(r)
  \/ \E r \in lateTool : LateAtContainer(r)

----------------------------------------------------------------------------

Next == Begin \/ Continue \/ World

Spec == Init /\ [][Next]_vars

\* A handler goes on: its calls return within service_timeout_, since a request
\* that is received is answered, and one that is not runs into the timeout.
HandlersRun ==
  /\ WF_vars(Continue)
  /\ WF_vars(\E r \in lateSink : LateAtSink(r))
  /\ WF_vars(\E r \in lateTool : LateAtContainer(r))

\* Servers come back, and users try again: of the attempts they make, those that get
\* as far as apply_selection() with a selection that has a plan, and those that
\* validate_topics lets pass, are not all but finitely many.
UsersRetry ==
  /\ \A s \in Servers : WF_vars(ServerReturns(s))
  /\ SF_vars(ApplySelection /\ request' = "apply" /\ HasPlan(selection'))
  /\ SF_vars(ReloadSelection /\ request' = "reload")
  /\ SF_vars(ReadState /\ Planning /\ request' # "none")

FairSpec == Spec /\ HandlersRun

----------------------------------------------------------------------------
(* Safety *)

\* The phase is BUSY exactly while an apply holds mutex_.  Whoever gets mutex_
\* later, get_status included, never sees it: no path leaves it behind.
BusyOnlyInside == phase = "BUSY" <=> request \in Applying

\* A sink that is ACTIVE is subscribed to what its parameter says, and one that has
\* still to become so to nothing, whatever was given up, lost or executed late.
ActiveStreamsParameter ==
  \A s \in Sinks :
    /\ state[s] = "active" => streamed[s] = subs[s]
    /\ state[s] \in {"unconfigured", "inactive"} => streamed[s] = <<>>

\* The controller never makes a call that a healthy sink must refuse: it knows
\* the state of the sink when it asks for a transition or sets the parameter.
CallsAreLegal ==
  clean /\ state[sink] # "finalized" =>
    /\ stage \in Transitions => Legal(stage, sink)
    /\ stage = "params" => state[sink] # "active"

\* Undisturbed, an apply exchanges the tools while the Kafka sink is not ACTIVE, and a
\* stop takes them away while neither sink is.  In an apply the MQTT sink may be ACTIVE:
\* its turn comes later (AllSinksQuiet).
ToolsChangeQuietly ==
  clean /\ stage \in {"clear", "load"} =>
    \A s \in (IF Stopping THEN Sinks ELSE {"kafka"}) : up[s] => state[s] # "active"

\* Undisturbed, each call comes in the order in which no healthy sink has to refuse it,
\* and tools are exchanged while the Kafka sink, in a stop both sinks, are not ACTIVE.
OrderlySwitch == CallsAreLegal /\ ToolsChangeQuietly

\* When an apply is about to succeed, Kafka streams the new selection with all
\* its tools in place, and so does the other sink if it is there.
SuccessMeansStreaming ==
  clean /\ stage = "finish" /\ ~Stopping =>
    /\ state["kafka"] = "active"
    /\ \A s \in Sinks : up[s] => streamed[s] = selection
    /\ \A i \in PlanTools(selection) :
         selection[i].topic \in DOMAIN active /\ active[selection[i].topic] \in loaded

\* When a stop is about to succeed, no sink that can be reached streams anything,
\* except one that on_activate has left FINALIZED and streaming; and no tool that the
\* controller loaded is left in the container.
SuccessMeansStopped ==
  clean /\ stage = "finish" /\ Stopping =>
    /\ \A s \in Sinks : up[s] /\ state[s] # "finalized" => streamed[s] = <<>>
    /\ active = <<>>

\* A request that reports success has done what it reports, in an apply and in a stop.
SuccessMeansDone == SuccessMeansStreaming /\ SuccessMeansStopped

\* If no selection uses two tools for one topic, the controller keeps track of
\* every component it loaded, through every failure, except for those whose
\* LoadNode call it had given up.
ToolsTracked ==
  (\A sel \in Selections : \A i, j \in PlanTools(sel) :
     sel[i].topic = sel[j].topic => i = j)
    => loaded \subseteq orphans \cup {active[t] : t \in DOMAIN active}

\* The controller counts on no more of a sink than the contract that sinks keep:
\* what it and the world do to one, however late, are steps of the contract.
Contract(s) == INSTANCE SinkContract WITH
  state <- state[s], subs <- subs[s], streamed <- streamed[s]

ContractStep == \A s \in Sinks : [Contract(s)!Next]_(Contract(s)!vars)
SinksKeepContract == (\A s \in Sinks : Contract(s)!Init) /\ [][ContractStep]_vars

----------------------------------------------------------------------------
(* Liveness *)

\* A request gets its reply, so mutex_ is released, whatever the servers do.
HandlerReturns == request # "none" ~> request = "none"

\* What HandlerReturns rests on.  A bound on the calls a handler still makes: of
\* each sink those from this stage on, and of the container one for each tool
\* that is left to unload and each entry that is left to load.
SinkCalls ==
  CASE stage = "state" -> 8 [] stage = "deactivate" -> 7 [] stage = "confirm" -> 6
    [] stage = "configure" -> 5 [] stage = "clear" -> 4 [] stage = "load" -> 3
    [] stage = "params" -> 2 [] stage = "activate" -> 1 [] OTHER -> 0

ToolCalls ==
  CASE stage = "clear" -> Cardinality(todo) + Len(selection)
    [] stage = "load" -> Cardinality(todo)
    [] stage \in {"state", "deactivate", "confirm", "configure"} ->
         IF sink = "kafka" \/ Stopping
         THEN Cardinality(DOMAIN active) + Len(selection) ELSE 0
    [] OTHER -> 0

CallsLeft == (IF sink = "kafka" THEN 9 ELSE 0) + SinkCalls + ToolCalls

\* However a call ends, the handler returns or has fewer left to make; nobody else
\* gives it more; and it begins with as many as the tools, old and new, account for.
HandlerAdvances ==
  /\ CallsLeft \in Nat
  /\ Continue => request' = "none" \/ CallsLeft' < CallsLeft
  /\ World => request' = request /\ CallsLeft' = CallsLeft
  /\ request = "none" /\ request' # "none" =>
       CallsLeft' = 17 + Cardinality(DOMAIN active) + Len(selection')
HandlerBounded == [][HandlerAdvances]_vars

\* Users get what they ask for, again and again.
Applies == []<>(phase = "IDLE" /\ applied # <<>> /\ streamed["kafka"] = applied)

\* After the last fault users who try again do, unless the controller has an entry for a
\* component that is gone, for ever: of all that failures leave behind, sinks half
\* switched and late calls included, this is the one thing that no retry gets past.
RetrySucceeds ==
  UsersRetry => Applies \/ <>[](\E t \in DOMAIN active : active[t] \notin loaded)

----------------------------------------------------------------------------
(* What the documentation says *)

\* node_description.md: "The system supports full topic selection changes at
\* runtime without restarting any node."
ChangesWithoutRestart == UsersRetry => Applies

\* node_description.md: "On each apply cycle, `dispatcher_controller`: 1. Calls
\* `deactivate` on all active sinks."  Only then it "unloads previous `topic_tools`
\* plugin components and loads new ones".
AllSinksQuiet ==
  clean /\ stage \in {"clear", "load"} => \A s \in Sinks : up[s] => state[s] # "active"
=============================================================================
