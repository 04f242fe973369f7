------------------------ MODULE IntrospectionManager ------------------------
(***************************************************************************)
(* introspection_manager: a node that keeps a list of the topics in the    *)
(* ROS graph, serves it (get_topics) and publishes it when it changes.     *)
(*                                                                         *)
(* Two threads run update_topics(): the monitor, which waits for rclcpp's  *)
(* graph event, and the parameter callback, when filter_hidden is set.  It *)
(* takes a mutex for active_topics_ only, so that each access to the lists *)
(* is an action of its own.  The callback and the service are in the       *)
(* node's mutually exclusive group; the callback joins the monitor when    *)
(* introspection is disabled.                                              *)
(*                                                                         *)
(* The event belongs to rclcpp: a change of the graph triggers a guard     *)
(* condition, and the thread of the graph listener then sets the events    *)
(* that somebody holds.  The node holds one at a time.                     *)
(*                                                                         *)
(* A topic stands for the topic with its types.                            *)
(***************************************************************************)
EXTENDS Integers, Sequences

CONSTANTS
  Topics,      \* topics that may be in the graph
  Hidden,      \* those of which a part of the name starts with "_"
  Batches,     \* the parameters that are set in one call: sequences of Settings
  ChangeLimit  \* bound of the model: how often the graph changes

Parameters == {"publish_on_change", "filter_hidden", "introspection_enabled"}
Settings == [name : Parameters, value : BOOLEAN]

ASSUME IntrospectionAssumption ==
  /\ Hidden \subseteq Topics
  /\ Batches \subseteq Seq(Settings)
  /\ ChangeLimit \in Nat

Updaters == {"monitor", "callback"}
Steps == {"idle", "read", "compare", "store", "publish", "save"}

VARIABLES
  graph,      \* the topics in the ROS graph
  version,    \* history: how often it has changed
  triggered,  \* the guard condition of the graph is triggered
  listening,  \* the graph listener knows the node
  ok,         \* rclcpp::ok()
  publishing, \* publish_on_change_
  filtering,  \* filter_hidden_
  run,        \* run_graph_monitor_
  event,      \* graph_event_ is set
  thread,     \* what the monitor thread does next; "none": it is not joinable
  callback,   \* what the parameter callback or the destructor does next
  todo,       \* the settings it has yet to look at
  at,         \* where each thread is in update_topics()
  found,      \* topics_and_types in update_topics()
  changed,    \* changed in update_topics()
  active,     \* active_topics_
  previous,   \* previous_topics_
  published,  \* the topics in the last message, or of the start
  sole,       \* history: whether an update has been alone since its begin
  torn,       \* history: two updates overlapped, and none has been alone since
  untold      \* history: subscribers may have missed a change

graphVars == <<graph, version, triggered, listening>>
flags == <<ok, publishing, filtering>>
lists == <<active, previous, published>>
updating == <<at, found, changed>>
history == <<sole, torn, untold>>
vars == <<graphVars, flags, run, event, thread, callback, todo, updating, lists, history>>

\* A list of topics, with the version of the graph that it was read from.
Lists == [topics : SUBSET Topics, version : Nat]
NoList == [topics |-> {}, version |-> 0]

\* With the place of each thread in update_topics() goes the place of its caller.
TypeOK ==
  /\ graph \subseteq Topics /\ version \in Nat
  /\ triggered \in BOOLEAN /\ listening \in BOOLEAN
  /\ ok \in BOOLEAN /\ publishing \in BOOLEAN /\ filtering \in BOOLEAN
  /\ run \in BOOLEAN /\ event \in BOOLEAN
  /\ thread \in {"none", "check", "wait", "clear", "update", "register", "exited"}
  /\ callback \in {"idle", "next", "update", "join", "destroy", "gone"}
  /\ todo \in Seq(Settings)
  /\ at \in [Updaters -> Steps]
  /\ at["monitor"] # "idle" <=> thread = "update"
  /\ at["callback"] # "idle" <=> callback = "update"
  /\ found \in [Updaters -> Lists]
  /\ changed \in [Updaters -> BOOLEAN]
  /\ active \in Lists /\ previous \subseteq Topics /\ published \subseteq Topics
  /\ sole \in [Updaters -> BOOLEAN] /\ torn \in BOOLEAN /\ untold \in BOOLEAN

----------------------------------------------------------------------------
(* Helpers *)

\* filter_hidden_topics() of what is in the graph.
Visible(hide) == IF hide THEN graph \ Hidden ELSE graph

\* What get_topic_names_and_types() and the filter return now.
Snapshot(hide) == [topics |-> Visible(hide), version |-> version]

\* The other thread that may run update_topics().
Other(u) == IF u = "monitor" THEN "callback" ELSE "monitor"

Idle == \A u \in Updaters : at[u] = "idle"

\* The monitor is started, with an event of its own.
StartMonitor ==
  /\ run' = TRUE
  /\ event' = FALSE
  /\ listening' = TRUE
  /\ thread' = "check"

\* The constructor: the list is read before there is an event.  Nothing is
\* published; that a subscriber knows the list of the start is a convention.
Construct(enabled) ==
  /\ ok' = TRUE
  /\ publishing' \in BOOLEAN /\ filtering' \in BOOLEAN
  /\ active' = Snapshot(filtering')
  /\ previous' = active'.topics /\ published' = active'.topics
  /\ callback' = "idle" /\ todo' = <<>>
  /\ at' = [u \in Updaters |-> "idle"]
  /\ found' = [u \in Updaters |-> NoList]
  /\ changed' = [u \in Updaters |-> FALSE]
  /\ sole' = [u \in Updaters |-> TRUE] /\ torn' = FALSE /\ untold' = FALSE
  /\ IF enabled THEN StartMonitor
     ELSE run' = FALSE /\ event' = FALSE /\ listening' = FALSE /\ thread' = "none"

\* Before the first launch.
Init ==
  /\ graph \in SUBSET Topics /\ version = 0 /\ triggered = FALSE /\ listening = FALSE
  /\ ok = FALSE /\ publishing = FALSE /\ filtering = FALSE
  /\ run = FALSE /\ event = FALSE /\ thread = "none"
  /\ callback = "gone" /\ todo = <<>>
  /\ at = [u \in Updaters |-> "idle"]
  /\ found = [u \in Updaters |-> NoList]
  /\ changed = [u \in Updaters |-> FALSE]
  /\ active = NoList /\ previous = {} /\ published = {}
  /\ sole = [u \in Updaters |-> TRUE] /\ torn = FALSE /\ untold = FALSE

----------------------------------------------------------------------------
(* The graph and its listener *)

\* A topic, or a type of one, appears or goes.
GraphChanges ==
  /\ version < ChangeLimit
  /\ graph' \in SUBSET Topics /\ graph' # graph
  /\ version' = version + 1
  /\ triggered' = TRUE
  /\ UNCHANGED <<listening, flags, run, event, thread, callback, todo, updating, lists, history>>

\* notify_graph_change(): the event that the node holds now is set.
Notify ==
  /\ triggered /\ listening
  /\ triggered' = FALSE
  /\ event' = TRUE
  /\ UNCHANGED <<graph, version, listening, flags, run, thread, callback, todo, updating, lists,
                 history>>

----------------------------------------------------------------------------
(* update_topics() *)

\* The graph is read and filtered.
ReadGraph(u) ==
  /\ at[u] = "read"
  /\ at' = [at EXCEPT ![u] = "compare"]
  /\ found' = [found EXCEPT ![u] = Snapshot(filtering)]
  /\ UNCHANGED <<graphVars, flags, run, event, thread, callback, todo, changed, lists, history>>

\* previous_topics_ is read without a lock: while the other thread stores it the
\* outcome is anything.
Compare(u) ==
  /\ at[u] = "compare"
  /\ at' = [at EXCEPT ![u] = "store"]
  /\ \E differs \in BOOLEAN :
       /\ at[Other(u)] # "save" => differs = (found[u].topics # previous)
       /\ changed' = [changed EXCEPT ![u] = differs]
  /\ UNCHANGED <<graphVars, flags, run, event, thread, callback, todo, found, lists, history>>

\* The critical section of active_topics_mutex_.
Store(u) ==
  /\ at[u] = "store"
  /\ at' = [at EXCEPT ![u] = "publish"]
  /\ active' = found[u]
  /\ UNCHANGED <<graphVars, flags, run, event, thread, callback, todo, found, changed, previous,
                 published, history>>

\* Mutant of Publish: the list is published only when publish_on_change_ is off.
PublishInverted(u) ==
  /\ at[u] = "publish"
  /\ at' = [at EXCEPT ![u] = "save"]
  /\ IF changed[u] /\ ~publishing
     THEN published' = found[u].topics /\ untold' = (untold /\ ~sole[u])
     ELSE UNCHANGED published /\ untold' = (untold \/ (changed[u] /\ ~publishing))
  /\ UNCHANGED <<graphVars, flags, run, event, thread, callback, todo, found, changed, active,
                 previous, sole, torn>>

Publish(u) ==
  /\ at[u] = "publish"
  /\ at' = [at EXCEPT ![u] = "save"]
  /\ IF changed[u] /\ publishing
     THEN published' = found[u].topics /\ untold' = (untold /\ ~sole[u])
     ELSE UNCHANGED published /\ untold' = (untold \/ changed[u])
  /\ UNCHANGED <<graphVars, flags, run, event, thread, callback, todo, found, changed, active,
                 previous, sole, torn>>

\* previous_topics_ is written without a lock: while the other thread uses it, it
\* may become anything.  The thread goes back to where it was called.
Save(u) ==
  /\ at[u] = "save"
  /\ at' = [at EXCEPT ![u] = "idle"]
  /\ IF at[Other(u)] \in {"compare", "save"} THEN previous' \in SUBSET Topics
     ELSE previous' = found[u].topics
  /\ torn' = (torn /\ ~sole[u])
  /\ found' = [found EXCEPT ![u] = NoList]
  /\ changed' = [changed EXCEPT ![u] = FALSE]
  /\ sole' = [sole EXCEPT ![u] = TRUE]
  /\ thread' = IF u = "monitor" THEN "register" ELSE thread
  /\ callback' = IF u = "callback" THEN "next" ELSE callback
  /\ UNCHANGED <<graphVars, flags, run, event, todo, active, published, untold>>

UpdateTopics(u) == ReadGraph(u) \/ Compare(u) \/ Store(u) \/ Publish(u) \/ Save(u)

\* update_topics() is called: one step of the caller.
CallUpdate(u) ==
  LET alone == at[Other(u)] = "idle" IN
  /\ at' = [at EXCEPT ![u] = "read"]
  /\ sole' = IF alone THEN [sole EXCEPT ![u] = TRUE] ELSE [v \in Updaters |-> FALSE]
  /\ torn' = (torn \/ ~alone)
  /\ untold' = (untold \/ ~alone)
  /\ UNCHANGED <<found, changed>>

----------------------------------------------------------------------------
(* monitor_graph() *)

\* Mutant of CheckRun: the flag is not looked at.
CheckOk ==
  /\ thread = "check"
  /\ thread' = IF ok THEN "wait" ELSE "exited"
  /\ UNCHANGED <<graphVars, flags, run, event, callback, todo, updating, lists, history>>

CheckRun ==
  /\ thread = "check"
  /\ thread' = IF ok /\ run THEN "wait" ELSE "exited"
  /\ UNCHANGED <<graphVars, flags, run, event, callback, todo, updating, lists, history>>

\* wait_for_graph_change(): the event is set, or 500 ms are over.
Wait ==
  /\ thread = "wait"
  /\ thread' = "clear"
  /\ UNCHANGED <<graphVars, flags, run, event, callback, todo, updating, lists, history>>

\* Mutant of CheckAndClear: the update is left out.
ClearOnly ==
  /\ thread = "clear"
  /\ event' = FALSE
  /\ thread' = "check"
  /\ UNCHANGED <<graphVars, flags, run, callback, todo, updating, lists, history>>

\* check_and_clear()
CheckAndClear ==
  /\ thread = "clear"
  /\ event' = FALSE
  /\ IF event THEN thread' = "update" /\ CallUpdate("monitor")
     ELSE thread' = "check" /\ UNCHANGED <<updating, history>>
  /\ UNCHANGED <<graphVars, flags, run, callback, todo, lists>>

\* get_graph_event(): what the old event has heard since is forgotten.
Register ==
  /\ thread = "register"
  /\ event' = FALSE
  /\ thread' = "check"
  /\ UNCHANGED <<graphVars, flags, run, callback, todo, updating, lists, history>>

Monitor == CheckRun \/ Wait \/ CheckAndClear \/ UpdateTopics("monitor") \/ Register

----------------------------------------------------------------------------
(* The parameter callback, the service, and the end *)

SetParameters ==
  /\ ok /\ callback = "idle"
  /\ todo' \in Batches
  /\ callback' = "next"
  /\ UNCHANGED <<graphVars, flags, run, event, thread, updating, lists, history>>

\* The setting that the callback looks at next.
Handle(name, value) ==
  /\ callback = "next"
  /\ todo # <<>> /\ Head(todo) = [name |-> name, value |-> value]
  /\ todo' = Tail(todo)

SetPublishOnChange(value) ==
  /\ Handle("publish_on_change", value)
  /\ publishing' = value
  /\ UNCHANGED <<graphVars, ok, filtering, run, event, thread, callback, updating, lists, history>>

\* "Force an immediate update to apply filtering changes."
SetFilterHidden(value) ==
  /\ Handle("filter_hidden", value)
  /\ filtering' = value
  /\ callback' = "update"
  /\ CallUpdate("callback")
  /\ UNCHANGED <<graphVars, ok, publishing, run, event, thread, lists>>

\* Mutant of Enable: the flag is not looked at.
EnableAlways ==
  /\ Handle("introspection_enabled", TRUE)
  /\ StartMonitor
  /\ UNCHANGED <<graph, version, triggered, flags, callback, updating, lists, history>>

\* The monitor is started where there is none.  The list is not read again.
Enable ==
  /\ Handle("introspection_enabled", TRUE)
  /\ IF run THEN UNCHANGED <<run, event, listening, thread>> ELSE StartMonitor
  /\ UNCHANGED <<graph, version, triggered, flags, callback, updating, lists, history>>

\* The callback blocks until the monitor has seen the flag.
Disable ==
  /\ Handle("introspection_enabled", FALSE)
  /\ run' = FALSE
  /\ callback' = IF run THEN "join" ELSE callback
  /\ UNCHANGED <<graphVars, flags, event, thread, updating, lists, history>>

\* Mutant of Joined: the thread is not joined.
NotJoined ==
  /\ callback \in {"join", "destroy"}
  /\ callback' = IF callback = "join" THEN "next" ELSE "gone"
  /\ UNCHANGED <<graphVars, flags, run, event, thread, todo, updating, lists, history>>

\* join() returns.
Joined ==
  /\ callback \in {"join", "destroy"}
  /\ thread \in {"none", "exited"}
  /\ thread' = "none"
  /\ callback' = IF callback = "join" THEN "next" ELSE "gone"
  /\ UNCHANGED <<graphVars, flags, run, event, todo, updating, lists, history>>

CallbackDone ==
  /\ callback = "next"
  /\ todo = <<>>
  /\ callback' = "idle"
  /\ UNCHANGED <<graphVars, flags, run, event, thread, todo, updating, lists, history>>

Callback ==
  \/ \E value \in BOOLEAN : SetPublishOnChange(value) \/ SetFilterHidden(value)
  \/ Enable \/ Disable \/ UpdateTopics("callback") \/ Joined \/ CallbackDone

\* SIGINT: the executor ends once no callback is running.
Shutdown ==
  /\ ok
  /\ ok' = FALSE
  /\ UNCHANGED <<graphVars, publishing, filtering, run, event, thread, callback, todo, updating,
                 lists, history>>

\* ~IntrospectionManagerNode() up to the join.
Destroy ==
  /\ ~ok /\ callback = "idle"
  /\ run' = FALSE
  /\ callback' = "destroy"
  /\ UNCHANGED <<graphVars, flags, event, thread, todo, updating, lists, history>>

\* The node is started; its own publisher and service change the graph.
Launch ==
  /\ callback = "gone"
  /\ \E enabled \in BOOLEAN : Construct(enabled)
  /\ triggered' = TRUE
  /\ UNCHANGED <<graph, version>>

----------------------------------------------------------------------------

Next ==
  \/ GraphChanges \/ Notify \/ Monitor
  \/ SetParameters \/ Callback \/ Shutdown \/ Destroy \/ Launch

Spec == Init /\ [][Next]_vars

\* The listener and both threads are scheduled; the wait of the monitor ends after
\* 500 ms.  Nobody has to change the graph, set a parameter, or end the process.
FairSpec == Spec /\ WF_vars(Notify) /\ WF_vars(Monitor) /\ WF_vars(Callback)

----------------------------------------------------------------------------
(* Safety *)

\* The monitor exists while its flag is set, and until a callback or the destructor
\* has joined it: a std::thread is never assigned to, or destroyed, while it is
\* joinable.
ThreadFollowsFlag ==
  /\ run => thread # "none"
  /\ ~run /\ callback \notin {"join", "destroy"} => thread = "none"

\* Unless updates of both threads overlapped, and none has been alone since: between
\* updates the list that is served is the one that the next update is compared with,
\* it is filtered as filter_hidden says, and subscribers who got every message know
\* it; and no update is about to take it back to an older graph.
SnapshotConsistent ==
  ~torn =>
    /\ Idle => /\ active.topics = previous
               /\ filtering => active.topics \cap Hidden = {}
               /\ ~untold => published = active.topics
    /\ \A u \in Updaters : at[u] = "store" => active.version <= found[u].version

----------------------------------------------------------------------------
(* Liveness *)

\* A parameter callback, and the destructor, return: the join is never in vain.
CallbackReturns == callback \notin {"idle", "gone"} ~> callback \in {"idle", "gone"}

\* What CallbackReturns rests on: the steps that an update, the monitor without its
\* flag, and the callback or the destructor still take.  A setting costs the
\* callback at most six of its own: the look at it and an update.
UpdateSteps(u) ==
  CASE at[u] = "read" -> 5 [] at[u] = "compare" -> 4 [] at[u] = "store" -> 3
    [] at[u] = "publish" -> 2 [] at[u] = "save" -> 1 [] OTHER -> 0

MonitorSteps ==
  CASE thread = "wait" -> 9 [] thread = "clear" -> 8
    [] thread = "update" -> 2 + UpdateSteps("monitor")
    [] thread = "register" -> 2 [] thread = "check" -> 1 [] OTHER -> 0

CallbackSteps ==
  CASE callback = "update" -> 1 + 6 * Len(todo) + UpdateSteps("callback")
    [] callback = "join" -> 2 + 6 * Len(todo)
    [] callback = "next" -> 1 + 6 * Len(todo)
    [] callback = "destroy" -> 1 [] OTHER -> 0

\* Each step of the callback brings its end nearer, and the only wait in it is the
\* join: there each step of the monitor, of which there are at most nine, brings the
\* end of the monitor nearer.  No other step takes anything of this back.
CallbackAdvances ==
  /\ callback \notin {"idle", "gone"} =>
       IF Callback THEN CallbackSteps' < CallbackSteps ELSE CallbackSteps' = CallbackSteps
  /\ callback \in {"join", "destroy"} =>
       /\ MonitorSteps <= 9
       /\ MonitorSteps = 0 <=> thread \in {"none", "exited"}
       /\ IF Monitor THEN MonitorSteps' < MonitorSteps ELSE MonitorSteps' = MonitorSteps
CallbackBounded == [][CallbackAdvances]_vars

\* A change that is notified before the monitor looks at its event is shown.
NotifiedIsShown ==
  \A v \in 1..ChangeLimit :
    event /\ version = v /\ thread \in {"check", "wait", "clear"}
      ~> active.version >= v \/ ~run \/ ~ok

----------------------------------------------------------------------------
(* What the documentation says *)

\* README.md of the package: it "rebuilds a topic -> types map whenever the graph
\* changes".  A monitor that is left running has the graph in the end.
Fresh == <>[](run /\ ok /\ callback = "idle") => <>[](active.topics = Visible(filtering))
=============================================================================
