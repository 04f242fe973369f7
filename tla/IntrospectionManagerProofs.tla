--------------------- MODULE IntrospectionManagerProofs ---------------------
(***************************************************************************)
(* Theorems about introspection_manager: its types, the life of the        *)
(* monitor thread, and the lists that its two threads update.              *)
(***************************************************************************)
EXTENDS IntrospectionManager, TLAPS

\* The types of the flags, which the provers handle apart from the rest.
FlagTypes ==
  /\ triggered \in BOOLEAN /\ listening \in BOOLEAN
  /\ ok \in BOOLEAN /\ publishing \in BOOLEAN /\ filtering \in BOOLEAN
  /\ run \in BOOLEAN /\ event \in BOOLEAN
  /\ torn \in BOOLEAN /\ untold \in BOOLEAN
  /\ changed \in [Updaters -> BOOLEAN] /\ sole \in [Updaters -> BOOLEAN]

Phases ==
  /\ thread \in {"none", "check", "wait", "clear", "update", "register", "exited"}
  /\ callback \in {"idle", "next", "update", "join", "destroy", "gone"}
  /\ at \in [Updaters -> Steps]

\* With the place of each thread in update_topics() goes the place of its caller.
Placed ==
  /\ at["monitor"] # "idle" <=> thread = "update"
  /\ at["callback"] # "idle" <=> callback = "update"

ListTypes ==
  /\ graph \subseteq Topics /\ version \in Nat
  /\ found \in [Updaters -> Lists]
  /\ active \in Lists /\ previous \subseteq Topics /\ published \subseteq Topics

Settled == todo \in Seq(Settings)

\* Together they are TypeOK.
LEMMA Parts == TypeOK <=> FlagTypes /\ Phases /\ Placed /\ ListTypes /\ Settled
BY Zenon DEF TypeOK, FlagTypes, Phases, Placed, ListTypes, Settled

LEMMA PartsNext == FlagTypes' /\ Phases' /\ Placed' /\ ListTypes' /\ Settled' => TypeOK'
BY Zenon DEF TypeOK, FlagTypes, Phases, Placed, ListTypes, Settled

LEMMA TwoUpdaters ==
  /\ "monitor" \in Updaters /\ "callback" \in Updaters
  /\ \A u \in Updaters : u = "monitor" \/ u = "callback"
  /\ \A u \in Updaters : Other(u) \in Updaters /\ Other(u) # u /\ Other(Other(u)) = u
BY DEF Updaters, Other

\* The list of a snapshot.
LEMMA SnapshotTyped ==
  ASSUME ListTypes, NEW hide PROVE Snapshot(hide) \in Lists
BY DEF ListTypes, Snapshot, Visible, Lists

LEMMA NoListTyped == NoList \in Lists
BY DEF NoList, Lists

----------------------------------------------------------------------------
(* Types *)

LEMMA TypeInit == Init => TypeOK
<1> SUFFICES ASSUME Init PROVE TypeOK
  OBVIOUS
<1>1. FlagTypes
  BY Zenon DEF Init, FlagTypes
<1>2. Phases /\ Placed
  BY DEF Init, Phases, Placed, Steps, Updaters
<1>3. ListTypes
  BY NoListTyped DEF Init, ListTypes
<1>4. Settled
  BY DEF Init, Settled
<1>5. QED
  BY <1>1, <1>2, <1>3, <1>4, Parts

\* Every step keeps the flags flags.
LEMMA FlagsStep == FlagTypes /\ [Next]_vars => FlagTypes'
<1> SUFFICES ASSUME FlagTypes, [Next]_vars PROVE FlagTypes'
  OBVIOUS
<1> USE DEF FlagTypes
<1>1. CASE UNCHANGED vars
  BY <1>1, Zenon DEF vars, graphVars, flags, updating, history
<1>2. CASE GraphChanges \/ Notify
  BY <1>2, Zenon DEF GraphChanges, Notify, graphVars, flags, updating, history
<1>3. ASSUME NEW u \in Updaters, UpdateTopics(u) PROVE FlagTypes'
  <2>1. CASE ReadGraph(u)
    BY <2>1, Zenon DEF ReadGraph, graphVars, flags, history
  <2>2. CASE Compare(u)
    BY <2>2 DEF Compare, graphVars, flags, history
  <2>3. CASE Store(u)
    BY <2>3, Zenon DEF Store, graphVars, flags, history
  <2>4. CASE Publish(u)
    <3>1. untold' \in BOOLEAN
      BY <2>4 DEF Publish
    <3>2. QED
      BY <2>4, <3>1, Zenon DEF Publish, graphVars, flags
  <2>5. CASE Save(u)
    <3>1. changed' \in [Updaters -> BOOLEAN] /\ sole' \in [Updaters -> BOOLEAN]
      BY <2>5 DEF Save
    <3>2. torn' \in BOOLEAN
      BY <2>5, Zenon DEF Save
    <3>3. QED
      BY <2>5, <3>1, <3>2, Zenon DEF Save, graphVars, flags
  <2>6. QED
    BY <1>3, <2>1, <2>2, <2>3, <2>4, <2>5 DEF UpdateTopics
<1>4. ASSUME NEW u \in Updaters, CallUpdate(u)
      PROVE  changed' \in [Updaters -> BOOLEAN] /\ sole' \in [Updaters -> BOOLEAN]
             /\ torn' \in BOOLEAN /\ untold' \in BOOLEAN
  <2>1. sole' \in [Updaters -> BOOLEAN]
    BY <1>4 DEF CallUpdate
  <2>2. torn' \in BOOLEAN /\ untold' \in BOOLEAN
    BY <1>4, Zenon DEF CallUpdate
  <2>3. QED
    BY <1>4, <2>1, <2>2, Zenon DEF CallUpdate
<1>5. CASE Monitor
  <2>1. CASE CheckRun \/ Wait \/ Register
    BY <2>1, Zenon DEF CheckRun, Wait, Register, graphVars, flags, updating, history
  <2>2. CASE CheckAndClear
    <3>1. changed' \in [Updaters -> BOOLEAN] /\ sole' \in [Updaters -> BOOLEAN]
          /\ torn' \in BOOLEAN /\ untold' \in BOOLEAN
      BY <1>4, <2>2, TwoUpdaters, Zenon DEF CheckAndClear, updating, history
    <3>2. QED
      BY <2>2, <3>1, Zenon DEF CheckAndClear, graphVars, flags
  <2>3. QED
    BY <1>3, <1>5, <2>1, <2>2, TwoUpdaters, Zenon DEF Monitor
<1>6. CASE SetParameters \/ Shutdown \/ Destroy
  BY <1>6, Zenon DEF SetParameters, Shutdown, Destroy, graphVars, flags, updating, history
<1>7. CASE Callback
  <2>1. ASSUME NEW value \in BOOLEAN, SetPublishOnChange(value) PROVE FlagTypes'
    BY <2>1, Zenon DEF SetPublishOnChange, graphVars, updating, history
  <2>2. ASSUME NEW value \in BOOLEAN, SetFilterHidden(value) PROVE FlagTypes'
    <3>1. changed' \in [Updaters -> BOOLEAN] /\ sole' \in [Updaters -> BOOLEAN]
          /\ torn' \in BOOLEAN /\ untold' \in BOOLEAN
      BY <1>4, <2>2, TwoUpdaters, Zenon DEF SetFilterHidden
    <3>2. QED
      BY <2>2, <3>1, Zenon DEF SetFilterHidden, graphVars
  <2>3. CASE Enable
    BY <2>3, Zenon DEF Enable, StartMonitor, flags, updating, history
  <2>4. CASE Disable \/ Joined \/ CallbackDone
    BY <2>4, Zenon DEF Disable, Joined, CallbackDone, graphVars, flags, updating, history
  <2>5. QED
    BY <1>3, <1>7, <2>1, <2>2, <2>3, <2>4, TwoUpdaters, Zenon DEF Callback
<1>8. CASE Launch
  <2>1. PICK enabled \in BOOLEAN : Construct(enabled)
    BY <1>8, Zenon DEF Launch
  <2>2. run' \in BOOLEAN /\ event' \in BOOLEAN /\ listening' \in BOOLEAN
    BY <2>1, Zenon DEF Construct, StartMonitor
  <2>3. changed' \in [Updaters -> BOOLEAN] /\ sole' \in [Updaters -> BOOLEAN]
    BY <2>1, Zenon DEF Construct
  <2>4. torn' \in BOOLEAN /\ untold' \in BOOLEAN /\ ok' \in BOOLEAN
    BY <2>1, Zenon DEF Construct
  <2>5. publishing' \in BOOLEAN /\ filtering' \in BOOLEAN /\ triggered' \in BOOLEAN
    BY <1>8, <2>1, Zenon DEF Construct, Launch
  <2>6. QED
    BY <2>2, <2>3, <2>4, <2>5, Zenon
<1>9. QED
  BY <1>1, <1>2, <1>5, <1>6, <1>7, <1>8, Zenon DEF Next

\* Every step keeps the lists lists.
LEMMA ListsStep == ListTypes /\ Phases /\ [Next]_vars => ListTypes'
<1> SUFFICES ASSUME ListTypes, Phases, [Next]_vars PROVE ListTypes'
  OBVIOUS
<1> USE DEF ListTypes
<1>1. CASE UNCHANGED <<graph, version, found, active, previous, published>>
  BY <1>1
<1>2. CASE GraphChanges
  BY <1>2 DEF GraphChanges, updating, lists
<1>3. ASSUME NEW u \in Updaters, UpdateTopics(u) PROVE ListTypes'
  <2>t. found[u] \in Lists /\ found[u].topics \subseteq Topics
    BY DEF Lists
  <2>1. CASE ReadGraph(u)
    <3>1. found' = [found EXCEPT ![u] = Snapshot(filtering)]
      BY <2>1 DEF ReadGraph
    <3>2. Snapshot(filtering) \in Lists
      BY SnapshotTyped, Zenon
    <3>3. found' \in [Updaters -> Lists]
      BY <3>1, <3>2
    <3>4. UNCHANGED <<graph, version, active, previous, published>>
      BY <2>1 DEF ReadGraph, graphVars, lists
    <3>5. QED
      BY <3>3, <3>4
  <2>2. CASE Compare(u)
    BY <1>1, <2>2 DEF Compare, graphVars, lists
  <2>3. CASE Store(u)
    BY <2>t, <2>3 DEF Store, graphVars
  <2>4. CASE Publish(u)
    BY <2>t, <2>4 DEF Publish, graphVars
  <2>5. CASE Save(u)
    <3>1. found' = [found EXCEPT ![u] = NoList] /\ UNCHANGED <<graph, version, active, published>>
      BY <2>5 DEF Save, graphVars
    <3>2. previous' \subseteq Topics
      BY <2>t, <2>5 DEF Save
    <3>3. found' \in [Updaters -> Lists]
      BY <3>1, NoListTyped
    <3>4. QED
      BY <3>1, <3>2, <3>3
  <2>6. QED
    BY <1>3, <2>1, <2>2, <2>3, <2>4, <2>5 DEF UpdateTopics
<1>4. CASE Notify
  BY <1>1, <1>4, Zenon DEF Notify, updating, lists
<1>5. CASE Monitor
  <2>1. CASE CheckRun \/ Wait \/ Register \/ CheckAndClear
    <3>1. UNCHANGED <<graph, version, found, active, previous, published>>
      BY <2>1, Zenon DEF CheckRun, Wait, Register, CheckAndClear, CallUpdate, graphVars, updating, lists
    <3>2. QED
      BY <1>1, <3>1
  <2>2. QED
    BY <1>3, <1>5, <2>1, TwoUpdaters, Zenon DEF Monitor
<1>6. CASE SetParameters \/ Shutdown \/ Destroy
  <2>1. UNCHANGED <<graph, version, found, active, previous, published>>
    BY <1>6, Zenon DEF SetParameters, Shutdown, Destroy, graphVars, updating, lists
  <2>2. QED
    BY <1>1, <2>1
<1>7. CASE Callback
  <2>1. ASSUME NEW value \in BOOLEAN, SetPublishOnChange(value) \/ SetFilterHidden(value)
        PROVE  UNCHANGED <<graph, version, found, active, previous, published>>
    BY <2>1, Zenon DEF SetPublishOnChange, SetFilterHidden, CallUpdate, graphVars, updating, lists
  <2>2. ASSUME Enable \/ Disable \/ Joined \/ CallbackDone
        PROVE  UNCHANGED <<graph, version, found, active, previous, published>>
    BY <2>2, Zenon DEF Enable, Disable, Joined, CallbackDone, graphVars, updating, lists
  <2>3. QED
    BY <1>1, <1>3, <1>7, <2>1, <2>2, TwoUpdaters, Zenon DEF Callback
<1>8. CASE Launch
  <2>1. PICK enabled \in BOOLEAN : Construct(enabled)
    BY <1>8, Zenon DEF Launch
  <2>2. Snapshot(filtering') \in Lists
    BY SnapshotTyped, Zenon
  <2>3. /\ active' = Snapshot(filtering')
        /\ Snapshot(filtering)' = Snapshot(filtering')
        /\ previous' = active'.topics /\ published' = active'.topics
        /\ found' = [u \in Updaters |-> NoList]
        /\ UNCHANGED <<graph, version>>
    BY <1>8, <2>1, Zenon DEF Launch, Construct, Snapshot, Visible
  <2>4. active' \in Lists
    BY <2>2, <2>3, Zenon
  <2>5. found' \in [Updaters -> Lists]
    BY <2>3, NoListTyped, Zenon
  <2>6. QED
    BY <2>3, <2>4, <2>5 DEF Lists
<1>9. QED
  BY <1>2, <1>1, <1>4, <1>5, <1>6, <1>7, <1>8, Zenon
     DEF Next, vars, graphVars, updating, lists

\* The monitor is there while its flag is set, and nowhere else once it is joined.
Follows ==
  /\ ThreadFollowsFlag
  /\ callback \in {"join", "destroy"} => ~run

LEMMA FollowsStep == FlagTypes /\ Phases /\ Placed /\ Follows /\ [Next]_vars => Follows'
<1> SUFFICES ASSUME FlagTypes, Phases, Placed, Follows, [Next]_vars PROVE Follows'
  OBVIOUS
<1>b. run \in BOOLEAN
  BY Zenon DEF FlagTypes
<1> USE DEF Follows, ThreadFollowsFlag
<1>1. CASE UNCHANGED <<run, thread, callback>>
  BY <1>1
<1>2. ASSUME NEW u \in Updaters, UpdateTopics(u) PROVE Follows'
  <2>1. CASE ReadGraph(u) \/ Compare(u) \/ Store(u) \/ Publish(u)
    BY <1>1, <2>1, Zenon DEF ReadGraph, Compare, Store, Publish
  <2>2. CASE Save(u)
    <3>1. /\ thread' = IF u = "monitor" THEN "register" ELSE thread
          /\ callback' = IF u = "callback" THEN "next" ELSE callback
          /\ run' = run
      BY <2>2, Zenon DEF Save, flags
    <3>2. at[u] = "save"
      BY <2>2, Zenon DEF Save
    <3>3. CASE u = "monitor"
      <4>1. thread = "update" /\ thread' = "register" /\ callback' = callback
        BY <3>1, <3>2, <3>3 DEF Placed
      <4>2. QED
        BY <3>1, <4>1
    <3>4. CASE u = "callback"
      <4>1. callback = "update" /\ callback' = "next" /\ thread' = thread
        BY <3>1, <3>2, <3>4 DEF Placed
      <4>2. QED
        BY <3>1, <4>1
    <3>5. QED
      BY <3>3, <3>4, TwoUpdaters
  <2>3. QED
    BY <1>2, <2>1, <2>2 DEF UpdateTopics
<1>3. CASE GraphChanges \/ Notify \/ Shutdown
  BY <1>3, <1>1 DEF GraphChanges, Notify, Shutdown, updating
<1>4. CASE Monitor
  <2>1. CASE CheckRun
    BY <2>1 DEF CheckRun
  <2>2. CASE Wait \/ Register
    BY <2>2 DEF Wait, Register
  <2>3. CASE CheckAndClear
    BY <2>3 DEF CheckAndClear
  <2>4. QED
    BY <1>2, <1>4, <2>1, <2>2, <2>3, TwoUpdaters DEF Monitor
<1>5. CASE SetParameters
  BY <1>5 DEF SetParameters
<1>6. CASE Destroy
  BY <1>6 DEF Destroy
<1>7. CASE Callback
  <2>1. ASSUME NEW value \in BOOLEAN, SetPublishOnChange(value) PROVE Follows'
    BY <1>1, <2>1, Zenon DEF SetPublishOnChange
  <2>2. ASSUME NEW value \in BOOLEAN, SetFilterHidden(value) PROVE Follows'
    BY <2>2 DEF SetFilterHidden, Handle
  <2>3. CASE Enable
    <3>1. callback' = callback /\ callback = "next"
      BY <2>3, Zenon DEF Enable, Handle
    <3>2. CASE run
      BY <1>1, <2>3, <3>1, <3>2, Zenon DEF Enable
    <3>3. CASE ~run
      <4>1. run' /\ thread' = "check"
        BY <2>3, <3>3, Zenon DEF Enable, StartMonitor
      <4>2. QED
        BY <3>1, <4>1
    <3>4. QED
      BY <3>2, <3>3
  <2>4. CASE Disable
    BY <2>4 DEF Disable, Handle
  <2>5. CASE Joined
    BY <2>5 DEF Joined
  <2>6. CASE CallbackDone
    BY <2>6 DEF CallbackDone
  <2>7. QED
    BY <1>2, <1>7, <2>1, <2>2, <2>3, <2>4, <2>5, <2>6, TwoUpdaters DEF Callback
<1>8. CASE Launch
  BY <1>8 DEF Launch, Construct, StartMonitor
<1>9. QED
  BY <1>1, <1>3, <1>4, <1>5, <1>6, <1>7, <1>8, Zenon DEF Next, vars

\* Every step keeps each thread in update_topics() while its caller waits for it; a
\* monitor is started only where there is none.
LEMMA PlacedStep ==
  Phases /\ Placed /\ Settled /\ Follows /\ [Next]_vars => Phases' /\ Placed' /\ Settled'
<1> SUFFICES ASSUME Phases, Placed, Settled, Follows, [Next]_vars
             PROVE  Phases' /\ Placed' /\ Settled'
  OBVIOUS
<1> USE DEF Phases, Placed, Settled, Steps, Updaters
<1>1. CASE UNCHANGED <<thread, callback, at, todo>>
  BY <1>1
<1>2. ASSUME NEW u \in Updaters, UpdateTopics(u) PROVE Phases' /\ Placed' /\ Settled'
  <2>1. CASE ReadGraph(u)
    BY <2>1 DEF ReadGraph
  <2>2. CASE Compare(u)
    BY <2>2 DEF Compare
  <2>3. CASE Store(u)
    BY <2>3 DEF Store
  <2>4. CASE Publish(u)
    BY <2>4 DEF Publish
  <2>5. CASE Save(u)
    BY <2>5 DEF Save
  <2>6. QED
    BY <1>2, <2>1, <2>2, <2>3, <2>4, <2>5 DEF UpdateTopics
<1>3. CASE GraphChanges \/ Notify \/ Shutdown
  BY <1>3, <1>1 DEF GraphChanges, Notify, Shutdown, updating
<1>4. CASE Monitor
  <2>1. CASE CheckRun \/ Wait \/ Register
    BY <2>1 DEF CheckRun, Wait, Register, updating
  <2>2. CASE CheckAndClear
    BY <2>2 DEF CheckAndClear, CallUpdate, updating
  <2>3. QED
    BY <1>2, <1>4, <2>1, <2>2 DEF Monitor
<1>5. CASE SetParameters
  BY <1>5, IntrospectionAssumption DEF IntrospectionAssumption, SetParameters, updating
<1>6. CASE Destroy
  BY <1>6 DEF Destroy, updating
<1>7. CASE Callback
  <2>1. ASSUME NEW value \in BOOLEAN, SetPublishOnChange(value) PROVE Phases' /\ Placed' /\ Settled'
    BY <2>1 DEF SetPublishOnChange, Handle, updating
  <2>2. ASSUME NEW value \in BOOLEAN, SetFilterHidden(value) PROVE Phases' /\ Placed' /\ Settled'
    BY <2>2 DEF SetFilterHidden, Handle, CallUpdate
  <2>3. CASE Enable
    <3>1. todo' \in Seq(Settings) /\ UNCHANGED <<at, callback>>
      BY <2>3 DEF Enable, Handle, updating
    <3>2. CASE run
      BY <2>3, <3>1, <3>2 DEF Enable
    <3>3. CASE ~run
      <4>1. thread = "none" /\ thread' = "check"
        BY <2>3, <3>3, Zenon DEF Enable, Handle, StartMonitor, Follows, ThreadFollowsFlag
      <4>2. QED
        BY <3>1, <4>1
    <3>4. QED
      BY <3>2, <3>3
  <2>4. CASE Disable
    BY <2>4 DEF Disable, Handle, updating
  <2>5. CASE Joined \/ CallbackDone
    BY <2>5 DEF Joined, CallbackDone, updating
  <2>6. QED
    BY <1>2, <1>7, <2>1, <2>2, <2>3, <2>4, <2>5 DEF Callback
<1>8. CASE Launch
  BY <1>8 DEF Launch, Construct, StartMonitor
<1>9. QED
  BY <1>1, <1>3, <1>4, <1>5, <1>6, <1>7, <1>8 DEF Next, vars, updating

Typed == TypeOK /\ Follows

LEMMA TypedInit == Init => Typed
<1> SUFFICES ASSUME Init PROVE Follows
  BY TypeInit DEF Typed
<1>1. run = FALSE /\ thread = "none" /\ callback = "gone"
  BY Zenon DEF Init
<1>2. QED
  BY <1>1 DEF Follows, ThreadFollowsFlag

LEMMA TypedStep == Typed /\ [Next]_vars => Typed'
BY Parts, PartsNext, FlagsStep, ListsStep, PlacedStep, FollowsStep, Zenon DEF Typed

LEMMA TypedAlways == Spec => []Typed
BY TypedInit, TypedStep, PTL DEF Spec

\* Each thread is in update_topics() exactly while its caller waits for it.
THEOREM TypeCorrect == Spec => []TypeOK
<1>1. Typed => TypeOK
  BY DEF Typed
<1>2. QED
  BY <1>1, TypedAlways, PTL

\* A monitor thread is never replaced or destroyed while it is joinable, and there is
\* one while its flag is set.
THEOREM MonitorFollowsFlag == Spec => []ThreadFollowsFlag
<1>1. Typed => ThreadFollowsFlag
  BY DEF Typed, Follows
<1>2. QED
  BY <1>1, TypedAlways, PTL

----------------------------------------------------------------------------
(* The lists *)

\* An update that is marked as alone is; one that is not has left the lists torn.
Lone ==
  \A u \in Updaters :
    /\ at[u] = "idle" => sole[u]
    /\ at[u] # "idle" /\ sole[u] => at[Other(u)] = "idle"
    /\ at[u] # "idle" /\ ~sole[u] => torn

\* What an update has found since it is alone is filtered, and then stored.
FoundIsStored ==
  \A u \in Updaters :
    /\ sole[u] /\ at[u] \in {"compare", "store", "publish", "save"}
         => (filtering => found[u].topics \cap Hidden = {})
    /\ sole[u] /\ at[u] \in {"publish", "save"} => active = found[u]

\* Until it has stored that, the lists are those of the last update.
Before == \A u \in Updaters : at[u] \in {"idle", "read", "compare", "store"}
ListsAgree ==
  /\ ~torn /\ Before => active.topics = previous
  /\ ~torn /\ Idle => (filtering => active.topics \cap Hidden = {})

\* What subscribers know, and what an update will tell them.
Told ==
  /\ ~torn => \A u \in Updaters :
       at[u] \in {"store", "publish"} => changed[u] = (found[u].topics # previous)
  /\ ~torn /\ ~untold /\ (\A u \in Updaters : at[u] # "save") => published = previous
  /\ \A u \in Updaters : at[u] = "save" /\ sole[u] /\ ~untold => published = found[u].topics
  /\ torn /\ ~untold => \E u \in Updaters : at[u] = "save" /\ sole[u]

\* What was read later has a later version.
Versions ==
  /\ active.version <= version
  /\ \A u \in Updaters :
       /\ found[u].version <= version
       /\ sole[u] /\ at[u] \in {"compare", "store"} => active.version <= found[u].version

Consistent == Lone /\ FoundIsStored /\ ListsAgree /\ Told /\ Versions

\* Steps outside of update_topics() leave all of it alone; the graph may have changed.
LEMMA Kept ==
  ASSUME TypeOK, Consistent, version' \in Nat, version <= version',
         UNCHANGED <<filtering, at, found, changed, active, previous, published, sole, torn, untold>>
  PROVE  Consistent'
<1>1. Lone' /\ FoundIsStored' /\ ListsAgree' /\ Told'
  BY DEF Consistent, Lone, FoundIsStored, ListsAgree, Before, Idle, Told
<1>2. \A u \in Updaters : found[u].version \in Nat
  BY DEF TypeOK, Lists
<1>3. active.version \in Nat /\ version \in Nat
  BY DEF TypeOK, Lists
<1>4. Versions'
  BY <1>2, <1>3 DEF Consistent, Versions
<1>5. QED
  BY <1>1, <1>4 DEF Consistent

\* update_topics() is called, by the callback with another filter.
LEMMA Called ==
  ASSUME TypeOK, Consistent, NEW u \in Updaters, at[u] = "idle", CallUpdate(u),
         UNCHANGED <<active, previous, published, version>>
  PROVE  Consistent'
<1>t. /\ at \in [Updaters -> Steps] /\ sole \in [Updaters -> BOOLEAN]
      /\ torn \in BOOLEAN /\ untold \in BOOLEAN
  BY Zenon DEF TypeOK
<1>o. Other(u) \in Updaters /\ Other(u) # u /\ Other(Other(u)) = u
      /\ \A v \in Updaters : v = u \/ v = Other(u)
  BY DEF Updaters, Other
<1>a. at' = [at EXCEPT ![u] = "read"] /\ found' = found /\ changed' = changed
  BY DEF CallUpdate
<1>b. at'[u] = "read" /\ at'[Other(u)] = at[Other(u)]
  BY <1>t, <1>o, <1>a
<1>1. CASE at[Other(u)] = "idle"
  <2>1. torn' = torn /\ untold' = untold /\ sole' = [sole EXCEPT ![u] = TRUE]
    BY <1>1, <1>t, Zenon DEF CallUpdate
  <2>2. sole'[u] /\ sole'[Other(u)] = sole[Other(u)] /\ sole[Other(u)]
    BY <1>1, <1>t, <1>o, <2>1 DEF Consistent, Lone
  <2>3. at'[Other(u)] = "idle"
    BY <1>1, <1>b
  <2>4. Lone'
    BY <1>o, <1>b, <2>2, <2>3 DEF Lone
  <2>5. FoundIsStored'
    BY <1>o, <1>b, <2>3 DEF FoundIsStored
  <2>6. Idle /\ Before
    BY <1>1, <1>o DEF Idle, Before
  <2>7. ListsAgree'
    BY <1>b, <2>1, <2>6 DEF Consistent, ListsAgree, Idle
  <2>8. Told'
    <3>1. \A v \in Updaters : at[v] # "save" /\ at'[v] \notin {"store", "publish", "save"}
      BY <1>1, <1>o, <1>b
    <3>2. torn /\ ~untold => FALSE
      BY <3>1 DEF Consistent, Told
    <3>3. ~torn /\ ~untold => published = previous
      BY <3>1 DEF Consistent, Told
    <3>4. QED
      BY <2>1, <3>1, <3>2, <3>3 DEF Told
  <2>9. Versions'
    BY <1>o, <1>a, <1>b, <2>3 DEF Consistent, Versions
  <2>10. QED
    BY <2>4, <2>5, <2>7, <2>8, <2>9 DEF Consistent
<1>2. CASE at[Other(u)] # "idle"
  <2>1. torn' = TRUE /\ untold' = TRUE /\ sole' = [v \in Updaters |-> FALSE]
    BY <1>2, Zenon DEF CallUpdate
  <2>2. \A v \in Updaters : ~sole'[v] /\ at'[v] # "idle"
    BY <1>2, <1>o, <1>b, <2>1
  <2>3. Lone'
    BY <2>1, <2>2 DEF Lone
  <2>4. FoundIsStored' /\ ListsAgree' /\ Told'
    BY <2>1, <2>2 DEF FoundIsStored, ListsAgree, Told
  <2>5. Versions'
    BY <1>a, <2>2 DEF Consistent, Versions
  <2>6. QED
    BY <2>3, <2>4, <2>5 DEF Consistent
<1>3. QED
  BY <1>1, <1>2

\* What all steps of update_topics() have in common but the last.
LEMMA Advanced ==
  ASSUME TypeOK, Lone, NEW u \in Updaters, NEW step \in Steps \ {"idle"}, at[u] # "idle",
         at' = [at EXCEPT ![u] = step], UNCHANGED <<sole, torn>>
  PROVE  /\ Lone'
         /\ at'[u] = step
         /\ Other(u) \in Updaters /\ Other(u) # u /\ \A v \in Updaters : v = u \/ v = Other(u)
         /\ at'[Other(u)] = at[Other(u)]
         /\ sole[u] => at[Other(u)] = "idle"
         /\ at[Other(u)] # "idle" => ~sole[Other(u)]
         /\ ~torn => sole[u] /\ at[Other(u)] = "idle"
<1>t. at \in [Updaters -> Steps]
  BY Zenon DEF TypeOK
<1>o. Other(u) \in Updaters /\ Other(u) # u /\ Other(Other(u)) = u
      /\ \A v \in Updaters : v = u \/ v = Other(u)
  BY DEF Updaters, Other
<1>1. at'[u] = step /\ at'[Other(u)] = at[Other(u)] /\ step # "idle"
  BY <1>t, <1>o
<1>2. /\ sole[u] => at[Other(u)] = "idle"
      /\ at[Other(u)] # "idle" => ~sole[Other(u)]
      /\ ~torn => sole[u]
  BY <1>o DEF Lone
<1>3. Lone'
  <2>1. ASSUME NEW v \in Updaters
        PROVE  /\ at'[v] = "idle" <=> at[v] = "idle"
               /\ at'[Other(v)] = "idle" <=> at[Other(v)] = "idle"
    BY <1>o, <1>1
  <2>2. QED
    BY <2>1 DEF Lone
<1>4. QED
  BY <1>o, <1>1, <1>2, <1>3

LEMMA ReadConsistent ==
  ASSUME TypeOK, Consistent, NEW u \in Updaters, ReadGraph(u) PROVE Consistent'
<1>t. /\ found \in [Updaters -> Lists] /\ active \in Lists /\ version \in Nat
      /\ graph \subseteq Topics
  BY DEF TypeOK
<1>a. /\ at[u] = "read" /\ at' = [at EXCEPT ![u] = "compare"]
      /\ found' = [found EXCEPT ![u] = Snapshot(filtering)]
      /\ UNCHANGED <<version, filtering, changed, active, previous, published, sole, torn, untold>>
  BY Zenon DEF ReadGraph, graphVars, flags, lists, history
<1>b. /\ Lone' /\ at'[u] = "compare" /\ Other(u) \in Updaters /\ Other(u) # u
      /\ \A v \in Updaters : v = u \/ v = Other(u)
      /\ at'[Other(u)] = at[Other(u)]
      /\ at[Other(u)] # "idle" => ~sole[Other(u)]
      /\ ~torn => sole[u] /\ at[Other(u)] = "idle"
  BY <1>a, Advanced DEF Consistent, Steps
<1>c. found'[u] = Snapshot(filtering) /\ found'[Other(u)] = found[Other(u)]
  BY <1>t, <1>a, <1>b
<1>d. found'[u].version = version /\ (filtering => found'[u].topics \cap Hidden = {})
  BY <1>c DEF Snapshot, Visible
<1>1. FoundIsStored'
  BY <1>a, <1>b, <1>d DEF FoundIsStored
<1>2. ListsAgree'
  BY <1>a, <1>b DEF Consistent, ListsAgree, Before, Idle
<1>3. Told'
  <2>1. ASSUME ~torn PROVE \A v \in Updaters : at'[v] \notin {"store", "publish", "save"}
                                               /\ at[v] # "save"
    BY <1>a, <1>b, <2>1
  <2>2. \A v \in Updaters : at'[v] = "save" /\ sole[v] => FALSE
    BY <1>b
  <2>3. torn /\ ~untold => FALSE
    BY <1>a, <1>b DEF Consistent, Told
  <2>4. QED
    BY <1>a, <2>1, <2>2, <2>3 DEF Consistent, Told
<1>4. Versions'
  <2>1. active.version <= version
    BY DEF Consistent, Versions
  <2>2. ASSUME NEW v \in Updaters
        PROVE  /\ found'[v].version <= version
               /\ sole[v] /\ at'[v] \in {"compare", "store"} => active.version <= found'[v].version
    <3>1. CASE v = u
      <4>1. version <= version
        BY <1>t
      <4>2. QED
        BY <1>d, <2>1, <3>1, <4>1, Zenon
    <3>2. CASE v = Other(u)
      BY <1>b, <1>c, <3>2, Zenon DEF Consistent, Versions
    <3>3. QED
      BY <1>b, <3>1, <3>2
  <2>3. QED
    BY <1>a, <2>1, <2>2, Zenon DEF Versions
<1>5. QED
  BY <1>b, <1>1, <1>2, <1>3, <1>4 DEF Consistent

\* The other thread saves only where neither update is alone.
LEMMA CompareConsistent ==
  ASSUME TypeOK, Consistent, NEW u \in Updaters, Compare(u) PROVE Consistent'
<1>t. changed \in [Updaters -> BOOLEAN]
  BY Zenon DEF TypeOK
<1>a. /\ at[u] = "compare" /\ at' = [at EXCEPT ![u] = "store"]
      /\ UNCHANGED <<version, filtering, found, active, previous, published, sole, torn, untold>>
  BY Zenon DEF Compare, graphVars, flags, lists, history
<1>b. /\ Lone' /\ at'[u] = "store" /\ Other(u) \in Updaters /\ Other(u) # u
      /\ \A v \in Updaters : v = u \/ v = Other(u)
      /\ at'[Other(u)] = at[Other(u)]
      /\ at[Other(u)] # "idle" => ~sole[Other(u)]
      /\ ~torn => sole[u] /\ at[Other(u)] = "idle"
  BY <1>a, Advanced DEF Consistent, Steps
<1>1. FoundIsStored'
  BY <1>a, <1>b DEF Consistent, FoundIsStored
<1>2. ListsAgree'
  BY <1>a, <1>b DEF Consistent, ListsAgree, Before, Idle
<1>3. Told'
  <2>1. ASSUME ~torn
        PROVE  /\ \A v \in Updaters : at'[v] \in {"store", "publish"}
                                        => changed'[v] = (found[v].topics # previous)
               /\ \A v \in Updaters : at[v] # "save"
    <3>1. PICK differs \in BOOLEAN :
            /\ differs = (found[u].topics # previous)
            /\ changed' = [changed EXCEPT ![u] = differs]
      BY <1>b, <2>1 DEF Compare
    <3>2. changed'[u] = (found[u].topics # previous)
      BY <1>t, <3>1
    <3>3. QED
      BY <1>a, <1>b, <2>1, <3>2
  <2>2. \A v \in Updaters : at'[v] = "save" /\ sole[v] => FALSE
    BY <1>b
  <2>3. torn /\ ~untold => FALSE
    BY <1>a, <1>b DEF Consistent, Told
  <2>4. QED
    BY <1>a, <2>1, <2>2, <2>3 DEF Consistent, Told
<1>4. Versions'
  <2>1. \A v \in Updaters : at'[v] \in {"compare", "store"} => at[v] \in {"compare", "store"}
    BY <1>a, <1>b
  <2>2. QED
    BY <1>a, <2>1, Zenon DEF Consistent, Versions
<1>5. QED
  BY <1>b, <1>1, <1>2, <1>3, <1>4 DEF Consistent

LEMMA StoreConsistent ==
  ASSUME TypeOK, Consistent, NEW u \in Updaters, Store(u) PROVE Consistent'
<1>a. /\ at[u] = "store" /\ at' = [at EXCEPT ![u] = "publish"]
      /\ active' = found[u]
      /\ UNCHANGED <<version, filtering, found, changed, previous, published, sole, torn, untold>>
  BY Zenon DEF Store, graphVars, flags, history
<1>b. /\ Lone' /\ at'[u] = "publish" /\ Other(u) \in Updaters /\ Other(u) # u
      /\ \A v \in Updaters : v = u \/ v = Other(u)
      /\ at'[Other(u)] = at[Other(u)]
      /\ at[Other(u)] # "idle" => ~sole[Other(u)]
      /\ ~torn => sole[u] /\ at[Other(u)] = "idle"
  BY <1>a, Advanced DEF Consistent, Steps
<1>1. FoundIsStored'
  BY <1>a, <1>b DEF Consistent, FoundIsStored
<1>2. ListsAgree'
  BY <1>a, <1>b DEF Consistent, ListsAgree, Before, Idle
<1>3. Told'
  <2>1. ASSUME ~torn
        PROVE  /\ \A v \in Updaters : at'[v] \in {"store", "publish"}
                                        => changed[v] = (found[v].topics # previous)
               /\ \A v \in Updaters : at[v] # "save"
    BY <1>a, <1>b, <2>1 DEF Consistent, Told
  <2>2. \A v \in Updaters : at'[v] = "save" /\ sole[v] => FALSE
    BY <1>b
  <2>3. torn /\ ~untold => FALSE
    BY <1>a, <1>b DEF Consistent, Told
  <2>4. QED
    BY <1>a, <2>1, <2>2, <2>3 DEF Consistent, Told
<1>4. Versions'
  <2>1. found[u].version <= version
    BY DEF Consistent, Versions
  <2>2. \A v \in Updaters : at'[v] \in {"compare", "store"} => ~sole[v]
    BY <1>b
  <2>3. QED
    BY <1>a, <2>1, <2>2, Zenon DEF Consistent, Versions
<1>5. QED
  BY <1>b, <1>1, <1>2, <1>3, <1>4 DEF Consistent

LEMMA PublishConsistent ==
  ASSUME TypeOK, Consistent, NEW u \in Updaters, Publish(u) PROVE Consistent'
<1>t. untold \in BOOLEAN /\ torn \in BOOLEAN
  BY Zenon DEF TypeOK
<1>a. /\ at[u] = "publish" /\ at' = [at EXCEPT ![u] = "save"]
      /\ UNCHANGED <<version, filtering, found, changed, active, previous, sole, torn>>
  BY Zenon DEF Publish, graphVars, flags
<1>b. /\ Lone' /\ at'[u] = "save" /\ Other(u) \in Updaters /\ Other(u) # u
      /\ \A v \in Updaters : v = u \/ v = Other(u)
      /\ at'[Other(u)] = at[Other(u)]
      /\ sole[u] => at[Other(u)] = "idle"
      /\ at[Other(u)] # "idle" => ~sole[Other(u)]
      /\ ~torn => sole[u] /\ at[Other(u)] = "idle"
  BY <1>a, Advanced DEF Consistent, Steps
<1>1. FoundIsStored'
  BY <1>a, <1>b DEF Consistent, FoundIsStored
<1>2. ListsAgree'
  <2>1. ~Before' /\ ~Idle'
    BY <1>b DEF Before, Idle
  <2>2. QED
    BY <2>1 DEF ListsAgree
<1>3. torn /\ ~untold => FALSE
  BY <1>a, <1>b DEF Consistent, Told
<1>4. ASSUME ~untold' PROVE sole[u] /\ published' = found[u].topics
  <2>1. CASE changed[u] /\ publishing
    <3>1. published' = found[u].topics /\ untold' = (untold /\ ~sole[u])
      BY <2>1, Zenon DEF Publish
    <3>2. CASE ~untold
      BY <1>3, <1>b, <3>1, <3>2
    <3>3. CASE untold
      BY <1>4, <3>1, <3>3
    <3>4. QED
      BY <3>2, <3>3
  <2>2. CASE ~(changed[u] /\ publishing)
    <3>1. published' = published /\ untold' = (untold \/ changed[u])
      BY <2>2, Zenon DEF Publish
    <3>2. ~untold /\ ~changed[u]
      BY <1>4, <3>1
    <3>3. ~torn
      BY <1>3, <3>2
    <3>4. sole[u] /\ \A v \in Updaters : at[v] # "save"
      BY <1>a, <1>b, <3>3
    <3>5. found[u].topics = previous /\ published = previous
      BY <1>a, <3>2, <3>3, <3>4 DEF Consistent, Told
    <3>6. QED
      BY <3>1, <3>4, <3>5
  <2>3. QED
    BY <2>1, <2>2
<1>5. Told'
  <2>1. ~torn => \A v \in Updaters : at'[v] \notin {"store", "publish"}
    BY <1>b
  <2>2. \A v \in Updaters : at'[v] = "save" /\ sole[v] => v = u
    BY <1>b
  <2>3. QED
    BY <1>a, <1>b, <1>4, <2>1, <2>2 DEF Told
<1>6. Versions'
  <2>1. \A v \in Updaters : at'[v] \in {"compare", "store"} => at[v] \in {"compare", "store"}
    BY <1>b
  <2>2. QED
    BY <1>a, <2>1, Zenon DEF Consistent, Versions
<1>7. QED
  BY <1>b, <1>1, <1>2, <1>5, <1>6 DEF Consistent

\* An update that ends alone leaves lists that agree.
LEMMA SaveConsistent ==
  ASSUME TypeOK, Consistent, NEW u \in Updaters, Save(u) PROVE Consistent'
<1>t. /\ at \in [Updaters -> Steps] /\ sole \in [Updaters -> BOOLEAN]
      /\ torn \in BOOLEAN /\ untold \in BOOLEAN /\ found \in [Updaters -> Lists]
      /\ version \in Nat
  BY Zenon DEF TypeOK
<1>o. Other(u) \in Updaters /\ Other(u) # u /\ Other(Other(u)) = u
      /\ \A v \in Updaters : v = u \/ v = Other(u)
  BY DEF Updaters, Other
<1>a. /\ at[u] = "save" /\ at' = [at EXCEPT ![u] = "idle"]
      /\ found' = [found EXCEPT ![u] = NoList]
      /\ sole' = [sole EXCEPT ![u] = TRUE]
      /\ torn' = (torn /\ ~sole[u])
      /\ changed' = [changed EXCEPT ![u] = FALSE]
      /\ UNCHANGED <<version, filtering, active, published, untold>>
  BY Zenon DEF Save, graphVars, flags
<1>b. /\ at'[u] = "idle" /\ at'[Other(u)] = at[Other(u)]
      /\ sole'[u] /\ sole'[Other(u)] = sole[Other(u)]
      /\ found'[u] = NoList /\ found'[Other(u)] = found[Other(u)]
  BY <1>t, <1>o, <1>a
<1>c. /\ sole[u] => at[Other(u)] = "idle"
      /\ at[Other(u)] # "idle" => ~sole[Other(u)]
      /\ ~sole[u] => torn
  BY <1>a, <1>o DEF Consistent, Lone
<1>6. Versions'
  <2>1. NoList.version <= version
    BY <1>t DEF NoList
  <2>2. \A v \in Updaters : at'[v] \in {"compare", "store"} => v = Other(u) /\ ~sole'[v]
    BY <1>b, <1>c, <1>o
  <2>3. \A v \in Updaters : found'[v].version <= version
    BY <1>b, <1>o, <2>1, Zenon DEF Consistent, Versions
  <2>4. QED
    BY <1>a, <2>2, <2>3, Zenon DEF Consistent, Versions
<1>1. CASE sole[u]
  <2>1. ~torn' /\ Idle'
    BY <1>1, <1>a, <1>b, <1>c, <1>o DEF Idle
  <2>2. previous' = found[u].topics
    BY <1>1, <1>c DEF Save
  <2>3. active = found[u] /\ (filtering => found[u].topics \cap Hidden = {})
    BY <1>1, <1>a DEF Consistent, FoundIsStored
  <2>4. ~untold => published = found[u].topics
    BY <1>1, <1>a DEF Consistent, Told
  <2>5. \A v \in Updaters : at'[v] = "idle" /\ sole'[v]
    BY <1>1, <1>b, <1>c, <1>o, <1>t DEF Consistent, Lone
  <2>6. Lone' /\ FoundIsStored'
    BY <2>5 DEF Lone, FoundIsStored
  <2>7. ListsAgree'
    BY <1>a, <2>2, <2>3 DEF ListsAgree
  <2>8. Told'
    BY <1>a, <2>1, <2>2, <2>4, <2>5 DEF Told
  <2>9. QED
    BY <1>6, <2>6, <2>7, <2>8 DEF Consistent
<1>2. CASE ~sole[u]
  <2>1. torn' /\ torn
    BY <1>2, <1>a, <1>c
  <2>2. Lone'
    BY <1>b, <1>c, <1>o, <2>1 DEF Consistent, Lone
  <2>3. FoundIsStored'
    BY <1>b, <1>c, <1>o DEF FoundIsStored
  <2>4. ListsAgree'
    BY <2>1 DEF ListsAgree
  <2>5. Told'
    <3>1. untold
      BY <1>2, <1>o, <1>c, <2>1 DEF Consistent, Told
    <3>2. QED
      BY <1>a, <2>1, <3>1 DEF Told
  <2>6. QED
    BY <1>6, <2>2, <2>3, <2>4, <2>5 DEF Consistent
<1>3. QED
  BY <1>1, <1>2

LEMMA UpdateConsistent ==
  ASSUME TypeOK, Consistent, NEW u \in Updaters, UpdateTopics(u) PROVE Consistent'
BY ReadConsistent, CompareConsistent, StoreConsistent, PublishConsistent, SaveConsistent, Zenon
   DEF UpdateTopics

\* No update is running, and the lists are those of one snapshot.
LEMMA FreshConsistent ==
  ASSUME \A u \in Updaters : at'[u] = "idle" /\ sole'[u] /\ found'[u] = NoList,
         version' \in Nat, ~torn', ~untold', active'.version \in {0, version'},
         active'.topics = previous', published' = previous',
         filtering' => active'.topics \cap Hidden = {}
  PROVE  Consistent'
<1>1. Lone' /\ FoundIsStored' /\ ListsAgree' /\ Told'
  BY DEF Lone, FoundIsStored, ListsAgree, Told
<1>2. Versions'
  <2>1. active'.version <= version'
    BY DEF NoList
  <2>2. \A u \in Updaters : found'[u].version <= version'
    BY DEF NoList
  <2>3. QED
    BY <2>1, <2>2 DEF Versions
<1>3. QED
  BY <1>1, <1>2 DEF Consistent

LEMMA ConsistentInit == Init => Consistent
<1> SUFFICES ASSUME Init PROVE Consistent
  OBVIOUS
<1>1. \A u \in Updaters : at[u] = "idle" /\ sole[u] /\ found[u] = NoList
  BY Zenon DEF Init
<1>2. ~torn /\ ~untold /\ active = NoList /\ previous = {} /\ published = {} /\ version = 0
  BY Zenon DEF Init
<1>3. Lone /\ FoundIsStored /\ ListsAgree /\ Told
  BY <1>1, <1>2 DEF Lone, FoundIsStored, ListsAgree, Told, NoList
<1>4. Versions
  BY <1>1, <1>2 DEF Versions, NoList
<1>5. QED
  BY <1>3, <1>4 DEF Consistent

LEMMA ConsistentStep == Typed /\ Typed' /\ Consistent /\ [Next]_vars => Consistent'
<1> SUFFICES ASSUME TypeOK, TypeOK', Consistent, [Next]_vars PROVE Consistent'
  BY DEF Typed
<1>v. version \in Nat /\ version' \in Nat /\ version <= version
  BY DEF TypeOK
<1> DEFINE Same == UNCHANGED <<filtering, at, found, changed, active, previous, published, sole,
                               torn, untold>>
<1>1. ASSUME Same, UNCHANGED version PROVE Consistent'
  BY <1>1, <1>v, Kept
<1>2. CASE UNCHANGED vars
  BY <1>1, <1>2 DEF vars, graphVars, flags, updating, lists, history
<1>3. CASE GraphChanges
  <2>1. Same /\ version' = version + 1
    BY <1>3 DEF GraphChanges, flags, updating, lists, history
  <2>2. QED
    BY <1>v, <2>1, Kept
<1>4. CASE Notify \/ SetParameters \/ Shutdown \/ Destroy
  BY <1>1, <1>4, Zenon
     DEF Notify, SetParameters, Shutdown, Destroy, graphVars, flags, updating, lists, history
<1>5. CASE Monitor
  <2>1. CASE CheckRun \/ Wait \/ Register
    BY <1>1, <2>1, Zenon DEF CheckRun, Wait, Register, graphVars, flags, updating, lists, history
  <2>2. CASE CheckAndClear
    <3>1. CASE event
      <4>1. CallUpdate("monitor") /\ UNCHANGED <<active, previous, published, version>>
        BY <2>2, <3>1, Zenon DEF CheckAndClear, graphVars, lists
      <4>2. at["monitor"] = "idle"
        BY <2>2 DEF TypeOK, CheckAndClear
      <4>3. QED
        BY <4>1, <4>2, Called, TwoUpdaters
    <3>2. CASE ~event
      BY <1>1, <2>2, <3>2, Zenon DEF CheckAndClear, graphVars, flags, updating, lists, history
    <3>3. QED
      BY <3>1, <3>2
  <2>3. QED
    BY <1>5, <2>1, <2>2, UpdateConsistent, TwoUpdaters, Zenon DEF Monitor
<1>6. CASE Callback
  <2>1. ASSUME NEW value \in BOOLEAN, SetPublishOnChange(value) PROVE Consistent'
    BY <1>1, <2>1, Zenon DEF SetPublishOnChange, graphVars, updating, lists, history
  <2>2. ASSUME NEW value \in BOOLEAN, SetFilterHidden(value) PROVE Consistent'
    <3>1. CallUpdate("callback") /\ UNCHANGED <<active, previous, published, version>>
      BY <2>2, Zenon DEF SetFilterHidden, graphVars, lists
    <3>2. at["callback"] = "idle"
      BY <2>2 DEF TypeOK, SetFilterHidden, Handle
    <3>3. QED
      BY <3>1, <3>2, Called, TwoUpdaters
  <2>3. CASE Enable \/ Disable \/ Joined \/ CallbackDone
    BY <1>1, <2>3, Zenon
       DEF Enable, Disable, Joined, CallbackDone, graphVars, flags, updating, lists, history
  <2>4. QED
    BY <1>6, <2>1, <2>2, <2>3, UpdateConsistent, TwoUpdaters, Zenon DEF Callback
<1>7. CASE Launch
  <2>1. PICK enabled \in BOOLEAN : Construct(enabled)
    BY <1>7, Zenon DEF Launch
  <2>2. \A u \in Updaters : at'[u] = "idle" /\ sole'[u] /\ found'[u] = NoList
    BY <2>1, Zenon DEF Construct
  <2>3. ~torn' /\ ~untold' /\ active'.topics = previous' /\ published' = previous'
    BY <2>1, Zenon DEF Construct
  <2>4. active' = Snapshot(filtering') /\ UNCHANGED <<graph, version>>
    BY <1>7, <2>1, Zenon DEF Construct, Launch
  <2>5. active'.version = version'
    BY <2>4 DEF Snapshot
  <2>6. filtering' => active'.topics \cap Hidden = {}
    BY <2>4 DEF Snapshot, Visible
  <2>7. QED
    BY <1>v, <2>2, <2>3, <2>5, <2>6, FreshConsistent
<1>8. QED
  BY <1>2, <1>3, <1>4, <1>5, <1>6, <1>7, Zenon DEF Next

LEMMA ConsistentAlways == Spec => []Consistent
BY ConsistentInit, ConsistentStep, TypedAlways, PTL DEF Spec

LEMMA ConsistentSnapshot == TypeOK /\ Consistent => SnapshotConsistent
<1> SUFFICES ASSUME TypeOK, Consistent, ~torn
             PROVE  /\ Idle => /\ active.topics = previous
                               /\ filtering => active.topics \cap Hidden = {}
                               /\ ~untold => published = active.topics
                    /\ \A u \in Updaters : at[u] = "store" => active.version <= found[u].version
  BY DEF SnapshotConsistent
<1>1. ASSUME Idle PROVE /\ active.topics = previous
                        /\ filtering => active.topics \cap Hidden = {}
                        /\ ~untold => published = active.topics
  BY <1>1 DEF Consistent, ListsAgree, Told, Idle, Before
<1>2. ASSUME NEW u \in Updaters, at[u] = "store" PROVE active.version <= found[u].version
  <2>1. sole[u]
    BY <1>2 DEF Consistent, Lone
  <2>2. QED
    BY <1>2, <2>1, Zenon DEF Consistent, Versions
<1>3. QED
  BY <1>1, <1>2

\* Once an update has been alone, the list that is served, the one that is compared
\* with, the filter and the last message agree, and no update goes back in time.
THEOREM SnapshotAgrees == Spec => []SnapshotConsistent
<1>1. Typed /\ Consistent => SnapshotConsistent
  BY ConsistentSnapshot DEF Typed
<1>2. QED
  BY <1>1, TypedAlways, ConsistentAlways, PTL

----------------------------------------------------------------------------
(* A callback returns after a bounded number of steps *)

\* One step of an update, seen from both threads.
LEMMA UpdateAdvances ==
  ASSUME Typed, NEW u \in Updaters, UpdateTopics(u)
  PROVE  /\ at[u] # "idle" /\ UpdateSteps(u)' = UpdateSteps(u) - 1
         /\ UpdateSteps(u) \in 1..5
         /\ at'[Other(u)] = at[Other(u)] /\ UNCHANGED <<todo, run>>
         /\ u = "monitor" => /\ callback' = callback
                             /\ thread' = IF at'[u] = "idle" THEN "register" ELSE thread
         /\ u = "callback" => /\ thread' = thread
                              /\ callback' = IF at'[u] = "idle" THEN "next" ELSE callback
<1>1. Phases /\ Other(u) \in Updaters /\ Other(u) # u
  BY Parts, TwoUpdaters DEF Typed
<1>2. at \in [Updaters -> Steps]
  BY <1>1 DEF Phases
<1>3. CASE ReadGraph(u)
  BY <1>1, <1>2, <1>3 DEF ReadGraph, UpdateSteps
<1>4. CASE Compare(u)
  BY <1>1, <1>2, <1>4 DEF Compare, UpdateSteps
<1>5. CASE Store(u)
  BY <1>1, <1>2, <1>5 DEF Store, UpdateSteps
<1>6. CASE Publish(u)
  BY <1>1, <1>2, <1>6 DEF Publish, UpdateSteps
<1>7. CASE Save(u)
  BY <1>1, <1>2, <1>7 DEF Save, UpdateSteps
<1>8. QED
  BY <1>3, <1>4, <1>5, <1>6, <1>7 DEF UpdateTopics

LEMMA StepsTyped ==
  ASSUME Typed
  PROVE  /\ \A u \in Updaters : UpdateSteps(u) \in 0..5 /\ (UpdateSteps(u) = 0 <=> at[u] = "idle")
         /\ MonitorSteps \in 0..9 /\ (MonitorSteps = 0 <=> thread \in {"none", "exited"})
         /\ Len(todo) \in Nat /\ CallbackSteps \in Nat
<1>1. Phases /\ todo \in Seq(Settings)
  BY Parts DEF Typed, Settled
<1>2. \A u \in Updaters : UpdateSteps(u) \in 0..5 /\ (UpdateSteps(u) = 0 <=> at[u] = "idle")
  BY <1>1 DEF Phases, UpdateSteps, Steps
<1>3. MonitorSteps \in 0..9 /\ (MonitorSteps = 0 <=> thread \in {"none", "exited"})
  BY <1>1, <1>2, TwoUpdaters DEF MonitorSteps, Phases
<1>4. Len(todo) \in Nat
  BY <1>1
<1>5. CallbackSteps \in Nat
  BY <1>2, <1>4, TwoUpdaters DEF CallbackSteps
<1>6. QED
  BY <1>2, <1>3, <1>4, <1>5

\* Without its flag the monitor only goes to its end.
LEMMA MonitorAdvances ==
  ASSUME Typed, ~run, Monitor
  PROVE  MonitorSteps' < MonitorSteps /\ UNCHANGED <<callback, todo>>
         /\ at'["callback"] = at["callback"]
<1>1. Phases /\ Placed
  BY Parts DEF Typed
<1>2. CASE CheckRun
  BY <1>2 DEF CheckRun, MonitorSteps, updating
<1>3. CASE Wait
  BY <1>3 DEF Wait, MonitorSteps, updating
<1>4. CASE CheckAndClear
  <2>1. thread = "clear" /\ UNCHANGED <<callback, todo>>
    BY <1>4 DEF CheckAndClear
  <2>2. CASE thread' = "check" /\ UNCHANGED updating
    BY <2>1, <2>2 DEF MonitorSteps, updating
  <2>3. CASE thread' = "update" /\ CallUpdate("monitor")
    <3>1. at' = [at EXCEPT !["monitor"] = "read"] /\ at \in [Updaters -> Steps]
      BY <1>1, <2>3 DEF CallUpdate, Phases
    <3>2. at'["monitor"] = "read" /\ at'["callback"] = at["callback"]
      BY <3>1, TwoUpdaters
    <3>3. QED
      BY <2>1, <2>3, <3>2 DEF MonitorSteps, UpdateSteps
  <2>4. QED
    BY <1>4, <2>2, <2>3 DEF CheckAndClear
<1>5. CASE Register
  BY <1>5 DEF Register, MonitorSteps, updating
<1>6. CASE UpdateTopics("monitor")
  <2>1. thread = "update"
    BY <1>1, <1>6, UpdateAdvances, TwoUpdaters DEF Placed
  <2>2. /\ UpdateSteps("monitor")' = UpdateSteps("monitor") - 1
        /\ UpdateSteps("monitor") \in 1..5 /\ UNCHANGED <<callback, todo>>
        /\ thread' \in {"register", "update"} /\ at'["callback"] = at["callback"]
    BY <1>6, <2>1, UpdateAdvances, TwoUpdaters DEF Other
  <2>3. QED
    BY <2>1, <2>2 DEF MonitorSteps
<1>7. QED
  BY <1>2, <1>3, <1>4, <1>5, <1>6 DEF Monitor

\* The callback only goes to its end, and no step of it delays the monitor that it
\* waits for.
LEMMA CallbackGoesOn ==
  ASSUME Typed, Callback
  PROVE  /\ CallbackSteps' < CallbackSteps
         /\ callback \in {"join", "destroy"} => MonitorSteps' = MonitorSteps
<1>1. Phases /\ Placed /\ Len(todo) \in Nat /\ todo \in Seq(Settings)
  BY Parts, StepsTyped DEF Typed, Settled
<1>2. ASSUME NEW name, NEW value, Handle(name, value)
      PROVE  callback = "next" /\ Len(todo') = Len(todo) - 1 /\ Len(todo') \in Nat
  <2>1. callback = "next" /\ todo # <<>> /\ todo' = Tail(todo)
    BY <1>2 DEF Handle
  <2>2. QED
    BY <1>1, <2>1
<1>3. ASSUME NEW value \in BOOLEAN, SetPublishOnChange(value)
      PROVE  callback = "next" /\ CallbackSteps' < CallbackSteps
  BY <1>2, <1>3 DEF SetPublishOnChange, CallbackSteps
<1>4. ASSUME NEW value \in BOOLEAN, SetFilterHidden(value)
      PROVE  callback = "next" /\ CallbackSteps' < CallbackSteps
  <2>1. Handle("filter_hidden", value) /\ callback' = "update" /\ CallUpdate("callback")
    BY <1>4, Zenon DEF SetFilterHidden
  <2>2. at' = [at EXCEPT !["callback"] = "read"] /\ at \in [Updaters -> Steps]
    BY <1>1, <2>1 DEF CallUpdate, Phases
  <2>3. UpdateSteps("callback")' = 5
    BY <2>2, TwoUpdaters DEF UpdateSteps
  <2>4. QED
    BY <1>1, <1>2, <2>1, <2>3 DEF CallbackSteps
<1>5. CASE Enable \/ Disable
  <2>1. callback = "next" /\ Len(todo') = Len(todo) - 1 /\ Len(todo') \in Nat
    BY <1>2, <1>5, Zenon DEF Enable, Disable
  <2>2. callback' \in {"next", "join"}
    BY <1>5, <2>1 DEF Enable, Disable
  <2>3. QED
    BY <1>1, <2>1, <2>2 DEF CallbackSteps
<1>6. CASE UpdateTopics("callback")
  <2>1. callback = "update"
    BY <1>1, <1>6, UpdateAdvances, TwoUpdaters DEF Placed
  <2>2. /\ UpdateSteps("callback")' = UpdateSteps("callback") - 1 /\ todo' = todo
        /\ UpdateSteps("callback") \in 1..5 /\ callback' \in {"next", "update"}
    BY <1>6, <2>1, UpdateAdvances, TwoUpdaters
  <2>3. QED
    BY <1>1, <2>1, <2>2 DEF CallbackSteps
<1>7. CASE Joined
  <2>1. /\ thread \in {"none", "exited"} /\ thread' = "none" /\ todo' = todo
        /\ \/ callback = "join" /\ callback' = "next"
           \/ callback = "destroy" /\ callback' = "gone"
    BY <1>7 DEF Joined
  <2>2. QED
    BY <1>1, <2>1 DEF CallbackSteps, MonitorSteps
<1>8. CASE CallbackDone
  BY <1>1, <1>8 DEF CallbackDone, CallbackSteps
<1>9. QED
  BY <1>3, <1>4, <1>5, <1>6, <1>7, <1>8, Zenon DEF Callback

\* The callback and the destructor return after as many steps of their own as the
\* settings account for, and at most nine of the monitor for each join: the safety half
\* of CallbackReturns, for every set of parameters.
THEOREM CallbacksAdvance == Spec => CallbackBounded
<1>1. Typed /\ [Next]_vars => [CallbackAdvances]_vars
  <2> SUFFICES ASSUME Typed, Next, callback \notin {"idle", "gone"} PROVE CallbackAdvances
    BY DEF CallbackAdvances
  <2>1. MonitorSteps <= 9 /\ (MonitorSteps = 0 <=> thread \in {"none", "exited"})
    BY StepsTyped
  <2>2. callback \in {"join", "destroy"} => ~run
    BY DEF Typed, Follows
  <2>3. CASE Callback
    <3>1. callback \in {"join", "destroy"} => MonitorSteps' = MonitorSteps /\ ~Monitor
      <4>1. callback \in {"join", "destroy"} => thread \in {"none", "exited"}
        BY <2>3, TwoUpdaters, UpdateAdvances, Parts, Zenon DEF Callback, Joined, CallbackDone,
           SetPublishOnChange, SetFilterHidden, Enable, Disable, Handle, Typed, Placed
      <4>2. thread \in {"none", "exited"} => ~Monitor
        <5>1. Placed
          BY Parts DEF Typed
        <5>2. UpdateTopics("monitor") => thread = "update"
          BY <5>1, UpdateAdvances, TwoUpdaters DEF Placed
        <5>3. QED
          BY <5>2 DEF Monitor, CheckRun, Wait, CheckAndClear, Register
      <4>3. QED
        BY <2>3, <4>1, <4>2, CallbackGoesOn
    <3>2. QED
      BY <2>1, <2>3, <3>1, CallbackGoesOn DEF CallbackAdvances
  <2>4. CASE Monitor /\ ~Callback
    <3>1. CallbackSteps' = CallbackSteps
      <4>1. UNCHANGED <<callback, todo>> /\ at'["callback"] = at["callback"]
        <5>1. CASE UpdateTopics("monitor")
          BY <5>1, UpdateAdvances, TwoUpdaters DEF Other
        <5>2. CASE CheckAndClear
          <6>1. Phases /\ UNCHANGED <<callback, todo>>
            BY <5>2, Parts DEF Typed, CheckAndClear
          <6>2. at' = at \/ at' = [at EXCEPT !["monitor"] = "read"]
            BY <5>2 DEF CheckAndClear, CallUpdate, updating
          <6>3. QED
            BY <6>1, <6>2, TwoUpdaters DEF Phases
        <5>3. CASE CheckRun \/ Wait \/ Register
          BY <5>3 DEF CheckRun, Wait, Register, updating
        <5>4. QED
          BY <2>4, <5>1, <5>2, <5>3 DEF Monitor
      <4>2. QED
        BY <4>1 DEF CallbackSteps, UpdateSteps
    <3>2. callback \in {"join", "destroy"} => MonitorSteps' < MonitorSteps
      BY <2>2, <2>4, MonitorAdvances
    <3>3. QED
      BY <2>1, <2>4, <3>1, <3>2 DEF CallbackAdvances
  <2>5. CASE GraphChanges \/ Notify \/ Shutdown
    <3>1. UNCHANGED <<callback, todo, at, thread>>
      BY <2>5 DEF GraphChanges, Notify, Shutdown, updating
    <3>2. CallbackSteps' = CallbackSteps /\ MonitorSteps' = MonitorSteps
      BY <3>1 DEF CallbackSteps, MonitorSteps, UpdateSteps
    <3>3. QED
      BY <2>1, <2>3, <2>4, <3>2 DEF CallbackAdvances
  <2>6. CASE SetParameters \/ Destroy \/ Launch
    BY <2>6 DEF SetParameters, Destroy, Launch
  <2>7. QED
    BY <2>3, <2>4, <2>5, <2>6 DEF Next
<1>2. QED
  BY <1>1, TypedAlways, PTL DEF Spec, CallbackBounded
=============================================================================
