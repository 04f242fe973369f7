--------------------- MODULE DispatcherControllerProofs ---------------------
(***************************************************************************)
(* Proofs about DispatcherController, for every set of topics, selections, *)
(* requests and ids, every setting of the parameters, and any number of    *)
(* faults of every kind.                                                   *)
(*                                                                         *)
(* Three inductive invariants carry them.  Typed adds to TypeOK what the   *)
(* stage says of the loops over tools (Work).  Knows says what a handler   *)
(* may rely on while nobody interferes: what it has seen of this sink      *)
(* (KnowsSink), what the sinks and tools behind it do (KnowsApply,         *)
(* KnowsStop).  Tracked says how far the loops over tools have come.  That *)
(* each step of a handler leaves it fewer calls to make needs besides only *)
(* that the map of tools is finite (Sized).                                *)
(*                                                                         *)
(* That the sinks keep their contract needs no more than Typed and         *)
(* ActiveStreamsParameter: it is proved step by step.                      *)
(***************************************************************************)
EXTENDS DispatcherController, FiniteSetTheorems, FunctionTheorems, WellFoundedInduction, TLAPS

\* What the call a handler is about to make says of the request and of the
\* loop it is in.
Work ==
  /\ stage = "idle" <=> request = "none"
  /\ Stopping => stage \in {"state", "deactivate", "clear", "finish"}
  /\ stage = "clear" => todo \subseteq DOMAIN active
  /\ stage = "load" => todo \subseteq PlanTools(selection)

Typed == TypeOK /\ Work

\* Type correctness in three parts: of the handler that runs and its outcome, of
\* what the controller remembers, and of the rest of the system.
HandlerTyped ==
  /\ phase \in {"IDLE", "BUSY", "ERROR"} /\ lastError \in BOOLEAN
  /\ request \in Applying \cup {"stop", "none"} /\ argument \in BOOLEAN
  /\ stage \in Transitions \cup
       {"idle", "state", "confirm", "clear", "load", "params", "finish"}
  /\ sink \in Sinks /\ selection \in Selections /\ todo \subseteq Topics \cup Nat
  /\ clean \in BOOLEAN

MemoryTyped ==
  /\ mode \in Modes /\ path \in BOOLEAN
  /\ cache \in Selections /\ applied \in Selections
  /\ startup \in BOOLEAN

SystemTyped ==
  /\ DOMAIN active \subseteq Topics /\ active \in [DOMAIN active -> ToolIds]
  /\ up \in [Servers -> BOOLEAN]
  /\ state \in [Sinks -> {"unconfigured", "inactive", "active", "finalized"}]
  /\ subs \in [Sinks -> Selections] /\ streamed \in [Sinks -> Selections]
  /\ loaded \subseteq ToolIds /\ orphans \subseteq ToolIds
  /\ stale \subseteq ToolIds \ loaded
  /\ introspecting \in BOOLEAN
  /\ lateSink \subseteq SinkRequests /\ lateTool \subseteq ToolRequests
  /\ faults \in 0..FaultLimit

----------------------------------------------------------------------------
(* Facts about the constants and the choices of the model *)

\* What the proofs use of the assumption.
LEMMA ConstantsFacts == StartMode \in Modes /\ FaultLimit \in Nat /\ ToolIds \subseteq Nat
<1>1. StartMode \in Modes
  BY ConstantsAssumption, Zenon DEF ConstantsAssumption, Modes
<1>2. FaultLimit \in Nat /\ ToolIds \subseteq Nat \ {0}
  BY ConstantsAssumption, Zenon DEF ConstantsAssumption
<1> QED
  BY <1>1, <1>2

\* The selections are sequences of entries, and none is one of them.
LEMMA SelectionsFacts ==
  /\ <<>> \in Selections
  /\ Gui \subseteq Selections /\ File \subseteq Selections /\ All \subseteq Selections
  /\ \A sel \in Selections : \A i \in DOMAIN sel :
       i \in Nat /\ sel[i].topic \in Topics /\ sel[i].tool \in BOOLEAN
<1>1. /\ <<>> \in Selections
      /\ Gui \subseteq Selections /\ File \subseteq Selections /\ All \subseteq Selections
  BY DEF Selections
<1>2. ASSUME NEW sel \in Selections, NEW i \in DOMAIN sel
      PROVE  i \in Nat /\ sel[i].topic \in Topics /\ sel[i].tool \in BOOLEAN
  <2>1. sel \in Seq(Entries)
    BY ConstantsAssumption DEF ConstantsAssumption
  <2>2. i \in Nat /\ sel[i] \in Entries
    BY <2>1
  <2> QED
    BY <2>2 DEF Entries
<1> QED
  BY <1>1, <1>2

\* The sinks are servers, and the container and introspection are not sinks.
LEMMA SinksFacts ==
  /\ "kafka" \in Sinks /\ (MosquittoEnabled => "mosquitto" \in Sinks)
  /\ \A s \in Sinks : s \in {"kafka", "mosquitto"}
  /\ (MosquittoEnabled <=> "mosquitto" \in Sinks)
  /\ \A s \in Sinks : s \in Servers
  /\ "container" \in Servers /\ "introspection" \in Servers
BY DEF Sinks, Servers

\* A nonempty set of natural numbers has a least element.
LEMMA LeastElement ==
  ASSUME NEW S \in SUBSET Nat, S # {}
  PROVE  \E x \in S : \A y \in S : x <= y
<1>1. PICK x \in S : \A y \in S : ~(<<y, x>> \in OpToRel(<, Nat))
  BY WFMin, NatLessThanWellFounded, Zenon
<1>2. \A y \in S : ~(y < x)
  BY <1>1 DEF OpToRel
<1> QED
  BY <1>2

\* The next id of a container is free; the controller has it, if at all, from one that
\* ended.
LEMMA NextIdFact ==
  ASSUME NEW id \in NextIds
  PROVE  /\ id \in ToolIds /\ id \notin loaded
         /\ id \in stale \/ \A t \in DOMAIN active : id # active[t]
BY DEF NextIds, FreshIds

\* The loop over the tools takes one of those that are left.
LEMMA NextToolFact ==
  ASSUME todo # {}, todo \in SUBSET Nat
  PROVE  NextTool \in todo
BY LeastElement DEF NextTool

----------------------------------------------------------------------------
(* Type correctness *)

\* The initial states are type correct.
LEMMA TypedInit == Init => Typed
<1> SUFFICES ASSUME Init PROVE Typed
  OBVIOUS
<1>1. /\ phase \in {"IDLE", "BUSY", "ERROR"} /\ lastError \in BOOLEAN
      /\ mode \in Modes /\ path \in BOOLEAN
      /\ request = "none" /\ argument \in BOOLEAN
      /\ introspecting \in BOOLEAN /\ faults \in 0..FaultLimit /\ clean \in BOOLEAN
  <2>1. /\ phase = "IDLE" /\ lastError = FALSE /\ mode = StartMode /\ path \in BOOLEAN
        /\ request = "none" /\ argument = FALSE /\ introspecting = TRUE /\ faults = 0
        /\ clean = TRUE
    BY Zenon DEF Init
  <2>2. lastError \in BOOLEAN /\ argument \in BOOLEAN /\ introspecting \in BOOLEAN
        /\ clean \in BOOLEAN
    BY <2>1, Zenon
  <2>3. phase \in {"IDLE", "BUSY", "ERROR"} /\ mode \in Modes /\ faults \in 0..FaultLimit
    BY <2>1, ConstantsFacts
  <2> QED
    BY <2>1, <2>2, <2>3, Zenon
<1>2. /\ cache \in Selections /\ applied \in Selections
      /\ DOMAIN active = {} /\ active \in [{} -> ToolIds]
      /\ sink \in Sinks /\ selection \in Selections
      /\ up \in [Servers -> BOOLEAN]
      /\ state \in [Sinks -> {"unconfigured", "inactive", "active", "finalized"}]
      /\ subs \in [Sinks -> Selections] /\ streamed \in [Sinks -> Selections]
  BY SelectionsFacts, SinksFacts DEF Init
<1>3. startup \in BOOLEAN
  BY Zenon DEF Init
<1>4. stale \subseteq ToolIds \ loaded
  BY DEF Init
<1> QED
  BY <1>1, <1>2, <1>3, <1>4 DEF Init, Typed, TypeOK, Work, Stopping

\* Typed, part by part.
LEMMA TypedParts ==
  /\ Typed => HandlerTyped /\ MemoryTyped /\ SystemTyped /\ Work
  /\ HandlerTyped' /\ MemoryTyped' /\ SystemTyped' /\ Work' => Typed'
BY DEF Typed, TypeOK, HandlerTyped, MemoryTyped, SystemTyped

\* A handler that returns leaves nothing behind.
LEMMA ReturnTyped ==
  ASSUME HandlerTyped, Return, phase' \in {"IDLE", "BUSY", "ERROR"},
         lastError' \in BOOLEAN
  PROVE  HandlerTyped' /\ Work'
BY SelectionsFacts, SinksFacts DEF HandlerTyped, Return, Work, Stopping

\* Failing, rejecting and replying are ways to return.
LEMMA FailTyped == ASSUME HandlerTyped, Fail PROVE HandlerTyped' /\ Work'
<1>1. lastError' \in BOOLEAN
  BY Zenon DEF HandlerTyped, Fail
<1> QED
  BY <1>1, ReturnTyped DEF Fail

\* A request that is rejected returns.
LEMMA RejectTyped ==
  ASSUME HandlerTyped, NEW r, Reject(r) PROVE HandlerTyped' /\ Work'
<1>1. lastError' \in BOOLEAN
  BY Zenon DEF HandlerTyped, Reject
<1> QED
  BY <1>1, ReturnTyped DEF Reject, HandlerTyped

\* A request that changes no outcome returns.
LEMMA ReplyTyped ==
  ASSUME HandlerTyped, Return, UNCHANGED <<phase, lastError>>
  PROVE  HandlerTyped' /\ Work'
<1>1. phase' \in {"IDLE", "BUSY", "ERROR"} /\ lastError' \in BOOLEAN
  BY DEF HandlerTyped
<1> QED
  BY <1>1, ReturnTyped

\* An apply begins at the Kafka sink.
LEMMA StartTyped ==
  ASSUME HandlerTyped, NEW r \in Applying, NEW sel \in Selections,
         NEW flag \in BOOLEAN, Start(r, sel, flag)
  PROVE  HandlerTyped' /\ Work'
<1>1. CASE sel = <<>>
  <2>1. Return /\ phase' = "ERROR" /\ lastError' = (lastError \/ r \in Reporting)
    BY <1>1 DEF Start
  <2>2. lastError' \in BOOLEAN
    BY <2>1, Zenon DEF HandlerTyped
  <2> QED
    BY <2>1, <2>2, ReturnTyped
<1>2. CASE sel # <<>>
  BY <1>2, SinksFacts DEF Start, HandlerTyped, Work, Stopping, Applying
<1> QED
  BY <1>1, <1>2

\* A handler that goes on keeps its type if the next call is one that it may make.
LEMMA GotoTyped ==
  ASSUME HandlerTyped, Work, stage # "idle", NEW next, NEW s \in Sinks, NEW work,
         Goto(next, s, work),
         next \in IF Stopping THEN {"state", "deactivate", "clear", "finish"}
                  ELSE Transitions \cup
                         {"state", "confirm", "clear", "load", "params", "finish"},
         work \in SUBSET (Topics \cup Nat),
         next = "clear" => work \subseteq DOMAIN active',
         next = "load" => work \subseteq PlanTools(selection)
  PROVE  HandlerTyped' /\ Work'
<1>1. clean' \in BOOLEAN
  BY DEF Goto
<1>2. /\ stage' = next /\ sink' = s /\ todo' = work
      /\ UNCHANGED <<request, argument, selection, phase, lastError>>
  BY DEF Goto, outcome
<1>3. next \in Transitions \cup
        {"state", "confirm", "clear", "load", "params", "finish"}
  BY DEF Transitions
<1>4. HandlerTyped'
  BY <1>1, <1>2, <1>3 DEF HandlerTyped
<1>5. Work'
  BY <1>2 DEF Work, Stopping, PlanTools, Transitions
<1> QED
  BY <1>4, <1>5

\* The choice of the next call by Ready, Resume and SinkDone.
LEMMA ReadyTyped ==
  ASSUME HandlerTyped, Work, SystemTyped, active' = active, stage # "idle",
         ~Stopping, Ready
  PROVE  HandlerTyped' /\ Work'
<1>1. DOMAIN active \subseteq Topics /\ sink \in Sinks
  BY DEF SystemTyped, HandlerTyped
<1>2. \/ Goto("clear", sink, DOMAIN active)
      \/ Goto("params", sink, {})
  BY DEF Ready
<1>3. {} \in SUBSET (Topics \cup Nat) /\ DOMAIN active \in SUBSET (Topics \cup Nat)
  BY <1>1
<1>4. CASE Goto("clear", sink, DOMAIN active)
  BY <1>1, <1>3, <1>4, GotoTyped
<1>5. CASE Goto("params", sink, {})
  BY <1>1, <1>3, <1>5, GotoTyped
<1> QED
  BY <1>2, <1>4, <1>5

\* ... with the sink configured first if it has to be.
LEMMA ResumeTyped ==
  ASSUME HandlerTyped, Work, SystemTyped, active' = active, stage # "idle",
         ~Stopping, Resume
  PROVE  HandlerTyped' /\ Work'
<1>1. CASE Goto("configure", sink, {})
  <2>1. "configure" \in Transitions /\ sink \in Sinks
    BY DEF Transitions, HandlerTyped
  <2>2. {} \in SUBSET (Topics \cup Nat)
    OBVIOUS
  <2> QED
    BY <1>1, <2>1, <2>2, GotoTyped
<1>2. CASE Ready
  BY <1>2, ReadyTyped
<1> QED
  BY <1>1, <1>2 DEF Resume

\* ... and after a sink is done.
LEMMA SinkDoneTyped ==
  ASSUME HandlerTyped, Work, SystemTyped, active' = active, stage # "idle", SinkDone
  PROVE  HandlerTyped' /\ Work'
<1>1. DOMAIN active \subseteq Topics /\ sink \in Sinks
  BY DEF SystemTyped, HandlerTyped
<1>2. {} \in SUBSET (Topics \cup Nat) /\ DOMAIN active \in SUBSET (Topics \cup Nat)
  BY <1>1
<1>3. CASE MosquittoEnabled /\ Goto("state", "mosquitto", {})
  BY <1>2, <1>3, SinksFacts, GotoTyped
<1>4. CASE Stopping /\ Goto("clear", sink, DOMAIN active)
  BY <1>1, <1>2, <1>4, GotoTyped
<1>5. CASE Goto("finish", sink, {})
  BY <1>1, <1>2, <1>5, GotoTyped
<1> QED
  BY <1>3, <1>4, <1>5 DEF SinkDone

\* Getting a selection, in whichever request.
LEMMA ObtainTyped ==
  ASSUME HandlerTyped, MemoryTyped, SystemTyped, NEW r \in Applying, NEW m \in Modes,
         NEW file, NEW flag \in BOOLEAN, NEW now, Obtain(r, m, file, flag, now),
         Work
  PROVE  HandlerTyped' /\ Work' /\ SystemTyped'
         /\ cache' \in Selections /\ applied' \in Selections
<1>1. \A sel \in Yield(m, file) : sel \in Selections
  BY DEF Yield
<1>2. introspecting' \in BOOLEAN
  BY DEF Obtain, SystemTyped
<1>3. UNCHANGED <<cache, applied, state, subs, streamed, active, loaded, orphans, stale,
                  lateSink, lateTool, up, faults>>
  BY DEF Obtain, sinks, tools, late
<1>4. SystemTyped'
  BY <1>2, <1>3 DEF SystemTyped
<1>5. cache' \in Selections /\ applied' \in Selections
  BY <1>3 DEF MemoryTyped
<1>6. CASE Reject(r)
  BY <1>4, <1>5, <1>6, RejectTyped
<1>7. ASSUME NEW sel \in Yield(m, file), Reject(r) \/ Start(r, sel, flag) \/ Reply
      PROVE  HandlerTyped' /\ Work'
  <2>1. CASE Reply
    BY <2>1, ReplyTyped DEF Reply, outcome
  <2> QED
    BY <1>1, <1>7, <2>1, RejectTyped, StartTyped
<1> QED
  BY <1>4, <1>5, <1>6, <1>7 DEF Obtain

\* Every beginning of a request keeps Typed.
LEMMA BeginTyped ==
  ASSUME Typed, Begin PROVE Typed'
<1> USE TypedParts
<1>1. CASE ApplySelection
  <2>1. MemoryTyped' /\ SystemTyped'
    BY <1>1 DEF ApplySelection, MemoryTyped, SystemTyped, memory, sinks, tools, late
  <2>2. \A sel \in Gui : Start("apply", sel, FALSE) => HandlerTyped' /\ Work'
    BY StartTyped, SelectionsFacts DEF Applying
  <2> QED
    BY <1>1, <2>1, <2>2, RejectTyped DEF ApplySelection
<1>2. CASE ReloadSelection
  <2>1. UNCHANGED <<mode, path, startup>>
    BY <1>2 DEF ReloadSelection
  <2>2. PICK given \in BOOLEAN, now \in BOOLEAN :
          Obtain("reload", mode, path \/ given, FALSE, now)
    BY <1>2 DEF ReloadSelection
  <2>3. "reload" \in Applying /\ mode \in Modes
    BY DEF Applying, MemoryTyped
  <2>4. /\ HandlerTyped' /\ Work' /\ SystemTyped'
        /\ cache' \in Selections /\ applied' \in Selections
    BY <2>2, <2>3, ObtainTyped
  <2> QED
    BY <2>1, <2>4 DEF MemoryTyped
<1>3. ASSUME NEW r \in {"mode", "param"}, SwitchMode(r) PROVE Typed'
  <2>1. PICK m \in Modes, given \in BOOLEAN, cleared \in BOOLEAN, now \in BOOLEAN :
          /\ mode' = m
          /\ \/ /\ Reply
                /\ path' = ((path \/ given) /\ ~cleared)
                /\ UNCHANGED <<cache, introspecting, applied, sinks, tools, late, up,
                               faults>>
             \/ /\ Obtain(r, m, path \/ given, cleared, TRUE)
                /\ path' = (path \/ given)
    BY <1>3, Zenon DEF SwitchMode
  <2>2. startup' = startup
    BY <1>3 DEF SwitchMode
  <2>3. mode' \in Modes
    BY <2>1
  <2>4. path' \in BOOLEAN
    BY <2>1, Zenon DEF MemoryTyped
  <2>5. CASE Reply /\ UNCHANGED <<cache, introspecting, applied, sinks, tools, late, up,
                                  faults>>
    <3>1. HandlerTyped' /\ Work'
      BY <2>5, ReplyTyped DEF Reply, outcome
    <3>2. MemoryTyped' /\ SystemTyped'
      BY <2>2, <2>3, <2>4, <2>5 DEF MemoryTyped, SystemTyped, sinks, tools, late
    <3> QED
      BY <3>1, <3>2
  <2>6. CASE Obtain(r, m, path \/ given, cleared, TRUE)
    <3>1. r \in Applying
      BY DEF Applying
    <3>2. /\ HandlerTyped' /\ Work' /\ SystemTyped'
          /\ cache' \in Selections /\ applied' \in Selections
      BY <2>6, <3>1, ObtainTyped
    <3> QED
      BY <2>2, <2>3, <2>4, <3>2 DEF MemoryTyped
  <2> QED
    BY <2>1, <2>5, <2>6
<1>4. CASE StartupApply
  <2>1. UNCHANGED <<mode, path>> /\ startup' = FALSE
    BY <1>4 DEF StartupApply
  <2>2. CASE Obtain("startup", "file", TRUE, FALSE, TRUE)
    <3>1. "startup" \in Applying /\ "file" \in Modes
      BY DEF Applying, Modes
    <3>2. /\ HandlerTyped' /\ Work' /\ SystemTyped'
          /\ cache' \in Selections /\ applied' \in Selections
      BY <2>2, <3>1, ObtainTyped
    <3> QED
      BY <2>1, <3>2 DEF MemoryTyped
  <2>3. CASE UNCHANGED <<cache, applied, outcome, handler, sinks, tools, late, up,
                         introspecting, faults>>
    <3>1. MemoryTyped' /\ SystemTyped'
      BY <2>1, <2>3 DEF MemoryTyped, SystemTyped, sinks, tools, late
    <3>2. HandlerTyped' /\ Work'
      BY <2>3 DEF HandlerTyped, Work, Stopping, PlanTools, outcome, handler, tools
    <3> QED
      BY <3>1, <3>2
  <2> QED
    BY <1>4, <2>2, <2>3 DEF StartupApply
<1>5. CASE StopStreaming
  <2>1. MemoryTyped' /\ SystemTyped'
    BY <1>5 DEF StopStreaming, MemoryTyped, SystemTyped, memory, sinks, tools, late
  <2>2. HandlerTyped' /\ Work'
    BY <1>5, SinksFacts DEF StopStreaming, HandlerTyped, Work, Stopping, outcome
  <2> QED
    BY <2>1, <2>2
<1> QED
  BY <1>1, <1>2, <1>3, <1>4, <1>5 DEF Begin

\* Faults are counted within the bound.
LEMMA FaultTyped ==
  ASSUME SystemTyped, NEW kind, NEW s, Fault(kind) \/ NoService(s) \/ UNCHANGED faults
  PROVE  faults' \in 0..FaultLimit
BY ConstantsFacts DEF SystemTyped, Fault, NoService

\* A request that is given up is one of those that can be.
LEMMA GiveUpTyped ==
  ASSUME SystemTyped, NEW r \in SinkRequests, GiveUp(r)
  PROVE  lateSink' \subseteq SinkRequests
BY DEF SystemTyped, GiveUp

\* The same for the container.
LEMMA GiveUpToolTyped ==
  ASSUME SystemTyped, NEW r \in ToolRequests, GiveUpTool(r)
  PROVE  lateTool' \subseteq ToolRequests
BY DEF SystemTyped, GiveUpTool

\* What a transition does to a sink.
LEMMA TransitionTyped ==
  ASSUME SystemTyped, NEW t \in Transitions, NEW s \in Sinks,
         (Succeed(t, s) /\ UNCHANGED faults) \/ Refuse(t, s)
  PROVE  /\ state' \in [Sinks -> {"unconfigured", "inactive", "active", "finalized"}]
         /\ streamed' \in [Sinks -> Selections]
         /\ faults' \in 0..FaultLimit
<1>1. CASE Succeed(t, s) /\ UNCHANGED faults
  BY <1>1, SelectionsFacts DEF Succeed, SystemTyped
<1>2. CASE Refuse(t, s)
  <2>1. faults' \in 0..FaultLimit
    BY <1>2, FaultTyped DEF Refuse
  <2> QED
    BY <1>2, <2>1 DEF Refuse, SystemTyped
<1> QED
  BY <1>1, <1>2

\* Every step of a handler that is under way keeps Typed.
LEMMA ContinueTyped ==
  ASSUME Typed, Continue PROVE Typed'
<1> USE TypedParts
<1>m. stage # "idle" /\ UNCHANGED memory => MemoryTyped'
  BY DEF MemoryTyped, memory
<1>s. UNCHANGED <<sinks, tools, late, up, introspecting, faults>> => SystemTyped'
  BY DEF SystemTyped, sinks, tools, late
<1>i. Continue => stage # "idle"
  BY DEF Continue, ReadState, StateUnknown, ChangeState, ChangeStateUnanswered,
     SetSubscriptions, SetSubscriptionsUnanswered, UnloadTool, UnloadUnanswered,
     ClearDone, LoadTool, LoadUnanswered, LoadDone, Finish, Transitions
<1>n. /\ sink \in Sinks /\ {} \in SUBSET (Topics \cup Nat) /\ DOMAIN active \subseteq Topics
      /\ "deactivate" \in Transitions /\ "activate" \in Transitions
  BY DEF HandlerTyped, Transitions, SystemTyped
<1>1. CASE ReadState
  <2>1. UNCHANGED <<memory, sinks, tools, late, up, introspecting, faults>>
        /\ active' = active
    BY <1>1 DEF ReadState, tools
  <2>2. \/ Goto("deactivate", sink, {}) \/ SinkDone \/ (~Stopping /\ Resume) \/ Fail
    BY <1>1 DEF ReadState
  <2>3. Goto("deactivate", sink, {}) => HandlerTyped' /\ Work'
    BY <1>i, <1>n, GotoTyped
  <2>4. HandlerTyped' /\ Work'
    BY <1>i, <2>1, <2>2, <2>3, SinkDoneTyped, ResumeTyped, FailTyped
  <2> QED
    BY <1>m, <1>s, <1>i, <2>1, <2>4
<1>2. CASE StateUnknown
  <2>1. UNCHANGED <<memory, sinks, tools, late, up, introspecting>> /\ active' = active
    BY <1>2 DEF StateUnknown, tools
  <2>2. faults' \in 0..FaultLimit
    BY <1>2, FaultTyped DEF StateUnknown, Unanswered, TimedOut
  <2>3. SinkDone \/ Fail
    BY <1>2 DEF StateUnknown
  <2>4. HandlerTyped' /\ Work'
    BY <1>i, <2>1, <2>3, SinkDoneTyped, FailTyped
  <2>5. SystemTyped'
    BY <2>1, <2>2 DEF SystemTyped, sinks, tools, late
  <2> QED
    BY <1>m, <1>i, <2>1, <2>4, <2>5
<1>3. CASE ChangeState
  <2>1. UNCHANGED <<subs, memory, tools, late, up, introspecting>> /\ active' = active
    BY <1>3 DEF ChangeState, tools
  <2>2. stage \in Transitions
        /\ ((Succeed(stage, sink) /\ UNCHANGED faults) \/ Refuse(stage, sink))
    BY <1>3 DEF ChangeState
  <2>3. SystemTyped'
    BY <1>n, <2>1, <2>2, TransitionTyped DEF SystemTyped, tools, late
  <2>4. \/ stage = "configure" /\ Ready
        \/ ~Stopping /\ Goto("confirm", sink, {})
        \/ SinkDone \/ Fail
    BY <1>3 DEF ChangeState
  <2>5. CASE stage = "configure" /\ Ready
    <3>1. ~Stopping
      BY <2>5 DEF Work
    <3> QED
      BY <1>i, <1>m, <2>1, <2>3, <2>5, <3>1, ReadyTyped
  <2>6. CASE ~Stopping /\ Goto("confirm", sink, {})
    <3>1. HandlerTyped' /\ Work'
      BY <1>i, <1>n, <2>6, GotoTyped
    <3> QED
      BY <1>i, <1>m, <2>1, <2>3, <3>1
  <2> QED
    BY <1>i, <1>m, <2>1, <2>3, <2>4, <2>5, <2>6, SinkDoneTyped, FailTyped
<1>4. CASE ChangeStateUnanswered
  <2>1. UNCHANGED <<memory, sinks, tools, lateTool, up, introspecting>> /\ Fail
    BY <1>4 DEF ChangeStateUnanswered
  <2>2. faults' \in 0..FaultLimit
    BY <1>4, FaultTyped DEF ChangeStateUnanswered, TimedOut
  <2>3. [to |-> sink, do |-> stage, subs |-> <<>>, n |-> faults] \in SinkRequests
    BY <1>4, <1>n, SelectionsFacts, ConstantsFacts
    DEF ChangeStateUnanswered, SinkRequests, SystemTyped
  <2>4. lateSink' \subseteq SinkRequests
    BY <1>4, <2>3, GiveUpTyped DEF ChangeStateUnanswered, SystemTyped
  <2>5. SystemTyped'
    BY <2>1, <2>2, <2>4 DEF SystemTyped, sinks, tools
  <2> QED
    BY <1>i, <1>m, <2>1, <2>5, FailTyped
<1>5. CASE SetSubscriptions
  <2>1. UNCHANGED <<state, streamed, memory, tools, late, up, introspecting>>
        /\ active' = active
    BY <1>5 DEF SetSubscriptions, tools
  <2>2. faults' \in 0..FaultLimit
    BY <1>5, FaultTyped DEF SetSubscriptions
  <2>3. subs' \in [Sinks -> Selections]
    BY <1>5, <1>n DEF SetSubscriptions, AcceptSubscriptions, SystemTyped, HandlerTyped
  <2>4. SystemTyped'
    BY <2>1, <2>2, <2>3 DEF SystemTyped, tools, late
  <2>5. stage = "params" /\ (Goto("activate", sink, {}) \/ Fail)
    BY <1>5 DEF SetSubscriptions
  <2>6. CASE Goto("activate", sink, {})
    <3>1. ~Stopping
      BY <2>5 DEF Work
    <3>2. HandlerTyped' /\ Work'
      BY <1>i, <1>n, <2>6, <3>1, GotoTyped
    <3> QED
      BY <1>i, <1>m, <2>1, <2>4, <3>2
  <2> QED
    BY <1>i, <1>m, <2>1, <2>4, <2>5, <2>6, FailTyped
<1>6. CASE SetSubscriptionsUnanswered
  <2>1. UNCHANGED <<memory, sinks, tools, lateTool, up, introspecting>>
    BY <1>6 DEF SetSubscriptionsUnanswered
  <2>2. faults' \in 0..FaultLimit
    BY <1>6, FaultTyped DEF SetSubscriptionsUnanswered, TimedOut
  <2>3. [to |-> sink, do |-> "params", subs |-> selection, n |-> faults] \in SinkRequests
    BY <1>n, ConstantsFacts DEF SinkRequests, SystemTyped, HandlerTyped
  <2>4. lateSink' \subseteq SinkRequests
    BY <1>6, <2>3, GiveUpTyped DEF SetSubscriptionsUnanswered, SystemTyped
  <2>5. SystemTyped'
    BY <2>1, <2>2, <2>4 DEF SystemTyped, sinks, tools
  <2>6. stage = "params" /\ (Goto("activate", sink, {}) \/ Fail)
    BY <1>6 DEF SetSubscriptionsUnanswered
  <2>7. CASE Goto("activate", sink, {})
    <3>1. ~Stopping
      BY <2>6 DEF Work
    <3>2. HandlerTyped' /\ Work'
      BY <1>i, <1>n, <2>7, <3>1, GotoTyped
    <3> QED
      BY <1>i, <1>m, <2>1, <2>5, <3>2
  <2> QED
    BY <1>i, <1>m, <2>1, <2>5, <2>6, <2>7, FailTyped
<1>7. CASE UnloadTool
  <2>1. UNCHANGED <<active, memory, sinks, late, up, introspecting, faults>>
        /\ stage = "clear"
    BY <1>7 DEF UnloadTool
  <2>2. /\ loaded' \subseteq ToolIds /\ orphans' \subseteq ToolIds
        /\ stale' \subseteq ToolIds \ loaded'
    BY <1>7 DEF UnloadTool, SystemTyped
  <2>3. SystemTyped'
    BY <2>1, <2>2 DEF SystemTyped, sinks, late
  <2>4. PICK t \in todo : Goto("clear", sink, todo \ {t}) \/ Fail
    BY <1>7 DEF UnloadTool
  <2>5. Goto("clear", sink, todo \ {t}) => HandlerTyped' /\ Work'
    <3>1. todo \ {t} \in SUBSET (Topics \cup Nat) /\ todo \ {t} \subseteq DOMAIN active'
      BY <2>1, <1>n DEF Work
    <3> QED
      BY <1>i, <1>n, <2>1, <3>1, GotoTyped
  <2> QED
    BY <1>m, <1>i, <2>1, <2>3, <2>4, <2>5, FailTyped
<1>8. CASE UnloadUnanswered
  <2>1. UNCHANGED <<memory, sinks, tools, lateSink, up, introspecting>> /\ Fail
        /\ stage = "clear"
    BY <1>8 DEF UnloadUnanswered
  <2>2. PICK t \in todo :
          \/ NoService("container") /\ UNCHANGED lateTool
          \/ TimedOut("container")
             /\ GiveUpTool([do |-> "unload", id |-> active[t], n |-> faults])
    BY <1>8 DEF UnloadUnanswered
  <2>3. faults' \in 0..FaultLimit
    BY <2>2, FaultTyped DEF TimedOut
  <2>4. [do |-> "unload", id |-> active[t], n |-> faults] \in ToolRequests
    BY <2>1, ConstantsFacts DEF Work, SystemTyped, ToolRequests
  <2>5. lateTool' \subseteq ToolRequests
    BY <2>2, <2>4, GiveUpToolTyped DEF SystemTyped
  <2>6. SystemTyped'
    BY <2>1, <2>3, <2>5 DEF SystemTyped, sinks, tools
  <2> QED
    BY <1>m, <1>i, <2>1, <2>6, FailTyped
<1>9. CASE ClearDone
  <2>1. UNCHANGED <<loaded, orphans, memory, sinks, late, up, introspecting, faults>>
        /\ active' = <<>> /\ stale' = {} /\ stage = "clear"
    BY <1>9 DEF ClearDone
  <2>2. DOMAIN active' \subseteq Topics /\ active' \in [DOMAIN active' -> ToolIds]
    BY <2>1
  <2>3. SystemTyped'
    BY <2>1, <2>2 DEF SystemTyped, sinks, late
  <2>4. \/ Goto("finish", sink, {})
        \/ ~Stopping /\ Goto("load", sink, PlanTools(selection))
    BY <1>9 DEF ClearDone
  <2>5. PlanTools(selection) \in SUBSET (Topics \cup Nat)
    BY SelectionsFacts DEF HandlerTyped, PlanTools
  <2>6. Goto("finish", sink, {}) => HandlerTyped' /\ Work'
    BY <1>i, <1>n, GotoTyped
  <2>7. ~Stopping /\ Goto("load", sink, PlanTools(selection)) => HandlerTyped' /\ Work'
    BY <1>i, <1>n, <2>5, GotoTyped
  <2> QED
    BY <1>m, <1>i, <2>1, <2>3, <2>4, <2>6, <2>7
<1>10. CASE LoadTool
  <2>1. UNCHANGED <<orphans, memory, sinks, late, up, introspecting>> /\ stage = "load"
        /\ todo # {}
    BY <1>10 DEF LoadTool
  <2>2. faults' \in 0..FaultLimit
    BY <1>10, FaultTyped DEF LoadTool
  <2>3. todo \in SUBSET Nat /\ \A i \in todo : selection[i].topic \in Topics
    BY <2>1, SelectionsFacts DEF Work, PlanTools, HandlerTyped
  <2>4. NextTool \in todo /\ selection[NextTool].topic \in Topics
    BY <2>1, <2>3, NextToolFact
  <2>5. SystemTyped' /\ ((Goto("load", sink, todo \ {NextTool})) \/ Fail)
    <3>1. CASE Fail /\ UNCHANGED <<loaded, stale, active>>
      BY <2>1, <2>2, <3>1 DEF SystemTyped, sinks, late
    <3>2. ASSUME NEW id \in NextIds,
                 loaded' = loaded \cup {id}, stale' = stale \ {id},
                 active' = [u \in DOMAIN active \cup {selection[NextTool].topic} |->
                              IF u = selection[NextTool].topic THEN id ELSE active[u]],
                 Goto("load", sink, todo \ {NextTool})
          PROVE  SystemTyped' /\ Goto("load", sink, todo \ {NextTool})
      <4>1. id \in ToolIds
        BY <3>2, NextIdFact
      <4>2. DOMAIN active' \subseteq Topics /\ active' \in [DOMAIN active' -> ToolIds]
            /\ loaded' \subseteq ToolIds /\ stale' \subseteq ToolIds \ loaded'
        BY <2>4, <3>2, <4>1 DEF SystemTyped
      <4> QED
        BY <2>1, <2>2, <3>2, <4>2 DEF SystemTyped, sinks, late
    <3> QED
      BY <1>10, <3>1, <3>2 DEF LoadTool
  <2>6. Goto("load", sink, todo \ {NextTool}) => HandlerTyped' /\ Work'
    <3>1. todo \ {NextTool} \in SUBSET (Topics \cup Nat)
          /\ todo \ {NextTool} \subseteq PlanTools(selection) /\ ~Stopping
      BY <2>1, <2>3 DEF Work
    <3> QED
      BY <1>i, <1>n, <3>1, GotoTyped
  <2> QED
    BY <1>m, <1>i, <2>1, <2>5, <2>6, FailTyped
<1>11. CASE LoadUnanswered
  <2>1. UNCHANGED <<memory, sinks, tools, lateSink, up, introspecting>> /\ Fail
    BY <1>11 DEF LoadUnanswered
  <2>2. faults' \in 0..FaultLimit
    BY <1>11, FaultTyped DEF LoadUnanswered, TimedOut
  <2>3. [do |-> "load", id |-> 0, n |-> faults] \in ToolRequests
    BY ConstantsFacts DEF ToolRequests, SystemTyped
  <2>4. lateTool' \subseteq ToolRequests
    BY <1>11, <2>3, GiveUpToolTyped DEF LoadUnanswered, SystemTyped
  <2>5. SystemTyped'
    BY <2>1, <2>2, <2>4 DEF SystemTyped, sinks, tools
  <2> QED
    BY <1>m, <1>i, <2>1, <2>5, FailTyped
<1>12. CASE LoadDone
  <2>1. UNCHANGED <<memory, sinks, tools, late, up, introspecting, faults>>
        /\ Goto("params", sink, {}) /\ stage = "load"
    BY <1>12 DEF LoadDone
  <2>2. ~Stopping
    BY <2>1 DEF Work
  <2>3. HandlerTyped' /\ Work'
    BY <1>i, <1>n, <2>1, <2>2, GotoTyped
  <2> QED
    BY <1>m, <1>s, <1>i, <2>1, <2>3
<1>13. CASE Finish
  <2>1. UNCHANGED <<lastError, mode, startup, sinks, tools, late, up, faults>>
        /\ Return /\ phase' = "IDLE" /\ applied' = selection
    BY <1>13 DEF Finish
  <2>2. HandlerTyped' /\ Work'
    BY <2>1, ReturnTyped DEF HandlerTyped
  <2>3. cache' \in Selections
    BY <1>13, SelectionsFacts DEF Finish, MemoryTyped, HandlerTyped
  <2>4. path' \in BOOLEAN
    BY <1>13, Zenon DEF Finish
  <2>5. introspecting' \in BOOLEAN
    BY <1>13 DEF Finish, SystemTyped
  <2>6. MemoryTyped'
    BY <2>1, <2>3, <2>4 DEF MemoryTyped, HandlerTyped
  <2>7. SystemTyped'
    BY <2>1, <2>5 DEF SystemTyped, sinks, tools, late
  <2> QED
    BY <2>2, <2>6, <2>7
<1> QED
  BY <1>1, <1>2, <1>3, <1>4, <1>5, <1>6, <1>7, <1>8, <1>9, <1>10, <1>11, <1>12, <1>13
  DEF Continue

\* Every step of the rest of the system keeps Typed.
LEMMA WorldTyped ==
  ASSUME Typed, World PROVE Typed'
<1> USE TypedParts
<1>1. ASSUME UNCHANGED <<active, memory, outcome, request, argument, stage, sink, selection,
                         todo>>,
             Interferes
      PROVE  HandlerTyped' /\ MemoryTyped' /\ Work'
  BY <1>1 DEF HandlerTyped, MemoryTyped, Work, Stopping, PlanTools, memory, outcome,
     Interferes
<1>2. ASSUME NEW s \in Servers, ServerLost(s) PROVE Typed'
  <2>1. UNCHANGED <<active, memory, outcome, request, argument, stage, sink, selection, todo>>
        /\ Interferes /\ up' = [up EXCEPT ![s] = FALSE]
    BY <1>2 DEF ServerLost
  <2>2. faults' \in 0..FaultLimit
    BY <1>2, FaultTyped DEF ServerLost
  <2>3. introspecting' \in BOOLEAN
    BY <1>2, Zenon DEF ServerLost, SystemTyped
  <2>4. /\ state' \in [Sinks -> {"unconfigured", "inactive", "active", "finalized"}]
        /\ subs' \in [Sinks -> Selections] /\ streamed' \in [Sinks -> Selections]
    BY <1>2, SelectionsFacts DEF ServerLost, SystemTyped, sinks
  <2>5. /\ loaded' \subseteq ToolIds /\ orphans' \subseteq ToolIds
        /\ stale' \subseteq ToolIds \ loaded'
        /\ lateSink' \subseteq SinkRequests /\ lateTool' \subseteq ToolRequests
    BY <1>2 DEF ServerLost, SystemTyped, late
  <2>6. SystemTyped'
    BY <2>1, <2>2, <2>3, <2>4, <2>5 DEF SystemTyped
  <2> QED
    BY <1>1, <2>1, <2>6
<1>3. ASSUME NEW s \in Servers, ServerReturns(s) PROVE Typed'
  <2>1. SystemTyped'
    BY <1>3 DEF ServerReturns, SystemTyped, sinks, tools, late
  <2> QED
    BY <1>1, <1>3, <2>1 DEF ServerReturns, tools
<1>4. ASSUME NEW r \in lateSink, LateAtSink(r) PROVE Typed'
  <2>1. r.to \in Sinks /\ r.subs \in Selections /\ lateSink' \subseteq SinkRequests
        /\ UNCHANGED <<memory, outcome, request, argument, stage, sink, selection, todo,
                       tools, lateTool, up, introspecting>>
        /\ Interferes
    BY <1>4 DEF LateAtSink, SystemTyped, SinkRequests
  <2>2. CASE r.do = "params"
    <3>1. subs' \in [Sinks -> Selections]
      BY <1>4, <2>1, <2>2 DEF LateAtSink, AcceptSubscriptions, SystemTyped, Transitions
    <3>2. UNCHANGED <<state, streamed, faults>>
      BY <1>4, <2>2 DEF LateAtSink, Transitions
    <3>3. SystemTyped'
      BY <2>1, <3>1, <3>2 DEF SystemTyped, tools
    <3> QED
      BY <1>1, <2>1, <3>3 DEF tools
  <2>3. CASE r.do \in Transitions
    <3>1. /\ (Succeed(r.do, r.to) /\ UNCHANGED faults) \/ Refuse(r.do, r.to)
          /\ UNCHANGED subs
      BY <1>4, <2>3 DEF LateAtSink, Transitions
    <3>2. SystemTyped'
      BY <2>1, <2>3, <3>1, TransitionTyped DEF SystemTyped, tools
    <3> QED
      BY <1>1, <2>1, <3>2 DEF tools
  <2> QED
    BY <1>4, <2>2, <2>3 DEF LateAtSink
<1>5. ASSUME NEW r \in lateTool, LateAtContainer(r) PROVE Typed'
  <2>1. UNCHANGED <<active, memory, outcome, request, argument, stage, sink, selection, todo,
                    sinks, lateSink, up, introspecting, faults>>
        /\ Interferes /\ lateTool' \subseteq lateTool
    BY <1>5 DEF LateAtContainer
  <2>2. /\ loaded' \subseteq ToolIds /\ orphans' \subseteq ToolIds
        /\ stale' \subseteq ToolIds \ loaded'
    BY <1>5, NextIdFact DEF LateAtContainer, SystemTyped
  <2>3. SystemTyped'
    BY <2>1, <2>2 DEF SystemTyped, sinks
  <2> QED
    BY <1>1, <2>1, <2>3
<1> QED
  BY <1>2, <1>3, <1>4, <1>5 DEF World

\* Typed is an invariant, with what it says about the loops over tools.
LEMMA TypedInvariant == Spec => []Typed
<1>1. Typed /\ UNCHANGED vars => Typed'
  BY DEF Typed, TypeOK, Work, Stopping, PlanTools, vars, memory, outcome, handler,
     sinks, tools, late
<1>2. Typed /\ [Next]_vars => Typed'
  BY <1>1, BeginTyped, ContinueTyped, WorldTyped DEF Next
<1> QED
  BY TypedInit, <1>2, PTL DEF Spec

\* Type correctness of the control plane, for every set of topics, selections and
\* requests and any number of faults: the ids in active_topic_tools_ are ids that
\* the container gave, and the loops over tools stay inside the map and the plan.
THEOREM TypeCorrect == Spec => []TypeOK
<1>1. Typed => TypeOK
  BY DEF Typed
<1> QED
  BY TypedInvariant, <1>1, PTL

----------------------------------------------------------------------------
(* The phase *)

\* A request begins only when none is under way, and makes the phase BUSY exactly
\* if it goes on as an apply.
LEMMA BeginPhase ==
  ASSUME Begin
  PROVE  /\ request = "none" /\ phase # "BUSY"
         /\ \/ request' = "none" /\ phase' # "BUSY"
            \/ request' \in Applying /\ phase' = "BUSY"
            \/ request' = "stop" /\ phase' = phase
<1> DEFINE Outcome ==
      \/ request' = "none" /\ phase' # "BUSY"
      \/ request' \in Applying /\ phase' = "BUSY"
      \/ request' = "stop" /\ phase' = phase
<1>1. request = "none" /\ phase # "BUSY"
  BY DEF Begin, Idle, ApplySelection, ReloadSelection, SwitchMode, StartupApply,
     StopStreaming
<1>2. ASSUME NEW r PROVE Reject(r) => Outcome
  BY <1>1 DEF Reject, Return
<1>3. ASSUME NEW r \in Applying, NEW sel, NEW flag PROVE Start(r, sel, flag) => Outcome
  BY <1>1 DEF Start, Return
<1>4. Reply => Outcome
  BY <1>1 DEF Reply, Return, outcome
<1>5. ASSUME NEW r \in Applying, NEW m, NEW file, NEW flag, NEW now
      PROVE  Obtain(r, m, file, flag, now) => Outcome
  BY <1>2, <1>3, <1>4, Zenon DEF Obtain
<1>6. CASE ApplySelection
  <2>1. "apply" \in Applying
    BY DEF Applying
  <2>2. Reject("apply") \/ \E sel \in Gui : Start("apply", sel, FALSE)
    BY <1>6, Zenon DEF ApplySelection
  <2> HIDE DEF Outcome
  <2>3. Outcome
    BY <1>2, <1>3, <2>1, <2>2, Zenon
  <2> QED
    BY <1>1, <2>3 DEF Outcome
<1>7. CASE ReloadSelection
  <2>1. \E given, now \in BOOLEAN : Obtain("reload", mode, path \/ given, FALSE, now)
    BY <1>7, Zenon DEF ReloadSelection
  <2>2. "reload" \in Applying
    BY DEF Applying
  <2> HIDE DEF Outcome
  <2>3. Outcome
    BY <1>5, <2>1, <2>2, Zenon
  <2> QED
    BY <1>1, <2>3 DEF Outcome
<1>8. ASSUME NEW r \in {"mode", "param"}, SwitchMode(r) PROVE Outcome
  <2>1. r \in Applying
    BY DEF Applying
  <2>2. \/ Reply
        \/ \E m \in Modes, given, cleared \in BOOLEAN :
             Obtain(r, m, path \/ given, cleared, TRUE)
    BY <1>8, Zenon DEF SwitchMode
  <2> HIDE DEF Outcome
  <2> QED
    BY <1>4, <1>5, <2>1, <2>2, Zenon
<1>9. CASE StopStreaming
  BY <1>1, <1>9 DEF StopStreaming, outcome
<1>10. CASE StartupApply
  <2>1. "startup" \in Applying
    BY DEF Applying
  <2>2. Obtain("startup", "file", TRUE, FALSE, TRUE) \/ UNCHANGED <<outcome, handler>>
    BY <1>10, Zenon DEF StartupApply
  <2>3. UNCHANGED <<outcome, handler>> => Outcome
    BY <1>1 DEF outcome, handler
  <2> HIDE DEF Outcome
  <2>4. Outcome
    BY <1>5, <2>1, <2>2, <2>3, Zenon
  <2> QED
    BY <1>1, <2>4 DEF Outcome
<1> QED
  BY <1>1, <1>6, <1>7, <1>8, <1>9, <1>10 DEF Begin

\* A handler that is under way goes on, fails, or succeeds.
LEMMA ContinuePhase ==
  ASSUME Continue
  PROVE  \/ UNCHANGED <<request, phase>>
         \/ request' = "none" /\ phase' \in {"ERROR", "IDLE"}
<1>1. ASSUME NEW next, NEW s, NEW work
      PROVE  Goto(next, s, work) => UNCHANGED <<request, phase>>
  BY DEF Goto, outcome
<1>2. Fail => request' = "none" /\ phase' \in {"ERROR", "IDLE"}
  BY DEF Fail, Return
<1>3. Finish => request' = "none" /\ phase' \in {"ERROR", "IDLE"}
  BY DEF Finish, Return
<1>4. Ready \/ Resume \/ SinkDone => UNCHANGED <<request, phase>>
  BY <1>1 DEF Ready, Resume, SinkDone
<1>5. ReadState \/ StateUnknown \/ ChangeState \/ ChangeStateUnanswered
        => Fail \/ UNCHANGED <<request, phase>>
  BY <1>1, <1>4 DEF ReadState, StateUnknown, ChangeState, ChangeStateUnanswered
<1>6. SetSubscriptions \/ SetSubscriptionsUnanswered \/ UnloadTool \/ UnloadUnanswered
        => Fail \/ UNCHANGED <<request, phase>>
  BY <1>1 DEF SetSubscriptions, SetSubscriptionsUnanswered, UnloadTool, UnloadUnanswered
<1>7. ClearDone \/ LoadTool \/ LoadUnanswered \/ LoadDone
        => Fail \/ UNCHANGED <<request, phase>>
  BY <1>1 DEF ClearDone, LoadTool, LoadUnanswered, LoadDone
<1> QED
  BY <1>2, <1>3, <1>5, <1>6, <1>7, Zenon DEF Continue

\* The rest of the system does not touch the phase.
LEMMA WorldPhase == ASSUME World PROVE UNCHANGED <<request, phase>>
BY DEF World, ServerLost, ServerReturns, LateAtSink, LateAtContainer, outcome

\* BUSY is what get_status reports exactly while an apply is under way: no return
\* of any handler, on any path, leaves the phase BUSY for the next request.
THEOREM PhaseTruthful == Spec => []BusyOnlyInside
<1>1. Init => BusyOnlyInside
  BY DEF Init, BusyOnlyInside, Applying
<1>2. BusyOnlyInside /\ [Next]_vars => BusyOnlyInside'
  <2> SUFFICES ASSUME BusyOnlyInside, [Next]_vars PROVE BusyOnlyInside'
    OBVIOUS
  <2>1. CASE Begin
    BY <2>1, BeginPhase DEF BusyOnlyInside, Applying
  <2>2. CASE Continue
    BY <2>2, ContinuePhase DEF BusyOnlyInside, Applying
  <2>3. CASE World
    BY <2>3, WorldPhase DEF BusyOnlyInside
  <2>4. CASE UNCHANGED vars
    BY <2>4 DEF BusyOnlyInside, vars, outcome, handler
  <2> QED
    BY <2>1, <2>2, <2>3, <2>4 DEF Next
<1> QED
  BY <1>1, <1>2, PTL DEF Spec

----------------------------------------------------------------------------
(* The sinks *)

\* The steps that can change a sink; all others leave the sinks alone.
LEMMA OnlySinkSteps ==
  ASSUME [Next]_vars
  PROVE  \/ UNCHANGED sinks \/ ChangeState \/ SetSubscriptions
         \/ \E s \in Servers : ServerLost(s)
         \/ \E r \in lateSink : LateAtSink(r)
<1>1. CASE Begin
  <2>1. ASSUME NEW r, NEW m, NEW file, NEW flag, NEW now
        PROVE  Obtain(r, m, file, flag, now) => UNCHANGED sinks
    BY DEF Obtain
  <2>2. ApplySelection \/ StopStreaming => UNCHANGED sinks
    BY DEF ApplySelection, StopStreaming
  <2>3. ReloadSelection \/ StartupApply => UNCHANGED sinks
    BY <2>1, Zenon DEF ReloadSelection, StartupApply
  <2>4. SwitchMode("mode") \/ SwitchMode("param") => UNCHANGED sinks
    BY <2>1, Zenon DEF SwitchMode
  <2> QED
    BY <1>1, <2>2, <2>3, <2>4, Zenon DEF Begin
<1>2. CASE Continue
  BY <1>2 DEF Continue, ReadState, StateUnknown, ChangeStateUnanswered,
     SetSubscriptionsUnanswered, UnloadTool, UnloadUnanswered, ClearDone, LoadTool,
     LoadUnanswered, LoadDone, Finish
<1>3. CASE World
  BY <1>3 DEF World, ServerReturns, LateAtContainer
<1>4. CASE UNCHANGED vars
  BY <1>4 DEF vars
<1> QED
  BY <1>1, <1>2, <1>3, <1>4 DEF Next

\* A transition, in time or late, leaves an ACTIVE sink with the subscriptions of
\* its parameter, and any other with none.
LEMMA TransitionStreams ==
  ASSUME Typed, ActiveStreamsParameter, NEW t \in Transitions, NEW s \in Sinks,
         Succeed(t, s) \/ Refuse(t, s), UNCHANGED subs
  PROVE  ActiveStreamsParameter'
<1>1. /\ state \in [Sinks -> {"unconfigured", "inactive", "active", "finalized"}]
      /\ subs \in [Sinks -> Selections] /\ streamed \in [Sinks -> Selections]
  BY DEF Typed, TypeOK
<1>2. CASE Succeed(t, s)
  BY <1>1, <1>2 DEF Succeed, ActiveStreamsParameter
<1>3. CASE Refuse(t, s)
  <2>1. CASE UNCHANGED <<state, streamed>>
    BY <2>1 DEF ActiveStreamsParameter
  <2>2. CASE /\ state' = [state EXCEPT ![s] = "finalized"]
             /\ streamed' \in {streamed, [streamed EXCEPT ![s] = subs[s]]}
    BY <1>1, <2>2 DEF ActiveStreamsParameter
  <2> QED
    BY <1>3, <2>1, <2>2 DEF Refuse
<1> QED
  BY <1>2, <1>3

\* A parameter value is taken only by a sink that is not ACTIVE.
LEMMA AcceptStreams ==
  ASSUME Typed, ActiveStreamsParameter, NEW s \in Sinks, NEW sel \in Selections,
         AcceptSubscriptions(s, sel), UNCHANGED <<state, streamed>>
  PROVE  ActiveStreamsParameter'
BY DEF Typed, TypeOK, AcceptSubscriptions, ActiveStreamsParameter

\* No request that was given up, no crash and no failing callback separates what an
\* ACTIVE sink is subscribed to from its parameter, or leaves a sink subscribed that has
\* still to be activated.
THEOREM SinksStreamTheirParameter == Spec => []ActiveStreamsParameter
<1>1. Init => ActiveStreamsParameter
  BY DEF Init, ActiveStreamsParameter
<1>2. Typed /\ ActiveStreamsParameter /\ [Next]_vars => ActiveStreamsParameter'
  <2> SUFFICES ASSUME Typed, ActiveStreamsParameter, [Next]_vars
               PROVE  ActiveStreamsParameter'
    OBVIOUS
  <2>1. UNCHANGED sinks => ActiveStreamsParameter'
    BY DEF ActiveStreamsParameter, sinks
  <2>2. CASE ChangeState
    <3>1. sink \in Sinks /\ stage \in Transitions /\ UNCHANGED subs
          /\ (Succeed(stage, sink) \/ Refuse(stage, sink))
      BY <2>2 DEF ChangeState, Typed, TypeOK
    <3> QED
      BY <3>1, TransitionStreams
  <2>3. CASE SetSubscriptions
    <3>1. sink \in Sinks /\ selection \in Selections
      BY DEF Typed, TypeOK
    <3>2. UNCHANGED <<state, streamed>>
          /\ (AcceptSubscriptions(sink, selection) \/ UNCHANGED subs)
      BY <2>3 DEF SetSubscriptions
    <3> QED
      BY <2>1, <3>1, <3>2, AcceptStreams DEF sinks
  <2>4. ASSUME NEW s \in Servers, ServerLost(s) PROVE ActiveStreamsParameter'
    BY <2>4 DEF ServerLost, ActiveStreamsParameter, sinks, Typed, TypeOK
  <2>5. ASSUME NEW r \in lateSink, LateAtSink(r) PROVE ActiveStreamsParameter'
    <3>1. r.to \in Sinks /\ r.subs \in Selections
      BY DEF Typed, TypeOK, SinkRequests
    <3>2. CASE r.do \in Transitions
      <4>1. UNCHANGED subs /\ (Succeed(r.do, r.to) \/ Refuse(r.do, r.to))
        BY <2>5, <3>2 DEF LateAtSink, Transitions
      <4> QED
        BY <3>1, <3>2, <4>1, TransitionStreams
    <3>3. CASE r.do = "params"
      <4>1. UNCHANGED <<state, streamed>>
            /\ (AcceptSubscriptions(r.to, r.subs) \/ UNCHANGED subs)
        BY <2>5, <3>3 DEF LateAtSink, Transitions
      <4> QED
        BY <2>1, <3>1, <4>1, AcceptStreams DEF sinks
    <3> QED
      BY <2>5, <3>2, <3>3 DEF LateAtSink
  <2> QED
    BY <2>1, <2>2, <2>3, <2>4, <2>5, OnlySinkSteps
<1> QED
  BY TypedInvariant, <1>1, <1>2, PTL DEF Spec

----------------------------------------------------------------------------
(* The contract of the sinks *)

\* What concerns one sink, or nobody, is a step of every sink's contract as soon
\* as it is one of that sink's.
LEMMA OneSinkSteps ==
  ASSUME Typed, NEW s \in Sinks, [Contract(s)!Next]_(Contract(s)!vars),
         \E v : state' = [state EXCEPT ![s] = v],
         \E v : subs' = [subs EXCEPT ![s] = v],
         \E v : streamed' = [streamed EXCEPT ![s] = v]
  PROVE  ContractStep
<1>1. ASSUME NEW t \in Sinks, t # s PROVE UNCHANGED Contract(t)!vars
  BY <1>1 DEF Contract!vars, Typed, TypeOK
<1> QED
  BY <1>1 DEF ContractStep

\* Nor is there more to a step that leaves all sinks alone.
LEMMA NoSinkSteps == ASSUME UNCHANGED sinks PROVE ContractStep
BY DEF sinks, ContractStep, Contract!vars

\* A transition that succeeds or is refused is one of the contract.
LEMMA TransitionContract ==
  ASSUME Typed, ActiveStreamsParameter, NEW t \in Transitions, NEW s \in Sinks,
         Succeed(t, s) \/ Refuse(t, s), UNCHANGED subs
  PROVE  ContractStep
<1>1. /\ state \in [Sinks -> {"unconfigured", "inactive", "active", "finalized"}]
      /\ subs \in [Sinks -> Selections] /\ streamed \in [Sinks -> Selections]
  BY DEF Typed, TypeOK
<1>2. subs' = [subs EXCEPT ![s] = subs[s]]
  BY <1>1
<1>3. CASE Succeed(t, s)
  <2>1. CASE t = "configure"
    <3>1. streamed[s] = <<>>
      BY <1>3, <2>1 DEF Succeed, Legal, From, ActiveStreamsParameter
    <3>2. Contract(s)!Configure
      BY <1>1, <1>3, <2>1, <3>1 DEF Succeed, Legal, From, Contract!Configure
    <3> QED
      BY <1>2, <1>3, <3>2, OneSinkSteps DEF Succeed, Contract!Next
  <2>2. CASE t = "activate"
    <3>1. Contract(s)!Activate
      BY <1>1, <1>3, <2>2 DEF Succeed, Legal, From, Contract!Activate
    <3> QED
      BY <1>2, <1>3, <3>1, OneSinkSteps DEF Succeed, Contract!Next
  <2>3. CASE t = "deactivate"
    <3>1. Contract(s)!Deactivate
      BY <1>1, <1>3, <2>3 DEF Succeed, Legal, From, Contract!Deactivate
    <3> QED
      BY <1>2, <1>3, <3>1, OneSinkSteps DEF Succeed, Contract!Next
  <2> QED
    BY <2>1, <2>2, <2>3 DEF Transitions
<1>4. CASE Refuse(t, s)
  <2>1. CASE UNCHANGED <<state, streamed>>
    BY <2>1, NoSinkSteps DEF sinks
  <2>2. CASE /\ Legal("activate", s) /\ state' = [state EXCEPT ![s] = "finalized"]
             /\ streamed' \in {streamed, [streamed EXCEPT ![s] = subs[s]]}
    <3>1. Contract(s)!ActivateThrows
      BY <1>1, <2>2 DEF Legal, From, Contract!ActivateThrows
    <3>2. \E v : streamed' = [streamed EXCEPT ![s] = v]
      BY <1>1, <2>2
    <3> QED
      BY <1>2, <2>2, <3>1, <3>2, OneSinkSteps DEF Contract!Next
  <2> QED
    BY <1>4, <2>1, <2>2 DEF Refuse
<1> QED
  BY <1>3, <1>4

\* So is a parameter value that is taken.
LEMMA AcceptContract ==
  ASSUME Typed, NEW s \in Sinks, NEW sel \in Selections,
         AcceptSubscriptions(s, sel), UNCHANGED <<state, streamed>>
  PROVE  ContractStep
<1>1. /\ state \in [Sinks -> {"unconfigured", "inactive", "active", "finalized"}]
      /\ subs \in [Sinks -> Selections] /\ streamed \in [Sinks -> Selections]
  BY DEF Typed, TypeOK
<1>2. Contract(s)!SetSubscriptions
  BY <1>1 DEF AcceptSubscriptions, Contract!SetSubscriptions
<1>3. state' = [state EXCEPT ![s] = state[s]]
      /\ streamed' = [streamed EXCEPT ![s] = streamed[s]]
  BY <1>1
<1> QED
  BY <1>2, <1>3, OneSinkSteps DEF AcceptSubscriptions, Contract!Next

\* And the end of a sink's process.
LEMMA LostContract ==
  ASSUME Typed, NEW s \in Servers, ServerLost(s)
  PROVE  ContractStep
<1>1. CASE UNCHANGED sinks
  BY <1>1, NoSinkSteps
<1>2. CASE /\ s \in Sinks
           /\ state' = [state EXCEPT ![s] = "unconfigured"]
           /\ subs' = [subs EXCEPT ![s] = <<>>]
           /\ streamed' = [streamed EXCEPT ![s] = <<>>]
  <2>1. Contract(s)!Restart
    BY <1>2, SelectionsFacts DEF Contract!Restart, Typed, TypeOK
  <2> QED
    BY <1>2, <2>1, OneSinkSteps DEF Contract!Next
<1> QED
  BY <1>1, <1>2 DEF ServerLost, sinks

\* Everything that the controller does to a sink, in time or late, and everything
\* that happens to one, is a step of the contract that the sinks keep.
THEOREM SinksAsPromised == Spec => SinksKeepContract
<1>1. Init => \A s \in Sinks : Contract(s)!Init
  BY SelectionsFacts DEF Init, Contract!Init
<1>2. Typed /\ ActiveStreamsParameter /\ [Next]_vars => ContractStep
  <2> SUFFICES ASSUME Typed, ActiveStreamsParameter, [Next]_vars PROVE ContractStep
    OBVIOUS
  <2>1. CASE UNCHANGED sinks
    BY <2>1, NoSinkSteps
  <2>2. CASE ChangeState
    <3>1. sink \in Sinks /\ stage \in Transitions /\ UNCHANGED subs
          /\ (Succeed(stage, sink) \/ Refuse(stage, sink))
      BY <2>2 DEF ChangeState, Typed, TypeOK
    <3> QED
      BY <3>1, TransitionContract
  <2>3. CASE SetSubscriptions
    <3>1. sink \in Sinks /\ selection \in Selections
      BY DEF Typed, TypeOK
    <3>2. UNCHANGED <<state, streamed>>
          /\ (AcceptSubscriptions(sink, selection) \/ UNCHANGED subs)
      BY <2>3 DEF SetSubscriptions
    <3> QED
      BY <2>1, <3>1, <3>2, AcceptContract DEF sinks
  <2>4. ASSUME NEW r \in lateSink, LateAtSink(r) PROVE ContractStep
    <3>1. r.to \in Sinks /\ r.subs \in Selections
      BY DEF Typed, TypeOK, SinkRequests
    <3>2. CASE r.do \in Transitions
      <4>1. UNCHANGED subs /\ (Succeed(r.do, r.to) \/ Refuse(r.do, r.to))
        BY <2>4, <3>2 DEF LateAtSink, Transitions
      <4> QED
        BY <3>1, <3>2, <4>1, TransitionContract
    <3>3. CASE r.do = "params"
      <4>1. UNCHANGED <<state, streamed>>
            /\ (AcceptSubscriptions(r.to, r.subs) \/ UNCHANGED subs)
        BY <2>4, <3>3 DEF LateAtSink, Transitions
      <4> QED
        BY <2>1, <3>1, <4>1, AcceptContract DEF sinks
    <3> QED
      BY <2>4, <3>2, <3>3 DEF LateAtSink
  <2> QED
    BY <2>1, <2>2, <2>3, <2>4, LostContract, OnlySinkSteps
<1> QED
  BY TypedInvariant, SinksStreamTheirParameter, <1>1, <1>2, PTL DEF Spec, SinksKeepContract

----------------------------------------------------------------------------
(* What a handler knows *)

\* As long as no other actor interferes, the stage of the handler says what the
\* sinks do: this one; those that an apply has served; those that a stop has.
Streams(s) == state[s] = "active" /\ streamed[s] = selection
Quiet(s) == up[s] => state[s] # "active"
InPlace(i) ==
  selection[i].topic \in DOMAIN active /\ active[selection[i].topic] \in loaded

KnowsSink ==
  /\ stage = "configure" => state[sink] = "unconfigured"
  /\ stage = "deactivate" => state[sink] = "active"
  /\ stage = "confirm" => state[sink] # "active"
  /\ stage \in {"clear", "load", "params", "activate"} /\ ~Stopping =>
       state[sink] \in {"inactive", "finalized"}
  /\ stage = "activate" /\ up[sink] => subs[sink] = selection

KnowsApply ==
  ~Stopping /\ request # "none" =>
    /\ sink = "mosquitto" \/ stage = "finish" => Streams("kafka")
    /\ sink = "mosquitto" \/ stage \in {"params", "activate", "finish"} =>
         \A i \in PlanTools(selection) : InPlace(i)
    /\ stage = "load" => \A i \in PlanTools(selection) \ todo : InPlace(i)
    /\ stage \in {"clear", "load"} => sink = "kafka"
    /\ stage = "finish" => \A s \in Sinks : up[s] => Streams(s)

KnowsStop ==
  Stopping =>
    /\ sink = "mosquitto" => Quiet("kafka")
    /\ stage \in {"clear", "finish"} => \A s \in Sinks : Quiet(s)

Knows == clean => KnowsSink /\ KnowsApply /\ KnowsStop

\* A stop that has come to its end has forgotten all tools.
Forgot == Stopping /\ stage = "finish" => active = <<>>

\* A handler that has returned knows nothing and claims nothing.
LEMMA ReturnKnows == ASSUME Return PROVE Knows' /\ Forgot'
BY DEF Return, Knows, KnowsSink, KnowsApply, KnowsStop, Forgot, Stopping

\* Going on with the subscriptions of this sink.
LEMMA ReadyKnows ==
  ASSUME Typed, Ready, UNCHANGED <<up, active, loaded>>, ~Stopping, stage # "idle",
         clean' => state'[sink] \in {"inactive", "finalized"},
         clean' /\ sink = "mosquitto" =>
           Streams("kafka")' /\ \A i \in PlanTools(selection) : InPlace(i)
  PROVE  Knows' /\ Forgot'
<1>1. sink \in {"kafka", "mosquitto"}
  BY SinksFacts DEF Typed, TypeOK
<1>2. UNCHANGED <<request, selection>>
  BY DEF Ready, Goto
<1>3. CASE sink = "kafka"
  <2>1. stage' = "clear" /\ sink' = "kafka"
    BY <1>3 DEF Ready, Goto
  <2> QED
    BY <1>2, <1>3, <2>1 DEF Knows, KnowsSink, KnowsApply, KnowsStop, Forgot, Stopping
<1>4. CASE sink = "mosquitto"
  <2>1. stage' = "params" /\ sink' = "mosquitto"
    BY <1>4 DEF Ready, Goto
  <2> QED
    BY <1>2, <1>4, <2>1
    DEF Knows, KnowsSink, KnowsApply, KnowsStop, Forgot, Stopping, PlanTools, InPlace
<1> QED
  BY <1>1, <1>3, <1>4

\* Going on with a sink that may have to be configured first.
LEMMA ResumeKnows ==
  ASSUME Typed, Resume, UNCHANGED <<up, active, loaded, state, streamed>>, ~Stopping,
         stage # "idle",
         clean' => state[sink] # "active",
         clean' /\ sink = "mosquitto" =>
           Streams("kafka") /\ \A i \in PlanTools(selection) : InPlace(i)
  PROVE  Knows' /\ Forgot'
<1>1. sink \in Sinks /\ state[sink] \in {"unconfigured", "inactive", "active", "finalized"}
  BY DEF Typed, TypeOK
<1>2. CASE state[sink] = "unconfigured"
  <2>1. UNCHANGED <<request, selection, sink>> /\ stage' = "configure"
    BY <1>2 DEF Resume, Goto
  <2> QED
    BY <1>2, <2>1 DEF Knows, KnowsSink, KnowsApply, KnowsStop, Forgot, Stopping, PlanTools,
       InPlace, Streams
<1>3. CASE state[sink] # "unconfigured"
  <2>1. Ready /\ UNCHANGED selection
    BY <1>3 DEF Resume, Ready, Goto
  <2> QED
    BY <1>1, <1>3, <2>1, ReadyKnows DEF Streams
<1> QED
  BY <1>2, <1>3

\* Going on after this sink has been served, stopped, or skipped.
LEMMA SinkDoneKnows ==
  ASSUME Typed, SinkDone, UNCHANGED <<up, active, loaded>>, stage # "idle",
         clean' /\ ~Stopping =>
           /\ Streams("kafka")' /\ \A i \in PlanTools(selection) : InPlace(i)
           /\ up[sink] => state'[sink] = "active" /\ streamed'[sink] = selection,
         clean' /\ Stopping =>
           /\ up[sink] => state'[sink] # "active"
           /\ sink = "mosquitto" => (up["kafka"] => state'["kafka"] # "active")
  PROVE  Knows' /\ Forgot'
<1>1. sink \in Sinks /\ \A s \in Sinks : s \in {"kafka", "mosquitto"}
  BY SinksFacts DEF Typed, TypeOK
<1>2. UNCHANGED <<request, selection>>
  BY DEF SinkDone, Goto
<1>3. CASE sink = "kafka" /\ MosquittoEnabled
  <2>1. stage' = "state" /\ sink' = "mosquitto"
    BY <1>3 DEF SinkDone, Goto
  <2> QED
    BY <1>2, <1>3, <2>1 DEF Knows, KnowsSink, KnowsApply, KnowsStop, Forgot, Stopping,
       PlanTools, InPlace, Quiet
<1>4. CASE ~(sink = "kafka" /\ MosquittoEnabled)
  <2>1. \A s \in Sinks : s = sink \/ (s = "kafka" /\ sink = "mosquitto")
    BY <1>1, <1>4, SinksFacts
  <2>2. sink' = sink /\ stage' = IF Stopping THEN "clear" ELSE "finish"
    BY <1>4 DEF SinkDone, Goto
  <2>3. CASE Stopping
    BY <1>2, <2>1, <2>2, <2>3 DEF Knows, KnowsSink, KnowsApply, KnowsStop, Forgot,
       Stopping, Quiet
  <2>4. CASE ~Stopping
    BY <1>2, <2>1, <2>2, <2>4 DEF Knows, KnowsSink, KnowsApply, KnowsStop, Forgot,
       Stopping, PlanTools, InPlace, Streams
  <2> QED
    BY <2>3, <2>4
<1> QED
  BY <1>3, <1>4

\* A handler that goes on is as sure as before, and only if nothing timed out.
LEMMA CleanGoto ==
  ASSUME NEW next, NEW s, NEW work,
         Goto(next, s, work) \/ Ready \/ Resume \/ SinkDone, clean'
  PROVE  clean /\ faults' = faults
BY DEF Ready, Resume, SinkDone, Goto

\* A timeout is a fault.
LEMMA TimedOutCounts ==
  ASSUME Typed, NEW s, TimedOut(s) PROVE faults' # faults
BY ConstantsFacts DEF TimedOut, Fault, Typed, TypeOK

\* Failing is a way to return.
LEMMA FailKnows == ASSUME Fail PROVE Knows' /\ Forgot'
BY ReturnKnows DEF Fail

\* Every call, with each of its outcomes, keeps what the handler knows true.
LEMMA ContinueKnows ==
  ASSUME Typed, Knows, Forgot, Continue
  PROVE  Knows' /\ Forgot'
<1>n. /\ sink \in Sinks /\ sink \in {"kafka", "mosquitto"} /\ "kafka" \in Sinks
      /\ state \in [Sinks -> {"unconfigured", "inactive", "active", "finalized"}]
      /\ subs \in [Sinks -> Selections] /\ streamed \in [Sinks -> Selections]
      /\ stage # "idle" => request # "none"
      /\ Stopping => stage \in {"state", "deactivate", "clear", "finish"}
  BY SinksFacts DEF Typed, TypeOK, Work
<1>1. CASE ReadState
  <2>1. UNCHANGED <<up, active, loaded, state, streamed, subs>>
        /\ stage \in {"state", "confirm"}
    BY <1>1 DEF ReadState, sinks, tools
  <2>2. CASE Fail
    BY <2>2, FailKnows
  <2>3. CASE stage = "state" /\ state[sink] = "active" /\ Goto("deactivate", sink, {})
    <3>1. clean' => clean
      BY <2>3, CleanGoto
    <3>2. UNCHANGED <<request, selection, sink>> /\ stage' = "deactivate"
      BY <2>3 DEF Goto
    <3> QED
      BY <2>1, <2>3, <3>1, <3>2 DEF Knows, KnowsSink, KnowsApply, KnowsStop, Forgot,
         Stopping, PlanTools, InPlace, Streams, Quiet
  <2>4. CASE Stopping /\ ~(stage = "state" /\ state[sink] = "active") /\ SinkDone
    <3>1. clean' => clean
      BY <2>4, CleanGoto
    <3>2. state[sink] # "active"
      BY <1>n, <2>1, <2>4
    <3>3. clean' /\ sink = "mosquitto" => (up["kafka"] => state["kafka"] # "active")
      BY <2>4, <3>1 DEF Knows, KnowsStop, Quiet
    <3> QED
      BY <2>1, <2>4, <3>2, <3>3, SinkDoneKnows
  <2>5. CASE ~Stopping /\ ~(stage = "state" /\ state[sink] = "active") /\ Resume
    <3>1. clean' => clean
      BY <2>5, CleanGoto
    <3>2. clean => state[sink] # "active"
      BY <2>1, <2>5 DEF Knows, KnowsSink
    <3>3. clean /\ sink = "mosquitto" =>
            Streams("kafka") /\ \A i \in PlanTools(selection) : InPlace(i)
      BY <1>n, <2>1, <2>5 DEF Knows, KnowsApply
    <3> QED
      BY <2>1, <2>5, <3>1, <3>2, <3>3, ResumeKnows
  <2> QED
    BY <1>1, <2>2, <2>3, <2>4, <2>5 DEF ReadState
<1>2. CASE StateUnknown
  <2>1. UNCHANGED <<up, active, loaded, state, streamed, subs>>
        /\ stage \in {"state", "confirm"}
    BY <1>2 DEF StateUnknown, sinks, tools
  <2>2. Fail \/ (SinkDone /\ (Stopping \/ sink = "mosquitto"))
    BY <1>2 DEF StateUnknown
  <2>3. ASSUME SinkDone, Stopping \/ sink = "mosquitto" PROVE Knows' /\ Forgot'
    <3>1. clean' => clean /\ ~up[sink]
      <4>1. clean' => clean /\ faults' = faults
        BY <2>3, CleanGoto
      <4> QED
        BY <1>2, <4>1, TimedOutCounts DEF StateUnknown, Unanswered, NoService
    <3>2. clean' /\ ~Stopping =>
            Streams("kafka") /\ \A i \in PlanTools(selection) : InPlace(i)
      BY <1>n, <2>1, <2>3, <3>1 DEF Knows, KnowsApply
    <3>3. Streams("kafka") => Streams("kafka")'
      BY <2>1, <2>3 DEF Streams, SinkDone, Goto
    <3>4. clean' /\ Stopping /\ sink = "mosquitto" =>
            (up["kafka"] => state["kafka"] # "active")
      BY <3>1 DEF Knows, KnowsStop, Quiet
    <3> QED
      BY <2>1, <2>3, <3>1, <3>2, <3>3, <3>4, SinkDoneKnows
  <2> QED
    BY <2>2, <2>3, FailKnows
<1>3. CASE ChangeState
  <2>1. UNCHANGED <<up, active, loaded, subs>> /\ stage \in Transitions /\ up[sink]
    BY <1>3 DEF ChangeState, tools
  <2>2. \/ Fail
        \/ /\ Succeed(stage, sink)
           /\ \/ stage = "configure" /\ Ready
              \/ stage = "deactivate" /\ ~Stopping /\ Goto("confirm", sink, {})
              \/ stage = "deactivate" /\ Stopping /\ SinkDone
              \/ stage = "activate" /\ SinkDone
    BY <1>3 DEF ChangeState, Transitions
  <2>3. ASSUME Succeed(stage, sink)
        PROVE  /\ state'[sink] = IF stage = "activate" THEN "active" ELSE "inactive"
               /\ stage = "activate" => streamed'[sink] = subs[sink]
               /\ \A s \in Sinks : s # sink =>
                    state'[s] = state[s] /\ streamed'[s] = streamed[s]
    BY <1>n, <2>3 DEF Succeed
  <2>4. ASSUME Succeed(stage, sink), stage = "configure", Ready
        PROVE  Knows' /\ Forgot'
    <3>1. clean' => clean
      BY <2>4, CleanGoto
    <3>2. ~Stopping /\ stage # "idle" /\ request # "none"
      BY <1>n, <2>4
    <3>3. clean /\ sink = "mosquitto" =>
            Streams("kafka") /\ \A i \in PlanTools(selection) : InPlace(i)
      BY <3>2 DEF Knows, KnowsApply
    <3>4. sink = "mosquitto" /\ Streams("kafka") => Streams("kafka")'
      BY <1>n, <2>3, <2>4 DEF Streams, Ready, Goto
    <3>5. state'[sink] \in {"inactive", "finalized"}
      BY <2>3, <2>4
    <3> QED
      BY <2>1, <2>4, <3>1, <3>2, <3>3, <3>4, <3>5, ReadyKnows
  <2>5. ASSUME Succeed(stage, sink), stage = "deactivate", ~Stopping,
               Goto("confirm", sink, {})
        PROVE  Knows' /\ Forgot'
    <3>1. clean' => clean
      BY <2>5, CleanGoto
    <3>2. UNCHANGED <<request, selection, sink>> /\ stage' = "confirm"
      BY <2>5 DEF Goto
    <3>3. state'[sink] # "active" /\ request # "none"
      BY <1>n, <2>3, <2>5
    <3>4. sink = "mosquitto" /\ Streams("kafka") => Streams("kafka")'
      BY <1>n, <2>3, <2>5, <3>2 DEF Streams
    <3> QED
      BY <2>1, <2>5, <3>1, <3>2, <3>3, <3>4 DEF Knows, KnowsSink, KnowsApply, KnowsStop,
         Forgot, Stopping, PlanTools, InPlace
  <2>6. ASSUME Succeed(stage, sink), stage = "deactivate", Stopping, SinkDone
        PROVE  Knows' /\ Forgot'
    <3>1. clean' => clean
      BY <2>6, CleanGoto
    <3>2. state'[sink] # "active" /\ stage # "idle"
      BY <2>3, <2>6
    <3>3. clean' /\ sink = "mosquitto" => (up["kafka"] => state'["kafka"] # "active")
      BY <1>n, <2>3, <2>6, <3>1 DEF Knows, KnowsStop, Quiet
    <3> QED
      BY <2>1, <2>6, <3>2, <3>3, SinkDoneKnows
  <2>7. ASSUME Succeed(stage, sink), stage = "activate", SinkDone
        PROVE  Knows' /\ Forgot'
    <3>1. clean' => clean
      BY <2>7, CleanGoto
    <3>2. ~Stopping /\ stage # "idle" /\ request # "none"
      BY <1>n, <2>7
    <3>3. UNCHANGED selection
      BY <2>7 DEF SinkDone, Goto
    <3>4. clean => state'[sink] = "active" /\ streamed'[sink] = selection
      BY <2>1, <2>3, <2>7 DEF Knows, KnowsSink
    <3>5. clean => \A i \in PlanTools(selection) : InPlace(i)
      BY <2>7, <3>2 DEF Knows, KnowsApply
    <3>6. clean => Streams("kafka")'
      <4>1. CASE sink = "kafka"
        BY <3>3, <3>4, <4>1 DEF Streams
      <4>2. CASE sink = "mosquitto"
        <5>1. clean => Streams("kafka")
          BY <3>2, <4>2 DEF Knows, KnowsApply
        <5> QED
          BY <1>n, <2>3, <2>7, <3>3, <4>2, <5>1 DEF Streams
      <4> QED
        BY <1>n, <4>1, <4>2
    <3> QED
      BY <2>1, <2>7, <3>1, <3>2, <3>4, <3>5, <3>6, SinkDoneKnows
  <2> QED
    BY <2>2, <2>4, <2>5, <2>6, <2>7, FailKnows
<1>4. CASE ChangeStateUnanswered \/ UnloadUnanswered \/ LoadUnanswered
  BY <1>4, FailKnows DEF ChangeStateUnanswered, UnloadUnanswered, LoadUnanswered
<1>5. CASE SetSubscriptions
  <2>1. UNCHANGED <<up, active, loaded, state, streamed>> /\ stage = "params"
        /\ (Fail \/ (AcceptSubscriptions(sink, selection) /\ Goto("activate", sink, {})))
    BY <1>5 DEF SetSubscriptions, tools
  <2>2. ASSUME AcceptSubscriptions(sink, selection), Goto("activate", sink, {})
        PROVE  Knows' /\ Forgot'
    <3>1. clean' => clean
      BY <2>2, CleanGoto
    <3>2. UNCHANGED <<request, selection, sink>> /\ stage' = "activate"
      BY <2>2 DEF Goto
    <3>3. subs'[sink] = selection
      BY <1>n, <2>2 DEF AcceptSubscriptions
    <3> QED
      BY <1>n, <2>1, <3>1, <3>2, <3>3 DEF Knows, KnowsSink, KnowsApply, KnowsStop, Forgot,
         Stopping, PlanTools, InPlace, Streams
  <2> QED
    BY <2>1, <2>2, FailKnows
<1>6. CASE SetSubscriptionsUnanswered
  <2>1. UNCHANGED <<up, active, loaded, state, streamed, subs>> /\ stage = "params"
        /\ (Fail \/ (~up[sink] /\ Goto("activate", sink, {})))
    BY <1>6 DEF SetSubscriptionsUnanswered, NoService, sinks, tools
  <2>2. ASSUME ~up[sink], Goto("activate", sink, {}) PROVE Knows' /\ Forgot'
    <3>1. clean' => clean
      BY <2>2, CleanGoto
    <3>2. UNCHANGED <<request, selection, sink>> /\ stage' = "activate"
      BY <2>2 DEF Goto
    <3> QED
      BY <1>n, <2>1, <2>2, <3>1, <3>2 DEF Knows, KnowsSink, KnowsApply, KnowsStop, Forgot,
         Stopping, PlanTools, InPlace, Streams
  <2> QED
    BY <2>1, <2>2, FailKnows
<1>7. CASE UnloadTool
  <2>1. UNCHANGED <<up, active, state, streamed, subs>> /\ stage = "clear"
        /\ (Fail \/ \E t \in todo : Goto("clear", sink, todo \ {t}))
    BY <1>7 DEF UnloadTool, sinks
  <2>2. ASSUME NEW t \in todo, Goto("clear", sink, todo \ {t}) PROVE Knows' /\ Forgot'
    <3>1. clean' => clean
      BY <2>2, CleanGoto
    <3>2. UNCHANGED <<request, selection, sink>> /\ stage' = "clear"
      BY <2>2 DEF Goto
    <3>3. clean /\ ~Stopping => sink = "kafka"
      BY <1>n, <2>1 DEF Knows, KnowsApply
    <3> QED
      BY <1>n, <2>1, <3>1, <3>2, <3>3 DEF Knows, KnowsSink, KnowsApply, KnowsStop, Forgot,
         Stopping, Quiet
  <2> QED
    BY <2>1, <2>2, FailKnows
<1>8. CASE ClearDone
  <2>1. UNCHANGED <<up, loaded, state, streamed, subs>> /\ stage = "clear" /\ active' = <<>>
        /\ IF Stopping THEN Goto("finish", sink, {})
                       ELSE Goto("load", sink, PlanTools(selection))
    BY <1>8 DEF ClearDone, sinks
  <2>2. clean' => clean
    BY <2>1, CleanGoto
  <2>3. CASE Stopping
    <3>1. UNCHANGED <<request, selection, sink>> /\ stage' = "finish"
      BY <2>1, <2>3 DEF Goto
    <3> QED
      BY <2>1, <2>2, <2>3, <3>1 DEF Knows, KnowsSink, KnowsApply, KnowsStop, Forgot,
         Stopping, Quiet
  <2>4. CASE ~Stopping
    <3>1. UNCHANGED <<request, selection, sink>> /\ stage' = "load"
          /\ todo' = PlanTools(selection)
      BY <2>1, <2>4 DEF Goto
    <3>2. clean => sink = "kafka"
      BY <1>n, <2>1, <2>4 DEF Knows, KnowsApply
    <3>3. KnowsApply' \/ ~clean'
      BY <2>2, <3>1, <3>2 DEF KnowsApply, PlanTools
    <3> QED
      BY <2>1, <2>2, <2>4, <3>1, <3>3 DEF Knows, KnowsSink, KnowsStop, Forgot, Stopping
  <2> QED
    BY <2>3, <2>4
<1>9. CASE LoadTool
  <2>1. UNCHANGED <<up, state, streamed, subs>> /\ stage = "load" /\ todo # {}
        /\ todo \subseteq PlanTools(selection) /\ selection \in Selections
    BY <1>9 DEF LoadTool, sinks, Typed, TypeOK, Work
  <2>2. PICK k : k = NextTool
    OBVIOUS
  <2> DEFINE t == selection[k].topic
  <2>3. ASSUME NEW id \in NextIds, loaded' = loaded \cup {id},
               active' = [u \in DOMAIN active \cup {t} |-> IF u = t THEN id ELSE active[u]],
               Goto("load", sink, todo \ {k})
        PROVE  Knows' /\ Forgot'
    <3>1. clean' => clean
      BY <2>3, CleanGoto
    <3>2. UNCHANGED <<request, selection, sink>> /\ stage' = "load"
          /\ todo' = todo \ {k}
      BY <2>3 DEF Goto
    <3>3. clean => sink = "kafka" /\ ~Stopping
      BY <1>n, <2>1 DEF Knows, KnowsApply
    <3>4. \A i : InPlace(i) => InPlace(i)'
      BY <2>3, <3>2 DEF InPlace
    <3>5. InPlace(k)'
      BY <2>3, <3>2 DEF InPlace
    <3>6. clean => \A i \in PlanTools(selection) \ todo' : InPlace(i)'
      BY <1>n, <2>1, <3>2, <3>3, <3>4, <3>5 DEF Knows, KnowsApply
    <3>7. KnowsApply' \/ ~clean'
      BY <3>1, <3>2, <3>3, <3>6 DEF KnowsApply, PlanTools
    <3> QED
      BY <1>n, <2>1, <3>1, <3>2, <3>3, <3>7 DEF Knows, KnowsSink, KnowsStop, Forgot,
         Stopping
  <2> QED
    BY <1>9, <2>2, <2>3, FailKnows DEF LoadTool
<1>10. CASE LoadDone
  <2>1. UNCHANGED <<up, active, loaded, state, streamed, subs>> /\ stage = "load"
        /\ todo = {} /\ Goto("params", sink, {})
    BY <1>10 DEF LoadDone, sinks, tools
  <2>2. clean' => clean
    BY <2>1, CleanGoto
  <2>3. UNCHANGED <<request, selection, sink>> /\ stage' = "params"
    BY <2>1 DEF Goto
  <2>4. clean => sink = "kafka"
    BY <1>n, <2>1 DEF Knows, KnowsApply
  <2> QED
    BY <1>n, <2>1, <2>2, <2>3, <2>4 DEF Knows, KnowsSink, KnowsApply, KnowsStop, Forgot,
       Stopping, PlanTools, InPlace
<1>11. CASE Finish
  BY <1>11, ReturnKnows DEF Finish
<1> QED
  BY <1>1, <1>2, <1>3, <1>4, <1>5, <1>6, <1>7, <1>8, <1>9, <1>10, <1>11 DEF Continue

\* A request begins with nothing known: it has asked no sink.
LEMMA BeginKnows == ASSUME Typed, Begin PROVE Knows' /\ Forgot'
<1>1. ASSUME NEW r PROVE Reject(r) => Knows' /\ Forgot'
  BY ReturnKnows DEF Reject
<1>2. ASSUME NEW r \in Applying, NEW sel, NEW flag
      PROVE  Start(r, sel, flag) => Knows' /\ Forgot'
  <2>1. CASE sel = <<>>
    BY <2>1, ReturnKnows DEF Start
  <2>2. CASE sel # <<>>
    BY <2>2 DEF Start, Knows, KnowsSink, KnowsApply, KnowsStop, Forgot, Stopping, Applying
  <2> QED
    BY <2>1, <2>2
<1>3. Reply => Knows' /\ Forgot'
  BY ReturnKnows DEF Reply
<1>4. ASSUME NEW r \in Applying, NEW m, NEW file, NEW flag, NEW now
      PROVE  Obtain(r, m, file, flag, now) => Knows' /\ Forgot'
  BY <1>1, <1>2, <1>3, Zenon DEF Obtain
<1>5. "apply" \in Applying /\ "reload" \in Applying /\ "mode" \in Applying
      /\ "param" \in Applying /\ "startup" \in Applying
  BY DEF Applying
<1>6. UNCHANGED handler /\ request = "none" => Knows' /\ Forgot'
  BY DEF handler, Knows, KnowsSink, KnowsApply, KnowsStop, Forgot, Stopping, Typed, Work,
     Transitions
<1>7. CASE ApplySelection
  BY <1>1, <1>2, <1>5, <1>7, Zenon DEF ApplySelection
<1>8. CASE ReloadSelection
  BY <1>4, <1>5, <1>8, Zenon DEF ReloadSelection
<1>9. CASE SwitchMode("mode") \/ SwitchMode("param")
  BY <1>3, <1>4, <1>5, <1>9, Zenon DEF SwitchMode
<1>10. CASE StartupApply
  BY <1>4, <1>5, <1>6, <1>10, Zenon DEF StartupApply, Idle
<1>11. CASE StopStreaming
  BY <1>11 DEF StopStreaming, Knows, KnowsSink, KnowsApply, KnowsStop, Forgot, Stopping
<1> QED
  BY <1>7, <1>8, <1>9, <1>10, <1>11 DEF Begin

\* When anything else moves while a request is under way, it is no longer clean.
LEMMA WorldKnows == ASSUME Typed, Knows, Forgot, World PROVE Knows' /\ Forgot'
<1>1. Interferes /\ UNCHANGED <<request, stage, sink, selection, todo, active>>
  BY DEF World, ServerLost, ServerReturns, LateAtSink, LateAtContainer, tools
<1>2. Forgot'
  BY <1>1 DEF Forgot, Stopping
<1>3. CASE request = "none"
  BY <1>1, <1>2, <1>3 DEF Knows, KnowsSink, KnowsApply, KnowsStop, Stopping, Typed, Work,
     Transitions
<1>4. CASE request # "none"
  BY <1>1, <1>2, <1>4 DEF Interferes, Knows
<1> QED
  BY <1>3, <1>4

\* What a handler knows is true in every reachable state.
LEMMA KnowsInvariant == Spec => [](Typed /\ Knows /\ Forgot)
<1>1. Init => Knows /\ Forgot
  BY DEF Init, Knows, KnowsSink, KnowsApply, KnowsStop, Forgot, Stopping
<1>2. Typed /\ Knows /\ Forgot /\ [Next]_vars => Knows' /\ Forgot'
  <2>1. Typed /\ Knows /\ Forgot /\ UNCHANGED vars => Knows' /\ Forgot'
    BY DEF vars, handler, sinks, tools, Knows, KnowsSink, KnowsApply, KnowsStop, Forgot,
       Stopping, PlanTools, InPlace, Streams, Quiet
  <2> QED
    BY <2>1, BeginKnows, ContinueKnows, WorldKnows DEF Next
<1> QED
  BY TypedInvariant, <1>1, <1>2, PTL DEF Spec

\* As long as nobody interferes, the controller asks for no transition and sets no
\* parameter that a healthy sink must refuse.
THEOREM CallsLegal == Spec => []CallsAreLegal
<1>1. Typed /\ Knows => CallsAreLegal
  BY DEF Typed, TypeOK, Work, Knows, KnowsSink, CallsAreLegal, Legal, From, Stopping,
     Transitions
<1> QED
  BY KnowsInvariant, <1>1, PTL

\* Undisturbed, an apply unloads and loads tools only while the Kafka sink is not ACTIVE,
\* and a stop unloads them only while no sink is.  An apply turns to the MQTT sink later.
THEOREM ToolsQuiet == Spec => []ToolsChangeQuietly
<1>1. Typed /\ Knows => ToolsChangeQuietly
  BY DEF Typed, TypeOK, Knows, KnowsSink, KnowsApply, KnowsStop, ToolsChangeQuietly,
     Quiet, Stopping, Work
<1> QED
  BY KnowsInvariant, <1>1, PTL

\* Undisturbed, the controller switches in the one order that the sinks accept; in an
\* apply it touches no tool before the Kafka sink has been deactivated, in a stop none
\* before both sinks have.
THEOREM SwitchesInOrder == Spec => []OrderlySwitch
<1>1. CallsAreLegal /\ ToolsChangeQuietly => OrderlySwitch
  BY DEF OrderlySwitch
<1> QED
  BY CallsLegal, ToolsQuiet, <1>1, PTL

\* An apply that succeeds undisturbed has the sinks stream the selection, through
\* tools that are loaded.
THEOREM ApplyStreams == Spec => []SuccessMeansStreaming
<1>1. Typed /\ Knows => SuccessMeansStreaming
  BY DEF Typed, Work, Knows, KnowsApply, SuccessMeansStreaming, Streams, InPlace
<1> QED
  BY KnowsInvariant, <1>1, PTL

\* A stop that succeeds undisturbed leaves no tool that is known, and no sink that can be
\* reached streaming, except one that on_activate has left FINALIZED.
THEOREM StopSilences == Spec => []SuccessMeansStopped
<1>1. Typed /\ Knows /\ Forgot /\ ActiveStreamsParameter => SuccessMeansStopped
  BY DEF Typed, TypeOK, Knows, KnowsStop, Quiet, Forgot, ActiveStreamsParameter, SuccessMeansStopped
<1> QED
  BY KnowsInvariant, SinksStreamTheirParameter, <1>1, PTL

\* What a request reports as done is done, if nobody disturbed it.
THEOREM ReportedIsDone == Spec => []SuccessMeansDone
<1>1. SuccessMeansStreaming /\ SuccessMeansStopped => SuccessMeansDone
  BY DEF SuccessMeansDone
<1> QED
  BY ApplyStreams, StopSilences, <1>1, PTL

----------------------------------------------------------------------------
(* The tools *)

\* No selection of the model uses two tools for one topic.
OneToolEach ==
  \A sel \in Selections : \A i, j \in PlanTools(sel) :
    sel[i].topic = sel[j].topic => i = j

KnownIds == {active[t] : t \in DOMAIN active}

\* What the loops over the tools have done so far: the components unloaded are
\* gone, or their ids are those of orphans in a new container; and the topics of the plan
\* that come next have no entry yet.
Tracked ==
  /\ loaded \subseteq orphans \cup KnownIds
  /\ stage = "clear" => \A t \in DOMAIN active \ todo : active[t] \notin loaded \ orphans
  /\ stage = "load" => \A i \in todo : selection[i].topic \notin DOMAIN active

\* Tracked holds as long as the container only loses components, the map stays,
\* and the handler does not begin one of the loops.
LEMMA TrackedKept ==
  ASSUME Tracked, active' = active, loaded' \ orphans' \subseteq loaded \ orphans,
         stage' = "clear" =>
           (stage = "clear" /\ todo' = todo) \/ todo' = DOMAIN active,
         stage' = "load" => stage = "load" /\ todo' = todo /\ selection' = selection
  PROVE  Tracked'
<1>1. (loaded \subseteq orphans \cup KnownIds)'
  BY DEF Tracked, KnownIds
<1>2. ASSUME stage' = "clear"
      PROVE  \A t \in DOMAIN active \ todo' : active[t] \notin loaded' \ orphans'
  BY <1>2 DEF Tracked
<1>3. ASSUME stage' = "load" PROVE \A i \in todo' : selection'[i].topic \notin DOMAIN active
  BY <1>3 DEF Tracked
<1> QED
  BY <1>1, <1>2, <1>3 DEF Tracked

\* Going on with another call begins no loop except that over all known tools.
LEMMA NextCallClears ==
  ASSUME Ready \/ Resume \/ SinkDone
  PROVE  stage' # "load" /\ (stage' = "clear" => todo' = DOMAIN active)
BY DEF Ready, Resume, SinkDone, Goto

\* Every step of a handler keeps track of the tools.
LEMMA ContinueTracked ==
  ASSUME OneToolEach, Typed, Tracked, Continue
  PROVE  Tracked'
<1>f. Fail \/ Finish => stage' = "idle"
  BY DEF Fail, Finish, Return
<1>k. ASSUME UNCHANGED <<active, loaded, orphans>>,
             stage' # "load", stage' = "clear" => todo' = DOMAIN active
      PROVE  Tracked'
  BY <1>k, TrackedKept
<1>1. CASE ReadState \/ StateUnknown \/ ChangeState \/ ChangeStateUnanswered
  <2>1. UNCHANGED tools
    BY <1>1 DEF ReadState, StateUnknown, ChangeState, ChangeStateUnanswered
  <2>2. Fail \/ Ready \/ Resume \/ SinkDone \/ stage' \in {"deactivate", "confirm"}
    BY <1>1 DEF ReadState, StateUnknown, ChangeState, ChangeStateUnanswered, Goto
  <2> QED
    BY <1>f, <1>k, <2>1, <2>2, NextCallClears DEF tools
<1>2. CASE SetSubscriptions \/ SetSubscriptionsUnanswered \/ UnloadUnanswered
           \/ LoadUnanswered \/ LoadDone
  <2>1. UNCHANGED tools
    BY <1>2 DEF SetSubscriptions, SetSubscriptionsUnanswered, UnloadUnanswered,
       LoadUnanswered, LoadDone
  <2>2. Fail \/ stage' \in {"activate", "params"}
    BY <1>2 DEF SetSubscriptions, SetSubscriptionsUnanswered, UnloadUnanswered,
       LoadUnanswered, LoadDone, Goto
  <2> QED
    BY <1>f, <1>k, <2>1, <2>2 DEF tools
<1>3. CASE UnloadTool
  <2>1. PICK t \in todo :
          \/ /\ loaded' = loaded \ {active[t]} /\ orphans' = orphans \ {active[t]}
             /\ Goto("clear", sink, todo \ {t})
          \/ Fail /\ UNCHANGED <<loaded, orphans>>
    BY <1>3 DEF UnloadTool
  <2>2. stage = "clear" /\ active' = active
    BY <1>3 DEF UnloadTool
  <2>3. CASE Fail /\ UNCHANGED <<loaded, orphans>>
    BY <1>f, <1>k, <2>2, <2>3 DEF tools
  <2>4. CASE /\ loaded' = loaded \ {active[t]} /\ orphans' = orphans \ {active[t]}
             /\ Goto("clear", sink, todo \ {t})
    <3>1. stage' = "clear" /\ todo' = todo \ {t}
      BY <2>4 DEF Goto
    <3>2. (loaded \subseteq orphans \cup KnownIds)'
      BY <2>2, <2>4 DEF Tracked, KnownIds
    <3>3. \A u \in DOMAIN active \ todo' : active[u] \notin loaded' \ orphans'
      BY <2>2, <2>4, <3>1 DEF Tracked
    <3> QED
      BY <2>2, <3>1, <3>2, <3>3 DEF Tracked
  <2> QED
    BY <2>1, <2>3, <2>4
<1>4. CASE ClearDone
  <2>1. UNCHANGED <<loaded, orphans>> /\ stage = "clear" /\ todo = {} /\ active' = <<>>
        /\ stage' \in {"finish", "load"}
    BY <1>4 DEF ClearDone, Goto
  <2>2. loaded \subseteq orphans
    BY <2>1 DEF Tracked, KnownIds
  <2>3. DOMAIN active' = {}
    BY <2>1
  <2> QED
    BY <2>1, <2>2, <2>3 DEF Tracked, KnownIds
<1>5. CASE LoadTool
  <2>1. PICK k : k = NextTool
    OBVIOUS
  <2> DEFINE t == selection[k].topic
  <2>2. orphans' = orphans /\ stage = "load" /\ todo # {} /\ selection \in Selections
        /\ todo \subseteq PlanTools(selection)
    BY <1>5 DEF LoadTool, Typed, TypeOK, Work
  <2>3. k \in todo
    <3>1. todo \in SUBSET Nat
      BY <2>2, SelectionsFacts DEF PlanTools
    <3> QED
      BY <2>1, <2>2, <3>1, NextToolFact
  <2>4. CASE Fail /\ UNCHANGED <<loaded, stale, active>>
    BY <1>f, <1>k, <2>2, <2>4 DEF tools
  <2>5. ASSUME NEW id \in NextIds, loaded' = loaded \cup {id},
               active' = [u \in DOMAIN active \cup {t} |-> IF u = t THEN id ELSE active[u]],
               Goto("load", sink, todo \ {k})
        PROVE  Tracked'
    <3>1. stage' = "load" /\ todo' = todo \ {k} /\ selection' = selection
      BY <2>5 DEF Goto
    <3>2. t \notin DOMAIN active
      BY <2>2, <2>3 DEF Tracked
    <3>3. DOMAIN active' = DOMAIN active \cup {t} /\ active'[t] = id
          /\ \A u \in DOMAIN active : active'[u] = active[u]
      BY <2>5, <3>2
    <3>4. (loaded \subseteq orphans \cup KnownIds)'
      BY <2>2, <2>5, <3>3 DEF Tracked, KnownIds
    <3>5. \A i \in todo' : selection[i].topic # t
      BY <2>2, <2>3, <3>1 DEF OneToolEach
    <3>6. \A i \in todo' : selection'[i].topic \notin DOMAIN active'
      BY <2>2, <3>1, <3>3, <3>5 DEF Tracked
    <3> QED
      BY <3>1, <3>4, <3>6 DEF Tracked
  <2> QED
    BY <1>5, <2>1, <2>4, <2>5 DEF LoadTool
<1>6. CASE Finish
  BY <1>f, <1>k, <1>6 DEF Finish, tools
<1> QED
  BY <1>1, <1>2, <1>3, <1>4, <1>5, <1>6 DEF Continue

\* A request begins with the tools as they are.
LEMMA BeginTracked == ASSUME Tracked, Begin PROVE Tracked'
<1> DEFINE Kept == UNCHANGED tools /\ stage' \in {"idle", "state"}
<1>1. ASSUME NEW r PROVE Reject(r) => stage' \in {"idle", "state"}
  BY DEF Reject, Return
<1>2. ASSUME NEW r, NEW sel, NEW flag PROVE Start(r, sel, flag) => stage' \in {"idle", "state"}
  BY DEF Start, Return
<1>3. Reply => stage' \in {"idle", "state"}
  BY DEF Reply, Return
<1>4. ASSUME NEW r, NEW m, NEW file, NEW flag, NEW now
      PROVE  Obtain(r, m, file, flag, now) => Kept
  BY <1>1, <1>2, <1>3, Zenon DEF Obtain
<1>5. ApplySelection => Kept
  BY <1>1, <1>2, Zenon DEF ApplySelection
<1>6. ReloadSelection => Kept
  BY <1>4, Zenon DEF ReloadSelection
<1>7. SwitchMode("mode") \/ SwitchMode("param") => Kept
  BY <1>3, <1>4, Zenon DEF SwitchMode
<1>8. StopStreaming => Kept
  BY DEF StopStreaming
<1>9. StartupApply => Kept \/ UNCHANGED <<handler, tools>>
  BY <1>4, Zenon DEF StartupApply
<1>10. UNCHANGED <<handler, tools>> => Tracked'
  BY DEF handler, tools, Tracked, KnownIds
<1>11. Kept => Tracked'
  BY TrackedKept DEF tools
<1> QED
  BY <1>5, <1>6, <1>7, <1>8, <1>9, <1>10, <1>11, Zenon DEF Begin

\* The container loses components, and gains orphans only.
LEMMA WorldTracked == ASSUME Tracked, World PROVE Tracked'
<1>1. UNCHANGED <<active, stage, todo, selection>>
  BY DEF World, ServerLost, ServerReturns, LateAtSink, LateAtContainer, tools
<1>2. ASSUME UNCHANGED <<loaded, orphans>> \/ loaded' = {} PROVE Tracked'
  BY <1>1, <1>2, TrackedKept
<1>3. ASSUME NEW s \in Servers, ServerLost(s) \/ ServerReturns(s) PROVE Tracked'
  BY <1>2, <1>3 DEF ServerLost, ServerReturns, tools
<1>4. ASSUME NEW r \in lateSink, LateAtSink(r) PROVE Tracked'
  BY <1>2, <1>4 DEF LateAtSink, tools
<1>5. ASSUME NEW r \in lateTool, LateAtContainer(r) PROVE Tracked'
  <2>1. CASE loaded' = loaded \ {r.id} /\ orphans' = orphans \ {r.id}
    BY <1>1, <2>1, TrackedKept
  <2>2. CASE \E id \in NextIds : loaded' = loaded \cup {id} /\ orphans' = orphans \cup {id}
    BY <1>1, <2>2, TrackedKept
  <2> QED
    BY <1>5, <2>1, <2>2 DEF LateAtContainer
<1> QED
  BY <1>3, <1>4, <1>5 DEF World

\* The controller knows every component in the container, whatever fails, except
\* those whose LoadNode call it had given up, as long as no selection names two
\* tools for one topic.
THEOREM NoToolIsForgotten == Spec => []ToolsTracked
<1>1. Init => Tracked
  BY DEF Init, Tracked
<1>2. OneToolEach /\ Typed /\ Tracked /\ [Next]_vars => Tracked'
  <2>1. Tracked /\ UNCHANGED vars => Tracked'
    BY DEF vars, handler, tools, Tracked, KnownIds
  <2> QED
    BY <2>1, BeginTracked, ContinueTracked, WorldTracked DEF Next
<1>3. CASE OneToolEach
  <2>1. Tracked => ToolsTracked
    BY DEF Tracked, ToolsTracked, KnownIds
  <2>2. Typed /\ Tracked /\ [Next]_vars => Tracked'
    BY <1>2, <1>3
  <2> QED
    BY TypedInvariant, <1>1, <2>1, <2>2, PTL DEF Spec
<1>4. CASE ~OneToolEach
  <2>1. ToolsTracked
    BY <1>4 DEF ToolsTracked, OneToolEach
  <2> QED
    BY <2>1, PTL
<1> QED
  BY <1>3, <1>4

----------------------------------------------------------------------------
(* A handler makes a bounded number of calls *)

\* There are finitely many tools to unload and entries to load, even where there
\* are infinitely many topics.
Sized == IsFiniteSet(DOMAIN active)

LEMMA SelectionSize ==
  ASSUME NEW sel \in Selections
  PROVE  /\ Len(sel) \in Nat
         /\ IsFiniteSet(PlanTools(sel)) /\ Cardinality(PlanTools(sel)) \in Nat
         /\ Cardinality(PlanTools(sel)) <= Len(sel)
<1>1. sel \in Seq(Entries)
  BY ConstantsAssumption DEF ConstantsAssumption
<1>2. Len(sel) \in Nat /\ DOMAIN sel = 1..Len(sel)
  BY <1>1
<1>3. IsFiniteSet(1..Len(sel)) /\ Cardinality(1..Len(sel)) = Len(sel)
  <2>1. 1 \in Int /\ Len(sel) \in Int
    BY <1>2
  <2>2. IsFiniteSet(1..Len(sel))
        /\ Cardinality(1..Len(sel)) = IF 1 > Len(sel) THEN 0 ELSE Len(sel) - 1 + 1
    BY <2>1, FS_Interval, Zenon
  <2> QED
    BY <1>2, <2>2
<1>4. PlanTools(sel) \in SUBSET (1..Len(sel))
  BY <1>2 DEF PlanTools
<1> QED
  BY <1>2, <1>3, <1>4, FS_Subset, FS_CardinalityType

\* The calls left at each stage: those of this sink and the next, and those of the
\* loops over the tools where they are still to come.
CallsPerStage ==
  LET base  == IF sink = "kafka" THEN 9 ELSE 0
      loops == IF sink = "kafka" \/ Stopping
               THEN Cardinality(DOMAIN active) + Len(selection) ELSE 0
  IN  /\ stage = "state" => CallsLeft = base + 8 + loops
      /\ stage = "deactivate" => CallsLeft = base + 7 + loops
      /\ stage = "confirm" => CallsLeft = base + 6 + loops
      /\ stage = "configure" => CallsLeft = base + 5 + loops
      /\ stage = "clear" => CallsLeft = base + 4 + Cardinality(todo) + Len(selection)
      /\ stage = "load" => CallsLeft = base + 3 + Cardinality(todo)
      /\ stage = "params" => CallsLeft = base + 2
      /\ stage = "activate" => CallsLeft = base + 1
      /\ stage \in {"finish", "idle"} => CallsLeft = base
      /\ Cardinality(DOMAIN active) \in Nat /\ Len(selection) \in Nat
      /\ stage \in {"clear", "load"} => IsFiniteSet(todo) /\ Cardinality(todo) \in Nat
      /\ CallsLeft \in Nat

LEMMA CallsByStage == Typed /\ Sized => CallsPerStage
<1> SUFFICES ASSUME Typed, Sized PROVE CallsPerStage
  OBVIOUS
<1>1. Cardinality(DOMAIN active) \in Nat
  BY FS_CardinalityType DEF Sized
<1>2. selection \in Selections
  BY DEF Typed, TypeOK
<1>3. Len(selection) \in Nat /\ IsFiniteSet(PlanTools(selection))
  BY <1>2, SelectionSize
<1>4. stage \in {"clear", "load"} => IsFiniteSet(todo) /\ Cardinality(todo) \in Nat
  <2>1. stage = "clear" => IsFiniteSet(todo)
    BY FS_Subset DEF Sized, Typed, Work
  <2>2. stage = "load" => IsFiniteSet(todo)
    BY <1>3, FS_Subset DEF Typed, Work
  <2> QED
    BY <2>1, <2>2, FS_CardinalityType
<1>5. stage \in {"configure", "activate", "deactivate", "idle", "state", "confirm", "clear",
                 "load", "params", "finish"}
  BY DEF Typed, TypeOK, Transitions
<1> QED
  BY <1>1, <1>3, <1>4, <1>5 DEF CallsPerStage, CallsLeft, SinkCalls, ToolCalls

\* The same after a step.
LEMMA CallsByStageAfter == Typed' /\ Sized' => CallsPerStage'
  BY CallsByStage, PTL

\* No step makes the map of tools infinite.
LEMMA SizedStep == Sized /\ [Next]_vars => Sized'
<1> SUFFICES ASSUME Sized, [Next]_vars PROVE Sized'
  OBVIOUS
<1>1. ASSUME active' = active PROVE Sized'
  BY <1>1 DEF Sized
<1>2. CASE Begin \/ World \/ UNCHANGED vars
  <2>1. active' = active
    BY <1>2 DEF Begin, ApplySelection, ReloadSelection, SwitchMode, StartupApply,
       StopStreaming, Obtain, World, ServerLost, ServerReturns, LateAtSink,
       LateAtContainer, tools, vars
  <2> QED
    BY <1>1, <2>1
<1>3. CASE ClearDone
  <2>1. DOMAIN active' = {}
    BY <1>3 DEF ClearDone
  <2> QED
    BY <2>1, FS_EmptySet DEF Sized
<1>4. CASE LoadTool
  <2>1. CASE active' = active
    BY <1>1, <2>1
  <2>2. CASE \E t : DOMAIN active' = DOMAIN active \cup {t}
    BY <2>2, FS_AddElement DEF Sized
  <2> QED
    BY <1>4, <2>1, <2>2 DEF LoadTool
<1>5. CASE Continue /\ ~ClearDone /\ ~LoadTool
  <2>1. active' = active
    BY <1>5 DEF Continue, ReadState, StateUnknown, ChangeState, ChangeStateUnanswered,
       SetSubscriptions, SetSubscriptionsUnanswered, UnloadTool, UnloadUnanswered,
       LoadUnanswered, LoadDone, Finish, tools
  <2> QED
    BY <1>1, <2>1
<1> QED
  BY <1>2, <1>3, <1>4, <1>5 DEF Next

\* What a step of a handler that goes on has to show.
Fewer == request' = request /\ CallsLeft' < CallsLeft

\* Going on with the subscriptions, after the tools in the case of Kafka.
LEMMA ReadyFewer ==
  ASSUME CallsPerStage, CallsPerStage', Ready, active' = active,
         stage \in {"state", "confirm", "configure"}
  PROVE  Fewer
<1>1. UNCHANGED <<request, selection, sink>>
  BY DEF Ready, Goto
<1>2. CASE sink = "kafka"
  <2>1. stage' = "clear" /\ todo' = DOMAIN active
    BY <1>2 DEF Ready, Goto
  <2> QED
    BY <1>1, <1>2, <2>1 DEF CallsPerStage, Fewer
<1>3. CASE sink # "kafka"
  <2>1. stage' = "params"
    BY <1>3 DEF Ready, Goto
  <2> QED
    BY <1>1, <1>3, <2>1 DEF CallsPerStage, Fewer
<1> QED
  BY <1>2, <1>3

LEMMA ResumeFewer ==
  ASSUME CallsPerStage, CallsPerStage', Resume, active' = active,
         stage \in {"state", "confirm"}
  PROVE  Fewer
<1>1. CASE Ready
  BY <1>1, ReadyFewer
<1>2. CASE Goto("configure", sink, {})
  <2>1. stage' = "configure" /\ UNCHANGED <<request, selection, sink>>
    BY <1>2 DEF Goto
  <2> QED
    BY <2>1 DEF CallsPerStage, Fewer, Stopping
<1> QED
  BY <1>1, <1>2 DEF Resume

\* Going on with the other sink, with the tools of a stop, or with nothing.
LEMMA SinkDoneFewer ==
  ASSUME Typed, CallsPerStage, CallsPerStage', SinkDone, active' = active,
         stage \in {"state", "confirm", "deactivate", "activate"},
         stage = "deactivate" => Stopping
  PROVE  Fewer
<1>1. UNCHANGED <<request, selection>>
  BY DEF SinkDone, Goto
<1>2. Stopping' = Stopping
  BY <1>1 DEF Stopping
<1>3. Stopping => stage \in {"state", "deactivate"}
  BY DEF Typed, Work
<1>4. CASE sink = "kafka" /\ MosquittoEnabled
  <2>1. stage' = "state" /\ sink' = "mosquitto"
    BY <1>4 DEF SinkDone, Goto
  <2> QED
    BY <1>1, <1>2, <1>3, <1>4, <2>1 DEF CallsPerStage, Fewer
<1>5. CASE ~(sink = "kafka" /\ MosquittoEnabled)
  <2>1. sink' = sink
    BY <1>5 DEF SinkDone, Goto
  <2>2. CASE Stopping
    <3>1. stage' = "clear" /\ todo' = DOMAIN active
      BY <1>5, <2>2 DEF SinkDone, Goto
    <3> QED
      BY <1>1, <1>3, <2>1, <2>2, <3>1 DEF CallsPerStage, Fewer
  <2>3. CASE ~Stopping
    <3>1. stage' = "finish"
      BY <1>5, <2>3 DEF SinkDone, Goto
    <3> QED
      BY <1>1, <2>1, <2>3, <3>1 DEF CallsPerStage, Fewer
  <2> QED
    BY <2>2, <2>3
<1> QED
  BY <1>4, <1>5

\* However a call ends, the handler returns or has fewer calls left.
LEMMA ContinueAdvances ==
  ASSUME Typed, CallsPerStage, CallsPerStage', Continue
  PROVE  request' = "none" \/ Fewer
<1>f. Fail \/ Finish => request' = "none"
  BY DEF Fail, Finish, Return
<1>g. ASSUME NEW next, NEW work, Goto(next, sink, work)
      PROVE  stage' = next /\ todo' = work /\ UNCHANGED <<request, selection, sink>>
             /\ Stopping' = Stopping
  BY <1>g DEF Goto, Stopping
<1>1. CASE ReadState
  <2>1. active' = active /\ stage \in {"state", "confirm"}
    BY <1>1 DEF ReadState, tools
  <2>2. \/ stage = "state" /\ Goto("deactivate", sink, {})
        \/ SinkDone \/ Resume \/ Fail
    BY <1>1 DEF ReadState
  <2>3. CASE stage = "state" /\ Goto("deactivate", sink, {})
    BY <1>g, <2>1, <2>3 DEF CallsPerStage, Fewer
  <2> QED
    BY <1>f, <2>1, <2>2, <2>3, SinkDoneFewer, ResumeFewer
<1>2. CASE StateUnknown
  <2>1. active' = active /\ stage \in {"state", "confirm"} /\ (SinkDone \/ Fail)
    BY <1>2 DEF StateUnknown, tools
  <2> QED
    BY <1>f, <2>1, SinkDoneFewer
<1>3. CASE ChangeState
  <2>1. active' = active /\ stage \in Transitions
    BY <1>3 DEF ChangeState, tools
  <2>2. \/ stage = "configure" /\ Ready
        \/ stage = "deactivate" /\ Goto("confirm", sink, {})
        \/ (stage = "deactivate" => Stopping) /\ stage # "configure" /\ SinkDone
        \/ Fail
    BY <1>3 DEF ChangeState
  <2>3. CASE stage = "deactivate" /\ Goto("confirm", sink, {})
    BY <1>g, <2>1, <2>3 DEF CallsPerStage, Fewer
  <2>4. CASE (stage = "deactivate" => Stopping) /\ stage # "configure" /\ SinkDone
    BY <2>1, <2>4, SinkDoneFewer DEF Transitions
  <2> QED
    BY <1>f, <2>1, <2>2, <2>3, <2>4, ReadyFewer
<1>4. CASE ChangeStateUnanswered \/ UnloadUnanswered \/ LoadUnanswered \/ Finish
  BY <1>f, <1>4 DEF ChangeStateUnanswered, UnloadUnanswered, LoadUnanswered
<1>5. CASE SetSubscriptions \/ SetSubscriptionsUnanswered
  <2>1. stage = "params" /\ (Goto("activate", sink, {}) \/ Fail)
    BY <1>5 DEF SetSubscriptions, SetSubscriptionsUnanswered
  <2>2. CASE Goto("activate", sink, {})
    BY <1>g, <2>1, <2>2 DEF CallsPerStage, Fewer
  <2> QED
    BY <1>f, <2>1, <2>2
<1>6. CASE UnloadTool
  <2>1. stage = "clear"
    BY <1>6 DEF UnloadTool
  <2>2. PICK t \in todo : Goto("clear", sink, todo \ {t}) \/ Fail
    BY <1>6 DEF UnloadTool
  <2>3. CASE Goto("clear", sink, todo \ {t})
    <3>1. IsFiniteSet(todo) /\ Cardinality(todo) \in Nat
      BY <2>1 DEF CallsPerStage
    <3>2. Cardinality(todo \ {t}) = Cardinality(todo) - 1
      BY <3>1, FS_RemoveElement
    <3> QED
      BY <1>g, <2>1, <2>3, <3>1, <3>2 DEF CallsPerStage, Fewer
  <2> QED
    BY <1>f, <2>2, <2>3
<1>7. CASE ClearDone
  <2>1. stage = "clear" /\ todo = {}
        /\ (Goto("finish", sink, {}) \/ Goto("load", sink, PlanTools(selection)))
    BY <1>7 DEF ClearDone
  <2>2. Cardinality(todo) = 0
    BY <2>1, FS_EmptySet
  <2>3. CASE Goto("finish", sink, {})
    BY <1>g, <2>1, <2>2, <2>3 DEF CallsPerStage, Fewer
  <2>4. CASE Goto("load", sink, PlanTools(selection))
    <3>1. selection \in Selections
      BY DEF Typed, TypeOK
    <3>2. Cardinality(PlanTools(selection)) \in Nat
          /\ Cardinality(PlanTools(selection)) <= Len(selection)
      BY <3>1, SelectionSize
    <3> QED
      BY <1>g, <2>1, <2>2, <2>4, <3>2 DEF CallsPerStage, Fewer
  <2> QED
    BY <2>1, <2>3, <2>4
<1>8. CASE LoadTool
  <2>1. stage = "load" /\ todo # {} /\ (Goto("load", sink, todo \ {NextTool}) \/ Fail)
    BY <1>8 DEF LoadTool
  <2>2. CASE Goto("load", sink, todo \ {NextTool})
    <3>1. IsFiniteSet(todo) /\ Cardinality(todo) \in Nat
      BY <2>1 DEF CallsPerStage
    <3>2. NextTool \in todo
      <4>1. todo \in SUBSET Nat
        BY <2>1, SelectionsFacts DEF Typed, TypeOK, Work, PlanTools
      <4> QED
        BY <2>1, <4>1, NextToolFact
    <3>3. Cardinality(todo \ {NextTool}) = Cardinality(todo) - 1
      BY <3>1, <3>2, FS_RemoveElement
    <3> QED
      BY <1>g, <2>1, <2>2, <3>1, <3>3 DEF CallsPerStage, Fewer
  <2> QED
    BY <1>f, <2>1, <2>2
<1>9. CASE LoadDone
  <2>1. stage = "load" /\ todo = {} /\ Goto("params", sink, {})
    BY <1>9 DEF LoadDone
  <2>2. Cardinality(todo) = 0
    BY <2>1, FS_EmptySet
  <2> QED
    BY <1>g, <2>1, <2>2 DEF CallsPerStage, Fewer
<1> QED
  BY <1>1, <1>2, <1>3, <1>4, <1>5, <1>6, <1>7, <1>8, <1>9 DEF Continue

\* A request begins at the state of the Kafka sink, with the tools that there are.
LEMMA BeginCalls ==
  ASSUME CallsPerStage', Begin, request' # "none"
  PROVE  CallsLeft' = 17 + Cardinality(DOMAIN active) + Len(selection')
<1> DEFINE AtFirst == stage' = "state" /\ sink' = "kafka" /\ active' = active
<1>1. ASSUME NEW r PROVE ~Reject(r)
  BY DEF Reject, Return
<1>2. ASSUME NEW r, NEW sel, NEW flag
      PROVE  Start(r, sel, flag) => stage' = "state" /\ sink' = "kafka"
  BY DEF Start, Return
<1>3. ~Reply
  BY DEF Reply, Return
<1>4. ASSUME NEW r, NEW m, NEW file, NEW flag, NEW now
      PROVE  Obtain(r, m, file, flag, now) => AtFirst
  BY <1>1, <1>2, <1>3, Zenon DEF Obtain, tools
<1>5. ASSUME NEW r PROVE Idle(r) => request = "none"
  BY DEF Idle
<1>6. ApplySelection => AtFirst
  BY <1>1, <1>2, Zenon DEF ApplySelection, tools
<1>7. ReloadSelection \/ SwitchMode("mode") \/ SwitchMode("param") => AtFirst
  BY <1>3, <1>4, Zenon DEF ReloadSelection, SwitchMode
<1>8. StopStreaming => AtFirst
  BY DEF StopStreaming, tools
<1>9. StartupApply => AtFirst
  BY <1>4, <1>5, Zenon DEF StartupApply, handler
<1>10. AtFirst
  BY <1>6, <1>7, <1>8, <1>9, Zenon DEF Begin
<1> QED
  BY <1>10 DEF CallsPerStage

\* Every handler returns after at most 17 calls and one for each tool that is loaded
\* and each entry of the selection, whatever the servers do: the safety half of
\* HandlerReturns, for every number of topics and faults.
THEOREM HandlersAdvance == Spec => HandlerBounded
<1> DEFINE I == Typed /\ Sized
<1>1. Init => Sized
  <2>1. Init => DOMAIN active = {}
    BY DEF Init
  <2> QED
    BY <2>1, FS_EmptySet DEF Sized
<1>2. I /\ I' /\ [Next]_vars => [HandlerAdvances]_vars
  <2> SUFFICES ASSUME I, I', Next PROVE HandlerAdvances
    OBVIOUS
  <2>1. CallsPerStage /\ CallsPerStage'
    BY CallsByStage, CallsByStageAfter
  <2>2. CallsLeft \in Nat
    BY <2>1 DEF CallsPerStage
  <2>3. Continue => request' = "none" \/ CallsLeft' < CallsLeft
    BY <2>1, ContinueAdvances DEF Fewer
  <2>4. World => request' = request /\ CallsLeft' = CallsLeft
    <3>1. World => UNCHANGED <<request, stage, sink, todo, selection, active>>
      BY DEF World, ServerLost, ServerReturns, LateAtSink, LateAtContainer, tools
    <3> QED
      BY <3>1 DEF CallsLeft, SinkCalls, ToolCalls, Stopping
  <2>5. request = "none" => ~Continue
    BY DEF Typed, Work, Transitions, Continue, ReadState, StateUnknown, ChangeState,
       ChangeStateUnanswered, SetSubscriptions, SetSubscriptionsUnanswered, UnloadTool,
       UnloadUnanswered, ClearDone, LoadTool, LoadUnanswered, LoadDone, Finish
  <2>6. request = "none" /\ request' # "none" =>
          CallsLeft' = 17 + Cardinality(DOMAIN active) + Len(selection')
    BY <2>1, <2>4, <2>5, BeginCalls DEF Next
  <2> QED
    BY <2>2, <2>3, <2>4, <2>6 DEF HandlerAdvances
<1>3. Spec => []I
  BY TypedInvariant, <1>1, SizedStep, PTL DEF Spec
<1> QED
  BY <1>2, <1>3, PTL DEF Spec, HandlerBounded
=============================================================================
