---------------------------- MODULE SinkContract ----------------------------
(***************************************************************************)
(* What a sink promises to those who drive it, whatever it is made of: a   *)
(* lifecycle node streams nothing until it is ACTIVE, and then exactly     *)
(* the selection that its subscriptions_yaml held when it was activated    *)
(* and holds still, because the parameter is refused while it is ACTIVE.   *)
(* It stops when it is deactivated or shut down.  Only a node that         *)
(* on_activate has left FINALIZED, by an exception, may stream, and what   *)
(* it was about to: nothing stops it but the end of its process.           *)
(*                                                                         *)
(* KafkaSink and MosquittoSink implement this contract, and                *)
(* DispatcherController relies on no more than it for each of its sinks.   *)
(***************************************************************************)
EXTENDS Sequences

CONSTANT Selections  \* values of subscriptions_yaml; the empty one is <<>>

VARIABLES
  state,     \* lifecycle state
  subs,      \* the parameter subscriptions_yaml
  streamed   \* the selection whose messages are forwarded

vars == <<state, subs, streamed>>

Init ==
  /\ state = "unconfigured"
  /\ subs \in Selections
  /\ streamed = <<>>

Configure ==
  /\ state = "unconfigured"
  /\ state' = "inactive"
  /\ UNCHANGED <<subs, streamed>>

Activate ==
  /\ state = "inactive"
  /\ state' = "active"
  /\ streamed' = subs
  /\ UNCHANGED subs

\* An activation that throws ends the node, before it has begun to stream or after.
ActivateThrows ==
  /\ state = "inactive"
  /\ state' = "finalized"
  /\ streamed' \in {streamed, subs}
  /\ UNCHANGED subs

Deactivate ==
  /\ state = "active"
  /\ state' = "inactive"
  /\ streamed' = <<>>
  /\ UNCHANGED subs

Cleanup ==
  /\ state = "inactive"
  /\ state' = "unconfigured"
  /\ UNCHANGED <<subs, streamed>>

Shutdown ==
  /\ state # "finalized"
  /\ state' = "finalized"
  /\ streamed' = <<>>
  /\ UNCHANGED subs

SetSubscriptions ==
  /\ state # "active"
  /\ subs' \in Selections
  /\ UNCHANGED <<state, streamed>>

\* The process ends and is launched again.
Restart ==
  /\ state' = "unconfigured"
  /\ subs' \in Selections
  /\ streamed' = <<>>

Next ==
  \/ Configure \/ Activate \/ ActivateThrows \/ Deactivate \/ Cleanup \/ Shutdown
  \/ SetSubscriptions \/ Restart

Spec == Init /\ [][Next]_vars
=============================================================================
