-------------------------- MODULE MCIntrospection --------------------------
(***************************************************************************)
(* A small instance of IntrospectionManager for TLC.                       *)
(***************************************************************************)
EXTENDS IntrospectionManager

CONSTANT h

Set(name, value) == [name |-> name, value |-> value]

\* Each parameter by itself, and a call that stops and starts the monitor.
McBatches ==
  {<<Set(name, value)>> : name \in Parameters, value \in BOOLEAN}
    \cup {<<Set("introspection_enabled", FALSE), Set("introspection_enabled", TRUE)>>}
McNoBatches == {}
=============================================================================
