-------------------------- MODULE MCKafkaCdrToJson --------------------------
(***************************************************************************)
(* A small instance of KafkaCdrToJson for TLC.                             *)
(***************************************************************************)
EXTENDS KafkaCdrToJson

CONSTANTS in, out, away, back

\* With the compiled-in prefix conversions leave for a topic that nobody reads here;
\* with an empty one they come back.
McRoute == [r \in {away, back} |-> [t \in {in} |-> IF r = away THEN out ELSE t]]
=============================================================================
