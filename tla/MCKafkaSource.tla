--------------------------- MODULE MCKafkaSource ---------------------------
(***************************************************************************)
(* A small instance of KafkaSource for TLC.                                *)
(***************************************************************************)
EXTENDS KafkaSource

CONSTANTS k, m, derived, mapped, illegal, byPrefix, byMapping

\* By default both Kafka topics are derived, and the name of one is illegal in
\* ROS; the mapping gives it a legal one and sends the other along.
McRoute == [r \in {byPrefix, byMapping} |->
             [t \in {k, m} |-> CASE r = byMapping -> mapped
                                 [] t = k -> derived
                                 [] OTHER -> illegal]]
=============================================================================
