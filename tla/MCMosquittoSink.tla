-------------------------- MODULE MCMosquittoSink --------------------------
(***************************************************************************)
(* A small instance of MosquittoSink for TLC.                              *)
(***************************************************************************)
EXTENDS MosquittoSink

CONSTANTS a, b, none, one, two, broken

\* The empty text, one topic, one topic before one of an unknown type, and a
\* text that is no YAML.
McTexts == {none, one, two, broken}
McParsed == [text \in McTexts |-> CASE text = one -> <<a>>
                                    [] text = two -> <<a, b>>
                                    [] OTHER -> <<>>]

\* One parameter at a time, as the controller and the tools do; and the
\* subscriptions together with the metrics, which nothing refuses.
McBatches == {{n} : n \in Names} \cup {{"subscriptions_yaml", "enabled"}}
=============================================================================
