---------------------------- MODULE MCController ----------------------------
(***************************************************************************)
(* Small instances of DispatcherController for TLC.                        *)
(***************************************************************************)
EXTENDS DispatcherController

CONSTANTS a, b

Plain(t) == [topic |-> t, tool |-> FALSE]
Tooled(t) == [topic |-> t, tool |-> TRUE]

\* The GUI asks for one topic, or for one without a name; the file has one
\* topic with a tool, or two; discovery finds none, one or two.
McGui == {<<Plain(a)>>, <<Plain(NoName)>>}
McOneTool == {<<Tooled(a)>>}
McTwoTools == {<<Tooled(a), Tooled(b)>>}
McAll == {<<>>, <<Plain(a)>>, <<Plain(a), Plain(b)>>}
McNothing == {}
=============================================================================
