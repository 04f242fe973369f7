---------------------------- MODULE MCGisHealth ----------------------------
(***************************************************************************)
(* One robot or two, whose messages just fit into the retry buffer.        *)
(***************************************************************************)
EXTENDS GisHealth

CONSTANTS r1, r2

OneOrTwo == {<<r1>>, <<r1, r2>>}
Two == {r1, r2}
=============================================================================
