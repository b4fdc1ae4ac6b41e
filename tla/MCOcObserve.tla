----------------------------- MODULE MCOcObserve -----------------------------
(***************************************************************************)
(* OcObserve with two clients and two resources, one of them polled.       *)
(***************************************************************************)
EXTENDS OcObserve

CONSTANTS c1, c2, r1, r2

Readable1 == {<<c1, r1>>, <<c1, r2>>, <<c2, r1>>}
Guarded1 == {<<c1, r1>>}
=============================================================================
