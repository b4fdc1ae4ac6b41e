-------------------------- MODULE MCOcEventQueue ---------------------------
(***************************************************************************)
(* The event queue of OcEventQueue with three slots, in both builds: with  *)
(* OC_DYNAMIC_ALLOCATION the array may double once, without it is fixed.   *)
(***************************************************************************)
EXTENDS OcEventQueue
=============================================================================
