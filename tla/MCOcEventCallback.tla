-------------------------- MODULE MCOcEventCallback --------------------------
(***************************************************************************)
(* OcEventCallback with three blocks of memory: enough for two callbacks   *)
(* of one function and the periodic one of a resource.                     *)
(***************************************************************************)
EXTENDS OcEventCallback
=============================================================================
