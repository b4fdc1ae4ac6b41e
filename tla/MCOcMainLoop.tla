---------------------------- MODULE MCOcMainLoop -----------------------------
(***************************************************************************)
(* OcMainLoop with two receiving threads and one or two timers, for each   *)
(* of the three loops.                                                     *)
(***************************************************************************)
EXTENDS OcMainLoop
=============================================================================
