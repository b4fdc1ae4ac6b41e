------------------------------ MODULE MCOcPstat ------------------------------
(***************************************************************************)
(* OcPstat with two clients.                                               *)
(***************************************************************************)
EXTENDS OcPstat
=============================================================================
