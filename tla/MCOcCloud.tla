------------------------------ MODULE MCOcCloud ------------------------------
(***************************************************************************)
(* Two servers to choose from, two attempts before the next server is      *)
(* tried and two faults, so that one server can be given up.  Permanent    *)
(* tokens fit into a query and expiring ones do not: deregistrations go    *)
(* all their ways.                                                         *)
(***************************************************************************)
EXTENDS OcCloud

MCShort == {"none", "conf", "permanent"}
Application == {"provision", "start", "stop", "restart"}
Environment == {"post", "deprovision", "interface_up", "crash"}
MCCalls == Application \cup Environment

=============================================================================
