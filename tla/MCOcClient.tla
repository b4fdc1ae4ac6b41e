----------------------------- MODULE MCOcClient ------------------------------
(***************************************************************************)
(* OcClient with a plain and a DTLS peer, two requests and two             *)
(* transmissions of each.                                                  *)
(***************************************************************************)
EXTENDS OcClient

Kinds(ks, cons, timeouts, eps) ==
  {p \in [kind : ks, con : cons, timeout : timeouts, ep : eps] :
     /\ p.kind # "unicast" => p.timeout = "none"
     /\ p.kind = "multicast" => ~p.con}

CONSTANTS plain, dtls

\* Requests with every timeout to a peer without DTLS, confirmable requests and
\* observations to one with DTLS, and multicasts.
Asks == Kinds({"unicast"}, BOOLEAN, {"none", "short", "long"}, {plain})
          \cup Kinds({"unicast", "observe"}, {TRUE}, {"none", "short"}, {dtls})
          \cup Kinds({"multicast"}, {FALSE}, {"none"}, {plain})

\* What handlers ask for: nothing that is retransmitted.
HandlerAsks == Kinds({"unicast"}, {FALSE}, {"none", "short"}, {plain})

\* Requests with a timeout.
TimedAsks == Kinds({"unicast"}, BOOLEAN, {"short", "long"}, {plain})
=============================================================================
