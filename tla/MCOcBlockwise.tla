---------------------------- MODULE MCOcBlockwise ----------------------------
(***************************************************************************)
(* An instance of OcBlockwise: an upload of two blocks and a request that  *)
(* fits one message, with the same key and answers of two blocks, and a    *)
(* confirmable GET with another key and an answer of one.                  *)
(***************************************************************************)
EXTENDS OcBlockwise

CONSTANTS light, lamp

Upload  == [key |-> light, up |-> 2, down |-> 2, con |-> TRUE]
Short   == [key |-> light, up |-> 1, down |-> 2, con |-> FALSE]
Other   == [key |-> lamp, up |-> 0, down |-> 1, con |-> TRUE]

MCKind == {Upload, Short, Other}

=============================================================================
