----------------------------- MODULE EventFifo -----------------------------
(***************************************************************************)
(* What the event queue of util/oc_process.c promises its users: posted    *)
(* events wait in one first-in first-out queue, do_event takes the oldest, *)
(* and oc_process_drop removes, in one indivisible step, exactly the       *)
(* events of one process that the caller's filter selects, leaving the     *)
(* order of all other events as it was.  Only a queue of fixed size may    *)
(* refuse an event.                                                        *)
(***************************************************************************)
EXTENDS OcList

CONSTANTS
  Process,            \* the protothreads events are addressed to
  Data,               \* what an event carries (event number and data pointer)
  Capacity            \* the room of a fixed-size queue

Event == [p : Process, d : Data]

VARIABLES
  fixedSize, \* TRUE: the queue has room for Capacity events only
  queue,     \* the events waiting, oldest first
  taken,     \* <<e>>: the event do_event took last; << >> before the first
  ret,       \* what the last oc_process_post returned
  dropped    \* what the last oc_process_drop returned

vars == <<fixedSize, queue, taken, ret, dropped>>

Init ==
  /\ fixedSize \in BOOLEAN
  /\ queue = << >>
  /\ taken = << >>
  /\ ret = "OK"
  /\ dropped = 0

Post(e) ==
  /\ fixedSize => Len(queue) < Capacity
  /\ queue' = Append(queue, e)
  /\ ret' = "OK"
  /\ UNCHANGED <<fixedSize, taken, dropped>>

Refuse ==
  /\ fixedSize /\ Len(queue) = Capacity
  /\ ret' = "FULL"
  /\ UNCHANGED <<fixedSize, queue, taken, dropped>>

Take ==
  /\ queue # << >>
  /\ taken' = <<Head(queue)>>
  /\ queue' = Tail(queue)
  /\ UNCHANGED <<fixedSize, ret, dropped>>

Drop(p, match) ==
  /\ queue' = Without(queue, [p : {p}, d : match])
  /\ dropped' = Len(queue) - Len(queue')
  /\ UNCHANGED <<fixedSize, taken, ret>>

Next ==
  \/ \E e \in Event : Post(e)
  \/ Refuse
  \/ Take
  \/ \E p \in Process, match \in SUBSET Data : Drop(p, match)

Spec == Init /\ [][Next]_vars
=============================================================================
