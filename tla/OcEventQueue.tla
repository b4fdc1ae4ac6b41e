---------------------------- MODULE OcEventQueue ----------------------------
(***************************************************************************)
(* The ring buffer of pending events in util/oc_process.c: g_events,       *)
(* g_fevent, g_nevents and OC_PROCESS_NUMEVENTS, and the three functions   *)
(* that change them, oc_process_post, do_event and oc_process_drop.        *)
(*                                                                         *)
(* All three run on the thread of the main loop, so a call is one action,  *)
(* except oc_process_drop: its loop is modelled one iteration at a time    *)
(* (variable drop), which is how the proofs reason about it.  Nothing else *)
(* runs between two iterations.                                            *)
(*                                                                         *)
(* An event is the process it is addressed to and a datum that stands for  *)
(* the pair (event number, data pointer), the two things a drop filter may *)
(* look at.  Slots outside the live part of the ring keep whatever was     *)
(* last written there, as the array of the code does.                      *)
(***************************************************************************)
EXTENDS Integers, OcList

CONSTANTS
  Process,             \* the protothreads events are addressed to
  Data,                \* what an event carries
  Empty,               \* a zeroed slot
  NumEvents,           \* initial OC_PROCESS_NUMEVENTS (10 in the code)
  MaxNumEvents         \* bound: the queue never grows beyond this many slots

ASSUME QueueAssumption ==
  /\ NumEvents \in Nat \ {0}
  /\ MaxNumEvents \in Nat

Event == [p : Process, d : Data]
SlotValue == Event \cup {Empty}

VARIABLES
  dynamic,     \* is OC_DYNAMIC_ALLOCATION defined in this build?
  numevents,   \* OC_PROCESS_NUMEVENTS, the number of slots
  nevents,     \* g_nevents, the number of live events
  fevent,      \* g_fevent, the slot of the oldest live event
  events,      \* g_events
  taken,       \* do_event's static ev, data and receiver: <<e>>, or << >>
  ret,         \* the last return value of oc_process_post
  drop         \* the loop of oc_process_drop, its parameters and its result

queueVars == <<dynamic, numevents, nevents, fevent, events, taken, ret, drop>>

DropState == [active : BOOLEAN, p : Process, match : SUBSET Data,
              i : Nat, dropped : Nat]

\* The slot of the i-th live event, counting from 0.
Index(i) == (fevent + i) % numevents

\* oc_process_init: calloc of the initial number of slots.
QueueInit ==
  /\ dynamic \in BOOLEAN
  /\ numevents = NumEvents
  /\ nevents = 0
  /\ fevent = 0
  /\ events = [k \in 0..(NumEvents - 1) |-> Empty]
  /\ taken = << >>
  /\ ret = "OK"
  /\ drop \in [active : {FALSE}, p : Process, match : {{}}, i : {0},
               dropped : {0}]

-----------------------------------------------------------------------------
(* oc_process_post *)

\* The full array is doubled.  The n events from fevent to the old end move
\* to the new end, the slots they leave and the new slots before them are
\* zeroed; the events that had wrapped around stay at the front.
GrownFevent == 2 * numevents - (nevents - fevent)

\* Mutation: the array is enlarged, its events stay where they were.
GrownEventsUnmoved ==
  [k \in 0..(2 * numevents - 1) |->
     IF k < numevents THEN events[k] ELSE Empty]

GrownEvents ==
  [k \in 0..(2 * numevents - 1) |->
     IF k < fevent THEN events[k]
     ELSE IF k < GrownFevent THEN Empty
     ELSE events[fevent + (k - GrownFevent)]]

Post(e) ==
  /\ ~drop.active
  /\ nevents < numevents
  /\ events' = [events EXCEPT ![Index(nevents)] = e]
  /\ nevents' = nevents + 1
  /\ ret' = "OK"
  /\ UNCHANGED <<dynamic, numevents, fevent, taken, drop>>

PostGrow(e) ==
  /\ ~drop.active
  /\ dynamic
  /\ nevents = numevents
  /\ 2 * numevents <= MaxNumEvents
  /\ numevents' = 2 * numevents
  /\ fevent' = GrownFevent
  /\ events' = [GrownEvents EXCEPT ![(fevent' + nevents) % numevents'] = e]
  /\ nevents' = nevents + 1
  /\ ret' = "OK"
  /\ UNCHANGED <<dynamic, taken, drop>>

PostFull ==
  /\ ~drop.active
  /\ ~dynamic
  /\ nevents = numevents
  /\ ret' = "FULL"
  /\ UNCHANGED <<dynamic, numevents, nevents, fevent, events, taken, drop>>

-----------------------------------------------------------------------------
(* do_event: take the oldest event before it is delivered. *)

DoEvent ==
  /\ ~drop.active
  /\ nevents > 0
  /\ taken' = <<events[fevent]>>
  /\ fevent' = (fevent + 1) % numevents
  /\ nevents' = nevents - 1
  /\ UNCHANGED <<dynamic, numevents, events, ret, drop>>

-----------------------------------------------------------------------------
(* oc_process_drop *)

Matches(e) == e.p = drop.p /\ e.d \in drop.match

DropStart(p, match) ==
  /\ ~drop.active
  /\ drop' = [active |-> TRUE, p |-> p, match |-> match, i |-> 0, dropped |-> 0]
  /\ UNCHANGED <<dynamic, numevents, nevents, fevent, events, taken, ret>>

\* Mutation: slot 0 is not copied to the end when the live part wraps around.
ClosedGapNoCarry(index, last) ==
  IF last >= index
  THEN [k \in 0..(numevents - 1) |->
          IF index <= k /\ k < last THEN events[k + 1] ELSE events[k]]
  ELSE [k \in 0..(numevents - 1) |->
          IF k < last \/ (index <= k /\ k < numevents - 1) THEN events[k + 1]
          ELSE events[k]]

\* The array after the events behind slot index have moved up by one: one
\* memmove, or two and the copy of slot 0 when the live part wraps around.
ClosedGap(index, last) ==
  IF last >= index
  THEN [k \in 0..(numevents - 1) |->
          IF index <= k /\ k < last THEN events[k + 1] ELSE events[k]]
  ELSE [k \in 0..(numevents - 1) |->
          IF k < last \/ (index <= k /\ k < numevents - 1) THEN events[k + 1]
          ELSE IF k = numevents - 1 THEN events[0]
          ELSE events[k]]

DropKeep ==
  /\ drop.active
  /\ drop.i < nevents
  /\ ~Matches(events[Index(drop.i)])
  /\ drop' = [drop EXCEPT !.i = @ + 1]
  /\ UNCHANGED <<dynamic, numevents, nevents, fevent, events, taken, ret>>

\* Mutation: the removed event is not counted.
DropRemoveUncounted ==
  /\ drop.active
  /\ drop.i < nevents
  /\ Matches(events[Index(drop.i)])
  /\ events' = IF nevents > 1
               THEN ClosedGap(Index(drop.i), Index(nevents - 1))
               ELSE events
  /\ nevents' = nevents - 1
  /\ UNCHANGED <<dynamic, numevents, fevent, taken, ret, drop>>

DropRemove ==
  /\ drop.active
  /\ drop.i < nevents
  /\ Matches(events[Index(drop.i)])
  /\ events' = IF nevents > 1
               THEN ClosedGap(Index(drop.i), Index(nevents - 1))
               ELSE events
  /\ nevents' = nevents - 1
  /\ drop' = [drop EXCEPT !.dropped = @ + 1]
  /\ UNCHANGED <<dynamic, numevents, fevent, taken, ret>>

\* The loop ends; its locals go out of scope, dropped is returned.
DropEnd ==
  /\ drop.active
  /\ drop.i >= nevents
  /\ drop' = [drop EXCEPT !.active = FALSE, !.match = {}, !.i = 0]
  /\ UNCHANGED <<dynamic, numevents, nevents, fevent, events, taken, ret>>

-----------------------------------------------------------------------------
QueueNext ==
  \/ \E e \in Event : Post(e) \/ PostGrow(e)
  \/ PostFull
  \/ DoEvent
  \/ \E p \in Process, match \in SUBSET Data : DropStart(p, match)
  \/ DropKeep
  \/ DropRemove
  \/ DropEnd

QueueSpec == QueueInit /\ [][QueueNext]_queueVars

-----------------------------------------------------------------------------
(* Properties *)

\* The live events, oldest first: what iterating from g_fevent sees
\* (oc_process_iterate_events).
Contents == [k \in 1..nevents |-> events[Index(k - 1)]]

\* The variables have their types; the indices stay inside the array.
QueueTypeOK ==
  /\ dynamic \in BOOLEAN
  /\ numevents \in Nat \ {0}
  /\ nevents \in 0..numevents
  /\ fevent \in 0..(numevents - 1)
  /\ events \in [0..(numevents - 1) -> SlotValue]
  /\ taken \in {<< >>} \cup {<<e>> : e \in Event}
  /\ ret \in {"OK", "FULL"}
  /\ drop \in DropState

\* Every live slot holds a posted event: growing the array never leaves a
\* zeroed slot, and closing a gap never a stale one, inside the live part
\* that do_event will deliver.
LiveSlotsHoldEvents ==
  \A k \in 0..(nevents - 1) : events[Index(k)] \in Event

\* The scan of oc_process_drop overlooks nothing: no event it has passed
\* matches the filter, although removals shift events under it.
DropScanIsComplete ==
  drop.active =>
    /\ drop.i <= nevents
    /\ \A k \in 0..(drop.i - 1) : ~Matches(events[Index(k)])

\* The ring holds together: its indices stay in the array, its live part holds
\* posted events only, and a running oc_process_drop overlooks none of them.
\* The three parts are inductive together: each step needs all of them.
QueueInv == QueueTypeOK /\ LiveSlotsHoldEvents /\ DropScanIsComplete

WithoutNth(s, n) ==
  [k \in 1..(Len(s) - 1) |-> IF k < n THEN s[k] ELSE s[k + 1]]

StepOfFifo ==
  \/ Contents' = Contents
  \/ \E e \in Event : Contents' = Append(Contents, e)
  \/ /\ nevents > 0
     /\ Contents' = Tail(Contents)
     /\ taken' = <<Head(Contents)>>
  \/ /\ drop.active
     /\ \E n \in 1..nevents : /\ Matches(Contents[n])
                              /\ Contents' = WithoutNth(Contents, n)

\* Whatever the code does to the ring (wrap around, grow, shift in one or in
\* two pieces), the waiting events only change as a queue does: one more at
\* the back, the oldest taken, or one matching event cut out by a drop.
RingIsFifo == [][StepOfFifo]_queueVars

\* What a running drop will leave of the waiting events.
Kept == Without(Contents, [p : {drop.p}, d : drop.match])

Fifo == INSTANCE EventFifo WITH
  queue <- IF drop.active THEN Kept ELSE Contents,
  dropped <- IF drop.active THEN drop.dropped + nevents - Len(Kept)
             ELSE drop.dropped,
  fixedSize <- ~dynamic,
  Capacity <- NumEvents

\* The ring buffer implements EventFifo: the loop of oc_process_drop is, to
\* its caller, one atomic filtering of the queue, its return value included.
ImplementsFifo == Fifo!Spec
=============================================================================
