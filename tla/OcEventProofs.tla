---------------------------- MODULE OcEventProofs ----------------------------
(***************************************************************************)
(* Proofs about what goes through the events of oc_process.c.  The event   *)
(* ring, for every initial size, any number of doublings and every         *)
(* sequence of posts, takes and drops.  The delayed callbacks that TIMER   *)
(* events run, for any number of blocks, functions and contexts: the lists *)
(* are sound whatever a callback does while it runs, no expiry is lost, no *)
(* callback runs twice in a check, and none after its removal.             *)
(***************************************************************************)
EXTENDS OcEventQueue, OcEventCallback, OcListProofs


-----------------------------------------------------------------------------
(* The index arithmetic of the ring. *)

\* The slot k places after slot f in a ring of n slots, without the modulus.
Wrap(f, k, n) == IF f + k < n THEN f + k ELSE f + k - n

\* A slot number reached from fevent wraps around at most once.
LEMMA ModWrap ==
  ASSUME NEW n \in Nat \ {0}, NEW f \in 0..(n - 1), NEW k \in 0..n
  PROVE  /\ (f + k) % n = Wrap(f, k, n)
         /\ Wrap(f, k, n) \in 0..(n - 1)
<1>1. CASE f + k < n
  <2>1. (f + k) % n = f + k
    BY <1>1
  <2> QED
    BY <1>1, <2>1 DEF Wrap
<1>2. CASE ~(f + k < n)
  <2> DEFINE r == f + k - n
  <2>1. r \in 0..(n - 1) /\ f + k = r + n
    BY <1>2
  <2>2. (r + n) % n = r
    <3> HIDE DEF r
    <3> QED BY <2>1
  <2> QED
    BY <1>2, <2>1, <2>2 DEF Wrap
<1> QED
  BY <1>1, <1>2

\* The slot of the i-th event, in the shape the provers can use.
LEMMA IndexForm ==
  ASSUME QueueTypeOK, NEW i \in 0..numevents
  PROVE  /\ Index(i) = Wrap(fevent, i, numevents)
         /\ Index(i) \in 0..(numevents - 1)
  BY ModWrap DEF Index, QueueTypeOK

\* The same after a step.
LEMMA IndexFormPrime ==
  ASSUME QueueTypeOK', NEW i \in 0..numevents'
  PROVE  /\ Index(i)' = Wrap(fevent', i, numevents')
         /\ Index(i)' \in 0..(numevents' - 1)
  BY ModWrap DEF Index, QueueTypeOK

\* Different places of the ring are different slots.
LEMMA DistinctSlots ==
  ASSUME QueueTypeOK,
         NEW i \in 0..(numevents - 1), NEW j \in 0..(numevents - 1), i # j
  PROVE  Index(i) # Index(j)
<1>0. i \in 0..numevents /\ j \in 0..numevents
  BY DEF QueueTypeOK
<1>1. /\ Index(i) = Wrap(fevent, i, numevents)
      /\ Index(j) = Wrap(fevent, j, numevents)
  BY <1>0, IndexForm
<1> QED
  BY <1>1 DEF Wrap, QueueTypeOK

-----------------------------------------------------------------------------
(* The inductive invariant: types, live slots, and the scan of a drop. *)

LEMMA InitQueueInv == QueueInit => QueueInv
  BY QueueAssumption
  DEF QueueInit, QueueInv, QueueTypeOK, LiveSlotsHoldEvents,
      DropScanIsComplete, DropState, SlotValue

LEMMA PostQueueInv ==
  ASSUME QueueInv, NEW e \in Event, Post(e)
  PROVE  QueueInv'
<1>1. QueueTypeOK'
  <2>1. QueueTypeOK /\ nevents \in 0 .. numevents /\ e \in SlotValue
    BY DEF QueueInv, QueueTypeOK, SlotValue
  <2>2. events' \in [0 .. (numevents - 1) -> SlotValue]
    BY <2>1 DEF QueueTypeOK, Post
  <2> QED
    BY <2>1, <2>2 DEF QueueTypeOK, Post
<1>2. LiveSlotsHoldEvents'
  <2> SUFFICES ASSUME NEW k \in 0..nevents
               PROVE  events'[Index(k)'] \in Event
    BY DEF LiveSlotsHoldEvents, Post, QueueInv, QueueTypeOK
  <2>1. Index(k)' = Index(k)
    BY DEF Post, Index
  <2>2. nevents < numevents /\ k \in 0..numevents /\ nevents \in 0..numevents
    BY DEF Post, QueueInv, QueueTypeOK
  <2>3. CASE k = nevents
    BY <2>1, <2>2, <2>3, IndexForm DEF Post, QueueInv, QueueTypeOK
  <2>4. CASE k < nevents
    <3>1. Index(k) # Index(nevents)
      BY <2>2, <2>4, DistinctSlots DEF QueueInv, QueueTypeOK
    <3>2. events[Index(k)] \in Event
      BY <2>4 DEF QueueInv, LiveSlotsHoldEvents, QueueTypeOK
    <3> QED
      BY <2>1, <2>2, <3>1, <3>2, IndexForm DEF Post, QueueInv, QueueTypeOK
  <2> QED
    BY <2>2, <2>3, <2>4
<1>3. DropScanIsComplete'
  BY DEF Post, DropScanIsComplete
<1> QED
  BY <1>1, <1>2, <1>3 DEF QueueInv

\* Doubling keeps every live event live: the two pieces of the full ring end
\* up adjacent, across the new end of the array, and room follows them.
LEMMA PostGrowQueueInv ==
  ASSUME QueueInv, NEW e \in Event, PostGrow(e)
  PROVE  QueueInv'
<1>1. /\ numevents \in Nat \ {0} /\ fevent \in 0..(numevents - 1)
      /\ nevents = numevents /\ numevents' = 2 * numevents
      /\ nevents' = numevents + 1
      /\ fevent' = numevents + fevent
      /\ events \in [0..(numevents - 1) -> SlotValue]
  BY DEF PostGrow, GrownFevent, QueueInv, QueueTypeOK
<1> DEFINE grown == GrownEvents
           last  == (fevent' + nevents) % numevents'
<1>2. /\ grown \in [0..(2 * numevents - 1) -> SlotValue]
      /\ \A k \in 0..(2 * numevents - 1) :
            grown[k] = IF k < fevent THEN events[k]
                       ELSE IF k < numevents + fevent THEN Empty
                       ELSE events[k - numevents]
  BY <1>1 DEF GrownEvents, GrownFevent, SlotValue
<1>3. last = fevent
  <2>1. last = Wrap(fevent', numevents, numevents')
    BY <1>1, ModWrap
  <2> QED
    BY <1>1, <2>1 DEF Wrap
<1>4. events' = [grown EXCEPT ![fevent] = e]
  BY <1>3 DEF PostGrow
<1>5. QueueTypeOK'
  BY <1>1, <1>2, <1>4 DEF PostGrow, QueueInv, QueueTypeOK, SlotValue
<1>6. LiveSlotsHoldEvents'
  <2> SUFFICES ASSUME NEW k \in 0..numevents
               PROVE  events'[Index(k)'] \in Event
    BY <1>1 DEF LiveSlotsHoldEvents
  <2>1. Index(k)' = IF k < numevents - fevent THEN numevents + fevent + k
                    ELSE fevent + k - numevents
    BY <1>1, <1>5, IndexFormPrime DEF Wrap
  <2>2. CASE k = numevents
    BY <1>1, <1>2, <1>4, <2>1, <2>2
  <2>3. CASE k < numevents
    <3>1. events[Index(k)] \in Event
      BY <1>1, <2>3 DEF QueueInv, LiveSlotsHoldEvents
    <3>2. Index(k) = Wrap(fevent, k, numevents)
      BY IndexForm DEF QueueInv
    <3>3. events'[Index(k)'] = events[Index(k)]
      <4>1. CASE k < numevents - fevent
        BY <1>1, <1>2, <1>4, <2>1, <3>2, <4>1 DEF Wrap
      <4>2. CASE ~(k < numevents - fevent)
        BY <1>1, <1>2, <1>4, <2>1, <2>3, <3>2, <4>2 DEF Wrap
      <4> QED
        BY <4>1, <4>2
    <3> QED
      BY <3>1, <3>3
  <2> QED
    BY <1>1, <2>2, <2>3
<1>7. DropScanIsComplete'
  BY DEF PostGrow, DropScanIsComplete
<1> QED
  BY <1>5, <1>6, <1>7 DEF QueueInv

LEMMA DoEventQueueInv ==
  ASSUME QueueInv, DoEvent
  PROVE  QueueInv'
<1>1. /\ numevents \in Nat \ {0} /\ fevent \in 0..(numevents - 1)
      /\ nevents \in 1..numevents /\ numevents' = numevents
      /\ nevents' = nevents - 1 /\ events' = events
      /\ fevent' = Wrap(fevent, 1, numevents)
      /\ fevent' \in 0..(numevents - 1)
  BY ModWrap DEF DoEvent, QueueInv, QueueTypeOK
<1>3. events[fevent] = events[Index(0)]
  BY IndexForm, <1>1 DEF Wrap, QueueInv
<1>4. QueueTypeOK'
  BY <1>1, <1>3 DEF DoEvent, QueueInv, QueueTypeOK, LiveSlotsHoldEvents
<1>2. ASSUME NEW k \in 0..(nevents - 2)
      PROVE  Index(k)' = Index(k + 1)
  <2>1. Index(k)' = Wrap(fevent', k, numevents')
    BY <1>1, <1>4, IndexFormPrime
  <2>2. Index(k + 1) = Wrap(fevent, k + 1, numevents)
    BY <1>1, IndexForm DEF QueueInv
  <2> QED
    BY <1>1, <2>1, <2>2 DEF Wrap
<1>5. LiveSlotsHoldEvents'
  BY <1>1, <1>2 DEF QueueInv, LiveSlotsHoldEvents
<1>6. DropScanIsComplete'
  BY DEF DoEvent, DropScanIsComplete
<1> QED
  BY <1>4, <1>5, <1>6 DEF QueueInv

\* Starting, advancing or ending the scan leaves the ring alone.
LEMMA ScanQueueInv ==
  ASSUME QueueInv,
         \/ \E p \in Process, match \in SUBSET Data : DropStart(p, match)
         \/ DropKeep
         \/ DropEnd
  PROVE  QueueInv'
<1>1. UNCHANGED <<numevents, nevents, fevent, events, taken, ret>>
  BY DEF DropStart, DropKeep, DropEnd
<1>2. \A k : Index(k)' = Index(k)
  BY <1>1 DEF Index
<1>3. LiveSlotsHoldEvents'
  BY <1>1, <1>2 DEF QueueInv, LiveSlotsHoldEvents
<1>4. CASE \E p \in Process, match \in SUBSET Data : DropStart(p, match)
  BY <1>1, <1>3, <1>4
  DEF DropStart, QueueInv, QueueTypeOK, DropState, DropScanIsComplete
<1>5. CASE DropKeep
  <2>1. QueueTypeOK'
    BY <1>1, <1>5 DEF DropKeep, QueueInv, QueueTypeOK, DropState
  <2>2. DropScanIsComplete'
    BY <1>1, <1>2, <1>5
    DEF DropKeep, QueueInv, QueueTypeOK, DropState, DropScanIsComplete, Matches
  <2> QED
    BY <1>3, <2>1, <2>2 DEF QueueInv
<1>6. CASE DropEnd
  BY <1>1, <1>3, <1>6
  DEF DropEnd, QueueInv, QueueTypeOK, DropState, DropScanIsComplete
<1> QED
  BY <1>4, <1>5, <1>6

\* Closing the gap at the i-th event shifts every later event forward by one
\* place and no earlier one, in both layouts of the ring.
LEMMA ClosedGapShifts ==
  ASSUME QueueTypeOK, NEW i \in 0..(nevents - 1), nevents > 1
  PROVE  LET new == ClosedGap(Index(i), Index(nevents - 1))
         IN /\ new \in [0..(numevents - 1) -> SlotValue]
            /\ \A k \in 0..(nevents - 2) :
                 new[Index(k)] = IF k < i THEN events[Index(k)]
                                 ELSE events[Index(k + 1)]
<1> DEFINE index == Index(i)
           last  == Index(nevents - 1)
           new   == ClosedGap(index, last)
<1>1. /\ numevents \in Nat \ {0} /\ fevent \in 0..(numevents - 1)
      /\ nevents \in 2..numevents
      /\ events \in [0..(numevents - 1) -> SlotValue]
  BY DEF QueueTypeOK
<1>2. /\ index = Wrap(fevent, i, numevents)
      /\ last = Wrap(fevent, nevents - 1, numevents)
      /\ index \in 0..(numevents - 1)
      /\ last \in 0..(numevents - 1)
  <2>1. i \in 0..numevents /\ nevents - 1 \in 0..numevents
    BY <1>1
  <2> QED
    BY <2>1, IndexForm
<1>3. \A k \in 0..(nevents - 1) :
        /\ Index(k) = Wrap(fevent, k, numevents)
        /\ Index(k) \in 0..(numevents - 1)
  BY <1>1, IndexForm
<1> HIDE DEF index, last
<1>4. new \in [0..(numevents - 1) -> SlotValue]
  BY <1>1, <1>2 DEF ClosedGap
<1>5. ASSUME NEW k \in 0..(nevents - 2)
      PROVE  new[Index(k)] = IF k < i THEN events[Index(k)]
                             ELSE events[Index(k + 1)]
  <2>1. /\ Index(k) = Wrap(fevent, k, numevents)
        /\ Index(k) \in 0..(numevents - 1)
        /\ Index(k + 1) = Wrap(fevent, k + 1, numevents)
    BY <1>1, <1>3
  <2>2. CASE last >= index
    <3>1. new[Index(k)] = IF index <= Index(k) /\ Index(k) < last
                          THEN events[Index(k) + 1] ELSE events[Index(k)]
      BY <1>1, <2>1, <2>2 DEF ClosedGap
    <3> QED
      BY <1>1, <1>2, <2>1, <2>2, <3>1 DEF Wrap
  <2>3. CASE ~(last >= index)
    <3>1. new[Index(k)] =
            IF Index(k) < last \/ (index <= Index(k) /\ Index(k) < numevents - 1)
            THEN events[Index(k) + 1]
            ELSE IF Index(k) = numevents - 1 THEN events[0]
            ELSE events[Index(k)]
      BY <1>1, <2>1, <2>3 DEF ClosedGap
    <3> QED
      BY <1>1, <1>2, <2>1, <2>3, <3>1 DEF Wrap
  <2> QED
    BY <2>2, <2>3
<1> QED
  BY <1>4, <1>5 DEF index, last

LEMMA DropRemoveQueueInv ==
  ASSUME QueueInv, DropRemove
  PROVE  QueueInv'
<1>1. /\ nevents \in 1..numevents /\ drop.i \in 0..(nevents - 1)
      /\ nevents' = nevents - 1
      /\ drop' = [drop EXCEPT !.dropped = @ + 1]
      /\ drop \in DropState
      /\ UNCHANGED <<numevents, fevent, taken, ret>>
  BY DEF DropRemove, QueueInv, QueueTypeOK, DropState
<1>2. \A k : Index(k)' = Index(k)
  BY <1>1 DEF Index
<1>3. /\ events' \in [0..(numevents - 1) -> SlotValue]
      /\ \A k \in 0..(nevents - 2) :
           events'[Index(k)] = IF k < drop.i THEN events[Index(k)]
                               ELSE events[Index(k + 1)]
  <2>1. CASE nevents > 1
    BY <1>1, <2>1, ClosedGapShifts DEF DropRemove, QueueInv
  <2>2. CASE nevents = 1
    BY <1>1, <2>2 DEF DropRemove, QueueInv, QueueTypeOK
  <2> QED
    BY <1>1, <2>1, <2>2
<1>4. QueueTypeOK'
  <2>1. drop' \in DropState
    BY <1>1 DEF DropState
  <2> QED
    BY <1>1, <1>3, <2>1 DEF QueueInv, QueueTypeOK
<1>5. LiveSlotsHoldEvents'
  BY <1>1, <1>2, <1>3 DEF QueueInv, LiveSlotsHoldEvents
<1>6. DropScanIsComplete'
  <2>1. /\ drop'.i = drop.i /\ drop'.p = drop.p /\ drop'.match = drop.match
    BY <1>1 DEF DropState
  <2>2. ASSUME NEW k \in 0..(drop.i - 1)
        PROVE  events'[Index(k)'] = events[Index(k)]
    BY <1>1, <1>2, <1>3, <2>2
  <2>3. \A k \in 0..(drop.i - 1) : ~Matches(events[Index(k)])
    BY DEF DropRemove, QueueInv, DropScanIsComplete
  <2> QED
    BY <1>1, <2>1, <2>2, <2>3 DEF DropScanIsComplete, Matches
<1> QED
  BY <1>4, <1>5, <1>6 DEF QueueInv

LEMMA NextQueueInv == QueueInv /\ [QueueNext]_queueVars => QueueInv'
<1> SUFFICES ASSUME QueueInv, [QueueNext]_queueVars
             PROVE  QueueInv'
  OBVIOUS
<1>1. ASSUME NEW e \in Event, Post(e) PROVE QueueInv'
  BY <1>1, PostQueueInv
<1>2. ASSUME NEW e \in Event, PostGrow(e) PROVE QueueInv'
  BY <1>2, PostGrowQueueInv
<1>3. CASE PostFull
  BY <1>3 DEF PostFull, QueueInv, QueueTypeOK, LiveSlotsHoldEvents,
              DropScanIsComplete, Index
<1>4. CASE DoEvent
  BY <1>4, DoEventQueueInv
<1>5. CASE \/ \E p \in Process, match \in SUBSET Data : DropStart(p, match)
           \/ DropKeep
           \/ DropEnd
  BY <1>5, ScanQueueInv
<1>6. CASE DropRemove
  BY <1>6, DropRemoveQueueInv
<1>7. CASE UNCHANGED queueVars
  BY <1>7 DEF queueVars, QueueInv, QueueTypeOK, LiveSlotsHoldEvents,
     DropScanIsComplete, Index, Matches
<1> QED
  BY <1>1, <1>2, <1>3, <1>4, <1>5, <1>6, <1>7 DEF QueueNext

\* The ring of oc_process.c holds together, in any configuration: the
\* invariant that event_queue checks on a small ring.
THEOREM QueueInvariant == QueueSpec => []QueueInv
  BY InitQueueInv, NextQueueInv, PTL DEF QueueSpec

\* The indices of oc_process.c never leave the array, in any configuration.
THEOREM QueueTypeCorrect == QueueSpec => []QueueTypeOK
<1>1. QueueInv => QueueTypeOK
  BY DEF QueueInv
<1> QED
  BY <1>1, QueueInvariant, PTL

\* do_event never delivers a zeroed or a stale slot, however often the array
\* has been doubled, wrapped around and shifted.
THEOREM QueueLiveSlots == QueueSpec => []LiveSlotsHoldEvents
<1>1. QueueInv => LiveSlotsHoldEvents
  BY DEF QueueInv
<1> QED
  BY <1>1, QueueInvariant, PTL

\* oc_process_drop leaves no event behind that its filter selects.
THEOREM QueueDropComplete == QueueSpec => []DropScanIsComplete
<1>1. QueueInv => DropScanIsComplete
  BY DEF QueueInv
<1> QED
  BY <1>1, QueueInvariant, PTL

-----------------------------------------------------------------------------
(* Every step changes the waiting events as a queue does. *)

LEMMA ContentsSeq ==
  ASSUME QueueInv
  PROVE  /\ Contents \in Seq(Event)
         /\ Len(Contents) = nevents
         /\ \A k \in 1..nevents : Contents[k] = events[Index(k - 1)]
<1>1. nevents \in Nat
  BY DEF QueueInv, QueueTypeOK
<1>2. \A k \in 1..nevents : events[Index(k - 1)] \in Event
  BY <1>1 DEF QueueInv, LiveSlotsHoldEvents
<1> QED
  BY <1>1, <1>2 DEF Contents

LEMMA ContentsSeqPrime ==
  ASSUME QueueInv'
  PROVE  /\ Contents' \in Seq(Event)
         /\ Len(Contents') = nevents'
         /\ \A k \in 1..nevents' : Contents'[k] = events'[Index(k - 1)']
<1>1. nevents' \in Nat
  BY DEF QueueInv, QueueTypeOK
<1>2. \A n \in Nat : \A k \in 1..n : k - 1 \in 0..(n - 1)
  OBVIOUS
<1>3. ASSUME NEW k \in 1..nevents'
      PROVE  events'[Index(k - 1)'] \in Event
  <2>1. k - 1 \in 0..(nevents' - 1)
    BY <1>1, <1>2, Zenon
  <2> QED
    BY <2>1 DEF QueueInv, LiveSlotsHoldEvents
<1> QED
  BY <1>1, <1>3 DEF Contents

\* Two sequences of the same length with the same elements are equal.
LEMMA SeqEq ==
  ASSUME NEW S, NEW s \in Seq(S), NEW t \in Seq(S), Len(s) = Len(t),
         \A k \in 1..Len(s) : s[k] = t[k]
  PROVE  s = t
  OBVIOUS

LEMMA PostFifo ==
  ASSUME QueueInv, NEW e \in Event, Post(e)
  PROVE  Contents' = Append(Contents, e)
<1>1. QueueInv'
  BY PostQueueInv
<1>2. /\ nevents < numevents /\ nevents \in 0..numevents
      /\ numevents \in Nat \ {0} /\ nevents' = nevents + 1
      /\ fevent \in 0..(numevents - 1)
      /\ events \in [0..(numevents - 1) -> SlotValue]
      /\ events' = [events EXCEPT ![Index(nevents)] = e]
  BY DEF Post, QueueInv, QueueTypeOK
<1>3. ASSUME NEW k \in 1..(nevents + 1)
      PROVE  Contents'[k] = Append(Contents, e)[k]
  <2>1. Contents'[k] = events'[Index(k - 1)]
    BY <1>1, <1>2, ContentsSeqPrime DEF Post, Index
  <2>2. CASE k = nevents + 1
    <3>1. Index(k - 1) = Index(nevents) /\ Index(nevents) \in 0..(numevents - 1)
      BY <1>2, <2>2, IndexForm DEF QueueInv
    <3>2. Contents'[k] = e
      BY <1>2, <2>1, <3>1
    <3> QED
      BY <2>2, <3>2, ContentsSeq
  <2>3. CASE k # nevents + 1
    <3>1. k \in 1..nevents /\ k - 1 \in 0..numevents
      BY <1>2, <2>3
    <3>2. Index(k - 1) # Index(nevents)
      BY <1>2, <3>1, DistinctSlots DEF QueueInv
    <3>3. events'[Index(k - 1)] = events[Index(k - 1)]
      BY <1>2, <3>1, <3>2, IndexForm DEF QueueInv
    <3> QED
      BY <2>1, <3>1, <3>3, ContentsSeq
  <2> QED
    BY <2>2, <2>3
<1> QED
  BY <1>1, <1>2, <1>3, ContentsSeq, ContentsSeqPrime, SeqEq

LEMMA PostGrowFifo ==
  ASSUME QueueInv, NEW e \in Event, PostGrow(e)
  PROVE  Contents' = Append(Contents, e)
<1>1. QueueInv'
  BY PostGrowQueueInv
<1>2. /\ numevents \in Nat \ {0} /\ fevent \in 0..(numevents - 1)
      /\ nevents = numevents /\ numevents' = 2 * numevents
      /\ nevents' = numevents + 1
      /\ fevent' = numevents + fevent
      /\ events \in [0..(numevents - 1) -> SlotValue]
  BY DEF PostGrow, GrownFevent, QueueInv, QueueTypeOK
<1>3. (fevent' + nevents) % numevents' = fevent
  <2>1. (fevent' + nevents) % numevents' = Wrap(fevent', nevents, numevents')
    BY <1>2, ModWrap
  <2> QED
    BY <1>2, <2>1 DEF Wrap
<1>4. \A k \in 0..(2 * numevents - 1) :
        events'[k] = IF k = fevent THEN e
                     ELSE IF k < fevent THEN events[k]
                     ELSE IF k < numevents + fevent THEN Empty
                     ELSE events[k - numevents]
  BY <1>2, <1>3 DEF PostGrow, GrownEvents, GrownFevent
<1>5. ASSUME NEW k \in 1..(nevents + 1)
      PROVE  Contents'[k] = Append(Contents, e)[k]
  <2>1. Contents'[k] = events'[Index(k - 1)']
    BY <1>1, <1>2, ContentsSeqPrime
  <2>2. Index(k - 1)' = IF k - 1 < numevents - fevent
                        THEN numevents + fevent + (k - 1)
                        ELSE fevent + (k - 1) - numevents
    <3>1. k - 1 \in 0..numevents'
      BY <1>2
    <3>2. Index(k - 1)' = Wrap(fevent', k - 1, numevents')
      BY <1>1, <3>1, IndexFormPrime DEF QueueInv
    <3> QED
      BY <1>2, <3>2 DEF Wrap
  <2>3. CASE k = nevents + 1
    <3>1. Index(k - 1)' = fevent
      BY <1>2, <2>2, <2>3
    <3>2. Contents'[k] = e
      BY <1>2, <1>4, <2>1, <3>1
    <3> QED
      BY <2>3, <3>2, ContentsSeq
  <2>4. CASE k # nevents + 1
    <3>1. k \in 1..nevents /\ k - 1 \in 0..numevents
      BY <1>2, <2>4
    <3>2. Index(k - 1) = Wrap(fevent, k - 1, numevents)
      BY <3>1, IndexForm DEF QueueInv
    <3>3. events'[Index(k - 1)'] = events[Index(k - 1)]
      BY <1>2, <1>4, <2>2, <3>1, <3>2 DEF Wrap
    <3> QED
      BY <2>1, <3>1, <3>3, ContentsSeq
  <2> QED
    BY <2>3, <2>4
<1> QED
  BY <1>1, <1>2, <1>5, ContentsSeq, ContentsSeqPrime, SeqEq

LEMMA DoEventFifo ==
  ASSUME QueueInv, DoEvent
  PROVE  /\ Contents' = Tail(Contents)
         /\ taken' = <<Head(Contents)>>
<1>1. QueueInv'
  BY DoEventQueueInv
<1>2. /\ numevents \in Nat \ {0} /\ fevent \in 0..(numevents - 1)
      /\ nevents \in 1..numevents /\ numevents' = numevents
      /\ nevents' = nevents - 1 /\ events' = events
      /\ fevent' = Wrap(fevent, 1, numevents)
      /\ taken' = <<events[fevent]>>
  <2>1. (fevent + 1) % numevents = Wrap(fevent, 1, numevents)
    BY ModWrap DEF QueueInv, QueueTypeOK, DoEvent
  <2> QED
    BY <2>1 DEF DoEvent, QueueInv, QueueTypeOK
<1>3. events[fevent] = Head(Contents)
  <2>1. Index(0) = fevent
    BY <1>2, IndexForm DEF Wrap, QueueInv
  <2>2. Contents[1] = events[Index(0)]
    BY <1>2, ContentsSeq
  <2> QED
    BY <1>2, <2>1, <2>2, ContentsSeq
<1>4. ASSUME NEW k \in 1..(nevents - 1)
      PROVE  Contents'[k] = Tail(Contents)[k]
  <2>1. Index(k - 1)' = Wrap(fevent', k - 1, numevents')
    <3>1. k - 1 \in 0..numevents'
      BY <1>2
    <3> QED
      BY <1>1, <3>1, IndexFormPrime DEF QueueInv
  <2>2. Index(k) = Wrap(fevent, k, numevents)
    BY <1>2, IndexForm DEF QueueInv
  <2>3. Index(k - 1)' = Index(k)
    BY <1>2, <2>1, <2>2 DEF Wrap
  <2>4. Contents'[k] = events[Index(k)]
    BY <1>1, <1>2, <2>3, ContentsSeqPrime
  <2>5. Contents[k + 1] = events[Index(k)]
    BY <1>2, ContentsSeq
  <2> QED
    BY <1>2, <2>4, <2>5, ContentsSeq
<1>5. Contents' = Tail(Contents)
  BY <1>1, <1>2, <1>4, ContentsSeq, ContentsSeqPrime, SeqEq
<1> QED
  BY <1>2, <1>3, <1>5

LEMMA DropRemoveFifo ==
  ASSUME QueueInv, DropRemove
  PROVE  /\ drop.i + 1 \in 1..nevents
         /\ Matches(Contents[drop.i + 1])
         /\ Contents' = WithoutNth(Contents, drop.i + 1)
<1>1. QueueInv'
  BY DropRemoveQueueInv
<1>2. /\ nevents \in 1..numevents /\ drop.i \in 0..(nevents - 1)
      /\ numevents \in Nat
      /\ nevents' = nevents - 1
      /\ UNCHANGED <<numevents, fevent>>
  BY DEF DropRemove, QueueInv, QueueTypeOK, DropState
<1>3. Matches(Contents[drop.i + 1])
  BY <1>2, ContentsSeq DEF DropRemove
<1>4. \A k \in 0..(nevents - 2) :
        events'[Index(k)] = IF k < drop.i THEN events[Index(k)]
                            ELSE events[Index(k + 1)]
  <2>1. CASE nevents > 1
    BY <1>2, <2>1, ClosedGapShifts DEF DropRemove, QueueInv
  <2>2. CASE nevents = 1
    BY <1>2, <2>2
  <2> QED
    BY <1>2, <2>1, <2>2
<1>5. ASSUME NEW k \in 1..(nevents - 1)
      PROVE  Contents'[k] = IF k < drop.i + 1 THEN Contents[k]
                            ELSE Contents[k + 1]
  <2>1. Contents'[k] = events'[Index(k - 1)]
    BY <1>1, <1>2, ContentsSeqPrime DEF Index
  <2>2. events'[Index(k - 1)] = IF k - 1 < drop.i THEN events[Index(k - 1)]
                                ELSE events[Index((k - 1) + 1)]
    <3>1. k - 1 \in 0..(nevents - 2)
      BY <1>2
    <3> QED
      BY <3>1, <1>4
  <2>3. (k - 1) + 1 = k
    OBVIOUS
  <2>4. /\ Contents[k] = events[Index(k - 1)]
        /\ Contents[k + 1] = events[Index(k)]
    BY <1>2, ContentsSeq
  <2> QED
    BY <1>2, <2>1, <2>2, <2>3, <2>4
<1>6. Contents' = WithoutNth(Contents, drop.i + 1)
  <2>1. /\ WithoutNth(Contents, drop.i + 1) \in Seq(Event)
        /\ Len(WithoutNth(Contents, drop.i + 1)) = nevents - 1
        /\ \A k \in 1..(nevents - 1) :
             WithoutNth(Contents, drop.i + 1)[k] =
               IF k < drop.i + 1 THEN Contents[k] ELSE Contents[k + 1]
    BY <1>2, ContentsSeq DEF WithoutNth
  <2> QED
    BY <1>1, <1>2, <1>5, <2>1, ContentsSeqPrime, SeqEq
<1> QED
  BY <1>2, <1>3, <1>6

\* The ring buffer is a first-in first-out queue, for every initial size and
\* through every doubling: posting appends, do_event takes the oldest, and a
\* drop cuts out matching events only.
THEOREM QueueIsFifo == QueueSpec => RingIsFifo
<1>1. QueueInv /\ [QueueNext]_queueVars => [StepOfFifo]_queueVars
  <2> SUFFICES ASSUME QueueInv, QueueNext PROVE StepOfFifo
    BY DEF queueVars
  <2>1. ASSUME NEW e \in Event, Post(e) \/ PostGrow(e) PROVE StepOfFifo
    BY <2>1, PostFifo, PostGrowFifo DEF StepOfFifo
  <2>2. CASE DoEvent
    BY <2>2, DoEventFifo DEF StepOfFifo, DoEvent
  <2>3. CASE DropRemove
    BY <2>3, DropRemoveFifo DEF StepOfFifo, DropRemove
  <2>4. CASE \/ PostFull
             \/ \E p \in Process, match \in SUBSET Data : DropStart(p, match)
             \/ DropKeep
             \/ DropEnd
    <3>1. UNCHANGED <<numevents, nevents, fevent, events>>
      BY <2>4 DEF PostFull, DropStart, DropKeep, DropEnd
    <3>2. Contents' = Contents
      BY <3>1 DEF Contents, Index
    <3> QED
      BY <3>2 DEF StepOfFifo
  <2> QED
    BY <2>1, <2>2, <2>3, <2>4 DEF QueueNext
<1> QED
  BY <1>1, InitQueueInv, NextQueueInv, PTL DEF QueueSpec, RingIsFifo

-----------------------------------------------------------------------------
(* The ring implements EventFifo. *)

\* Without OC_DYNAMIC_ALLOCATION the array keeps its size.
FixedSize == ~dynamic => numevents = NumEvents

\* The events the filter of a running drop selects.
Selected == [p : {drop.p}, d : drop.match]

LEMMA SelectedMatches ==
  ASSUME QueueInv, NEW e \in Event
  PROVE  e \in Selected <=> Matches(e)
  BY DEF Selected, Matches, Event

\* Removing a selected event does not change what a drop will leave.
LEMMA RemoveKeepsKept ==
  ASSUME QueueInv, DropRemove
  PROVE  Kept' = Kept /\ Kept \in Seq(Event)
<1> DEFINE n == drop.i + 1
           x == Contents[n]
           a == SubSeq(Contents, 1, n - 1)
           b == SubSeq(Contents, n + 1, Len(Contents))
<1>1. /\ n \in 1 .. Len(Contents) /\ Contents \in Seq(Event)
      /\ Matches(x) /\ x \in Event
      /\ Contents' = WithoutNth(Contents, n)
  BY ContentsSeq, DropRemoveFifo
<1>2. x \in Selected
  BY <1>1, SelectedMatches
<1>3. Selected' = Selected
  BY DEF DropRemove, Selected, QueueInv, QueueTypeOK, DropState
<1>4. /\ a \in Seq(Event) /\ b \in Seq(Event)
      /\ Contents = (a \o <<x>>) \o b
  BY <1>1, SplitAt
<1>5. Contents' = a \o b
  <2>1. /\ Len(a) = n - 1 /\ Len(b) = Len(Contents) - n
        /\ \A k \in 1 .. n - 1 : a[k] = Contents[k]
        /\ \A k \in 1 .. Len(Contents) - n : b[k] = Contents[n + k]
    BY <1>1
  <2>2. /\ a \o b \in Seq(Event) /\ Len(a \o b) = Len(Contents) - 1
        /\ \A k \in 1 .. n - 1 : (a \o b)[k] = Contents[k]
        /\ \A k \in 1 .. Len(Contents) - n : (a \o b)[n - 1 + k] = Contents[n + k]
    <3> HIDE DEF a, b, n
    <3> QED BY <1>1, <1>4, <2>1, ConcatItems
  <2>3. ASSUME NEW k \in 1 .. Len(Contents) - 1
        PROVE  (a \o b)[k] = IF k < n THEN Contents[k] ELSE Contents[k + 1]
    <3> HIDE DEF a, b, n
    <3>1. CASE k < n
      BY <1>1, <2>2, <3>1
    <3>2. CASE ~(k < n)
      <4>1. k - n + 1 \in 1 .. Len(Contents) - n
        BY <1>1, <3>2
      <4>2. (a \o b)[n - 1 + (k - n + 1)] = Contents[n + (k - n + 1)]
        BY <2>2, <4>1
      <4>3. n - 1 + (k - n + 1) = k /\ n + (k - n + 1) = k + 1
        BY <1>1
      <4> QED BY <3>2, <4>2, <4>3
    <3> QED BY <3>1, <3>2
  <2>4. /\ WithoutNth(Contents, n) \in Seq(Event)
        /\ Len(WithoutNth(Contents, n)) = Len(Contents) - 1
        /\ \A k \in 1 .. Len(Contents) - 1 : WithoutNth(Contents, n)[k] =
              IF k < n THEN Contents[k] ELSE Contents[k + 1]
    <3> HIDE DEF a, b, n
    <3> QED BY <1>1 DEF WithoutNth
  <2> HIDE DEF a, b, n
  <2> QED BY <1>1, <2>2, <2>3, <2>4, SameItems
<1> HIDE DEF a, b, n, x
<1>6. <<x>> \in Seq(Event) /\ \A k \in 1 .. Len(<<x>>) : <<x>>[k] \in Selected
  BY <1>1, <1>2
<1>7. Without(<<x>>, Selected) = << >>
  BY <1>6, WithoutAll
<1>8. \A s, t \in Seq(Event) :
        Without(s \o t, Selected) = Without(s, Selected) \o Without(t, Selected)
  <2> SUFFICES ASSUME NEW s \in Seq(Event), NEW t \in Seq(Event)
               PROVE  Without(s \o t, Selected)
                        = Without(s, Selected) \o Without(t, Selected)
    OBVIOUS
  <2> DEFINE S == Selected
  <2> HIDE DEF S
  <2>1. Without(s \o t, S) = Without(s, S) \o Without(t, S)
    BY WithoutConcat
  <2> QED
    BY <2>1 DEF S
<1>9. Without(a \o <<x>>, Selected) = Without(a, Selected)
  <2>1. Without(a, Selected) \in Seq(Event)
    BY <1>4, WithoutSelects
  <2>2. Without(a \o <<x>>, Selected)
          = Without(a, Selected) \o Without(<<x>>, Selected)
    BY <1>4, <1>6, <1>8, Zenon
  <2>3. Without(a, Selected) \o << >> = Without(a, Selected)
    BY <2>1, ConcatEmpty, Zenon
  <2> QED
    BY <1>7, <2>2, <2>3, Zenon
<1>10. Without(Contents, Selected) = Without(a \o b, Selected)
  <2>1. a \o <<x>> \in Seq(Event)
    BY <1>4, <1>6, ConcatItems
  <2>2. Without(Contents, Selected)
          = Without(a \o <<x>>, Selected) \o Without(b, Selected)
    BY <1>4, <2>1, <1>8, Zenon
  <2>3. Without(a \o b, Selected)
          = Without(a, Selected) \o Without(b, Selected)
    BY <1>4, <1>8, Zenon
  <2> QED
    BY <1>9, <2>2, <2>3, Zenon
<1>11. Kept = Without(Contents, Selected) /\ Kept' = Without(Contents', Selected')
  BY DEF Kept, Selected
<1>12. Kept \in Seq(Event)
  BY <1>1, <1>11, WithoutSelects
<1> QED
  BY <1>3, <1>5, <1>10, <1>11, <1>12

\* When the scan has reached the end, everything left is kept.
LEMMA EndKeepsAll ==
  ASSUME QueueInv, DropEnd
  PROVE  Kept = Contents
<1>1. /\ Contents \in Seq(Event) /\ Len(Contents) = nevents
      /\ \A k \in 1 .. nevents : Contents[k] = events[Index(k - 1)]
  BY ContentsSeq
<1>2. drop.i = nevents /\ nevents \in Nat
  BY DEF DropEnd, QueueInv, DropScanIsComplete, QueueTypeOK, DropState
<1>3. ASSUME NEW k \in 1 .. Len(Contents)
      PROVE  Contents[k] \notin Selected
  <2>1. k - 1 \in 0 .. (drop.i - 1) /\ Contents[k] \in Event
    BY <1>1, <1>2
  <2>2. ~Matches(events[Index(k - 1)])
    BY <2>1 DEF DropEnd, QueueInv, DropScanIsComplete
  <2> QED
    BY <1>1, <2>1, <2>2, SelectedMatches
<1>4. Without(Contents, Selected) = Contents
  BY <1>1, <1>3, WithoutNone
<1> QED
  BY <1>4 DEF Kept, Selected

\* OcList is the same module wherever it is used.
LEMMA SameWithout ==
  ASSUME NEW list, NEW S
  PROVE  Fifo!Without(list, S) = Without(list, S)
  BY Zenon DEF Fifo!Without, Without

LEMMA FixedSizeHolds == QueueSpec => []FixedSize
<1>1. QueueInit => FixedSize
  BY DEF QueueInit, FixedSize
<1>2. FixedSize /\ [QueueNext]_queueVars => FixedSize'
  BY DEF FixedSize, QueueNext, queueVars, Post, PostGrow, PostFull, DoEvent,
         DropStart, DropKeep, DropRemove, DropEnd
<1> QED
  BY <1>1, <1>2, PTL DEF QueueSpec

\* The queue and the drop result that EventFifo sees.
FifoQueue == IF drop.active THEN Kept ELSE Contents

FifoDropped ==
  IF drop.active THEN drop.dropped + nevents - Len(Kept) ELSE drop.dropped

FifoVars == <<~dynamic, FifoQueue, taken, ret, FifoDropped>>

LEMMA InitImplementsFifo == QueueInit => Fifo!Init
<1> SUFFICES ASSUME QueueInit PROVE Fifo!Init
  OBVIOUS
<1>1. ~drop.active /\ drop.dropped = 0 /\ nevents = 0 /\ dynamic \in BOOLEAN
  BY DEF QueueInit
<1>2. Contents = << >>
  BY <1>1 DEF Contents
<1> QED
  BY <1>1, <1>2 DEF QueueInit, Fifo!Init

\* Outside a drop, EventFifo sees the ring itself.
LEMMA OutsideDrop ==
  ASSUME QueueInv, ~drop.active, UNCHANGED drop
  PROVE  /\ FifoQueue = Contents /\ FifoQueue' = Contents'
         /\ FifoDropped' = FifoDropped
  BY DEF FifoQueue, FifoDropped

LEMMA PostImplements ==
  ASSUME QueueInv, FixedSize, NEW e \in Event, Post(e) \/ PostGrow(e)
  PROVE  Fifo!Post(e)
<1>1. Contents' = Append(Contents, e) /\ ~drop.active /\ UNCHANGED drop
  BY PostFifo, PostGrowFifo DEF Post, PostGrow
<1>2. ~dynamic => Len(Contents) < NumEvents
  BY ContentsSeq DEF Post, PostGrow, FixedSize
<1>3. ret' = "OK" /\ UNCHANGED <<dynamic, taken>>
  BY DEF Post, PostGrow
<1> QED
  BY <1>1, <1>2, <1>3, OutsideDrop DEF Fifo!Post, FifoQueue, FifoDropped

LEMMA RefuseImplements ==
  ASSUME QueueInv, FixedSize, PostFull
  PROVE  Fifo!Refuse
<1>1. Contents' = Contents /\ ~drop.active /\ UNCHANGED drop
  BY DEF PostFull, Contents, Index
<1>2. ~dynamic /\ Len(Contents) = NumEvents
  BY ContentsSeq DEF PostFull, FixedSize
<1>3. ret' = "FULL" /\ UNCHANGED <<dynamic, taken>>
  BY DEF PostFull
<1> QED
  BY <1>1, <1>2, <1>3, OutsideDrop DEF Fifo!Refuse, FifoQueue, FifoDropped

LEMMA TakeImplements ==
  ASSUME QueueInv, DoEvent
  PROVE  Fifo!Take
<1>1. /\ Contents' = Tail(Contents) /\ taken' = <<Head(Contents)>>
      /\ ~drop.active /\ UNCHANGED drop
  BY DoEventFifo DEF DoEvent
<1>2. Contents # << >>
  BY ContentsSeq DEF DoEvent, QueueInv, QueueTypeOK
<1>3. UNCHANGED <<dynamic, ret>>
  BY DEF DoEvent
<1> QED
  BY <1>1, <1>2, <1>3, OutsideDrop DEF Fifo!Take, FifoQueue, FifoDropped

\* The call of oc_process_drop is where the queue is filtered.
LEMMA StartImplements ==
  ASSUME QueueInv, NEW p \in Process, NEW match \in SUBSET Data,
         DropStart(p, match)
  PROVE  Fifo!Drop(p, match)
<1>1. /\ ~drop.active /\ drop'.active /\ drop'.p = p /\ drop'.match = match
      /\ drop'.dropped = 0 /\ nevents' = nevents
  BY DEF DropStart
<1>2. Contents' = Contents
  BY DEF DropStart, Contents, Index
<1>3. FifoQueue = Contents /\ FifoQueue' = Without(Contents, [p : {p}, d : match])
  BY <1>1, <1>2 DEF FifoQueue, Kept
<1>4. /\ Contents \in Seq(Event) /\ Len(Contents) = nevents /\ nevents \in Nat
      /\ Len(FifoQueue') \in Nat
  BY <1>3, ContentsSeq, WithoutShortens DEF QueueInv, QueueTypeOK
<1>5. FifoDropped' = Len(FifoQueue) - Len(FifoQueue')
  BY <1>1, <1>3, <1>4 DEF FifoDropped, FifoQueue
<1>6. UNCHANGED <<dynamic, taken, ret>>
  BY DEF DropStart
<1> QED
  BY <1>3, <1>5, <1>6, SameWithout DEF Fifo!Drop, FifoQueue, FifoDropped

\* To EventFifo the iterations and the end of the loop are stuttering steps.
LEMMA ScanStutters ==
  ASSUME QueueInv, DropKeep \/ DropRemove \/ DropEnd
  PROVE  UNCHANGED FifoVars
<1>1. CASE DropKeep
  <2>1. /\ drop.active /\ drop'.active /\ drop'.p = drop.p
        /\ drop'.match = drop.match /\ drop'.dropped = drop.dropped
    BY <1>1 DEF DropKeep, QueueInv, QueueTypeOK, DropState
  <2>2. Contents' = Contents /\ UNCHANGED <<dynamic, taken, ret, nevents>>
    BY <1>1 DEF DropKeep, Contents, Index
  <2>3. Kept' = Kept
    BY <2>1, <2>2 DEF Kept
  <2> QED
    BY <2>1, <2>2, <2>3 DEF FifoVars, FifoQueue, FifoDropped
<1>2. CASE DropRemove
  <2>1. /\ drop.active /\ drop'.active /\ drop'.dropped = drop.dropped + 1
        /\ drop.dropped \in Nat /\ nevents \in Nat /\ nevents' = nevents - 1
        /\ UNCHANGED <<dynamic, taken, ret>>
    BY <1>2 DEF DropRemove, QueueInv, QueueTypeOK, DropState
  <2>2. Kept' = Kept /\ Kept \in Seq(Event)
    BY <1>2, RemoveKeepsKept
  <2>3. FifoDropped' = FifoDropped
    BY <2>1, <2>2 DEF FifoDropped
  <2> QED
    BY <2>1, <2>2, <2>3 DEF FifoVars, FifoQueue
<1>3. CASE DropEnd
  <2>1. /\ drop.active /\ ~drop'.active /\ drop'.dropped = drop.dropped
        /\ drop.dropped \in Nat /\ nevents \in Nat
        /\ UNCHANGED <<dynamic, taken, ret>>
    BY <1>3 DEF DropEnd, QueueInv, QueueTypeOK, DropState
  <2>2. Contents' = Contents
    BY <1>3 DEF DropEnd, Contents, Index
  <2>3. Kept = Contents /\ Len(Contents) = nevents
    BY <1>3, EndKeepsAll, ContentsSeq
  <2>4. FifoDropped' = FifoDropped
    BY <2>1, <2>3 DEF FifoDropped
  <2> QED
    BY <2>1, <2>2, <2>3, <2>4 DEF FifoVars, FifoQueue
<1> QED
  BY <1>1, <1>2, <1>3

LEMMA NextImplementsFifo ==
  QueueInv /\ FixedSize /\ [QueueNext]_queueVars => [Fifo!Next]_FifoVars
<1> SUFFICES ASSUME QueueInv, FixedSize, [QueueNext]_queueVars
             PROVE  Fifo!Next \/ UNCHANGED FifoVars
  OBVIOUS
<1>1. ASSUME NEW e \in Event, Post(e) \/ PostGrow(e)
      PROVE  Fifo!Next
  <2>1. e \in Fifo!Event
    BY DEF Event, Fifo!Event
  <2> QED
    BY <1>1, <2>1, PostImplements DEF Fifo!Next
<1>2. CASE PostFull
  BY <1>2, RefuseImplements DEF Fifo!Next
<1>3. CASE DoEvent
  BY <1>3, TakeImplements DEF Fifo!Next
<1>4. ASSUME NEW p \in Process, NEW match \in SUBSET Data, DropStart(p, match)
      PROVE  Fifo!Next
  BY <1>4, StartImplements DEF Fifo!Next
<1>5. CASE DropKeep \/ DropRemove \/ DropEnd
  BY <1>5, ScanStutters
<1>6. CASE UNCHANGED queueVars
  <2>1. /\ drop' = drop /\ nevents' = nevents /\ Contents' = Contents
        /\ UNCHANGED <<dynamic, taken, ret>>
    BY <1>6 DEF queueVars, Contents, Index
  <2>2. Kept' = Kept
    BY <2>1 DEF Kept
  <2> QED
    BY <2>1, <2>2 DEF FifoVars, FifoQueue, FifoDropped
<1> QED
  BY <1>1, <1>2, <1>3, <1>4, <1>5, <1>6 DEF QueueNext

\* The ring buffer of oc_process.c implements EventFifo, whatever its size:
\* through wrap-around and doubling its users see one queue in posting order,
\* and the whole loop of oc_process_drop, its return value included, is one
\* atomic filtering of it.
THEOREM QueueImplementsFifo == QueueSpec => ImplementsFifo
<1>1. Fifo!vars = FifoVars
  BY DEF Fifo!vars, FifoVars, FifoQueue, FifoDropped
<1>2. [Fifo!Next]_FifoVars => [Fifo!Next]_(Fifo!vars)
  BY DEF Fifo!vars, FifoVars, FifoQueue, FifoDropped
<1> QED
  BY <1>2, InitImplementsFifo, NextImplementsFifo, QueueInvariant,
     FixedSizeHolds, PTL
  DEF QueueSpec, ImplementsFifo, Fifo!Spec

-----------------------------------------------------------------------------
(* Delayed callbacks: the inductive invariant.                             *)

\* BlocksAreSound, list by list.
ListsInv ==
  /\ Distinct(timed) /\ Distinct(observed)
  /\ ToSet(timed) \cap ToSet(observed) = {}
  /\ Listed = Slot \ Free
  /\ pending \subseteq Listed

\* The callback that runs is in the list that is walked, and between events
\* none is.
CurrentInv ==
  /\ pc.at = "callback" => current \in ToSet(List) \ pending
  /\ pc.at = "idle" => current = Null

\* Timers expire only between events, so that a check which has gone through
\* the periodic callbacks has left no expired one behind.
WalkedInv ==
  pc.at # "idle" /\ pc.list = "timed" => ToSet(observed) \subseteq pending

\* A callback that has run is armed again or gone, unless it runs now.
RanInv ==
  pc.at # "idle" =>
    \A s \in ran \cap Listed :
      s \in pending \/ (pc.at = "callback" /\ s = current)

\* A removal spares only the callback that is running, and then flags it.
CancelledInv ==
  \A s \in cancelled : pc.at = "callback" /\ s = current /\ deleteFlag

IInv ==
  /\ TypeOK
  /\ ListsInv
  /\ CurrentInv
  /\ WalkedInv
  /\ ExpiredIsAnnounced
  /\ RanInv
  /\ CancelledInv

LEMMA InitInv == Init => IInv
<1> SUFFICES ASSUME Init
             PROVE  IInv
  OBVIOUS
<1>1. timed = << >> /\ observed = << >> /\ ToSet(timed) = {}
      /\ ToSet(observed) = {}
  BY DEF Init, ToSet
<1>2. Distinct(timed) /\ Distinct(observed)
  BY <1>1 DEF Distinct
<1>3. TypeOK
  <2>1. timed \in Seq(Slot) /\ observed \in Seq(Slot)
    BY DEF Init
  <2>2. timerEvents \in 0 .. MaxTimerEvents
    BY CallbackAssumption DEF Init
  <2> QED
    BY <2>1, <2>2 DEF Init, TypeOK
<1> QED
  BY <1>1, <1>2, <1>3 DEF Init, IInv, ListsInv, CurrentInv, WalkedInv,
     ExpiredIsAnnounced, RanInv, CancelledInv, Listed, Free

\* The matches of a removal are in the list; of one that is not match_all
\* there is at most one.
LEMMA HitsAreTimed ==
  ASSUME TypeOK, NEW cb, NEW S, NEW all \in BOOLEAN
  PROVE  /\ ToSet(Hits(cb, S, all)) \subseteq ToSet(timed)
         /\ ~all => \A s \in ToSet(Hits(cb, S, all)) : Flagged(Hits(cb, S, all))
                                                       <=> s = current
<1> DEFINE other == {s \in ToSet(timed) :
                       cell[s].cb # cb \/ cell[s].data \notin S}
           found == Without(timed, other)
<1>1. found \in Seq(Slot) /\ ToSet(found) \subseteq ToSet(timed)
  BY WithoutList DEF TypeOK
<1>2. Hits(cb, S, all) =
        IF all \/ found = << >> THEN found ELSE <<Head(found)>>
  BY DEF Hits
<1> HIDE DEF found
<1>3. CASE found = << >>
  <2>1. Hits(cb, S, all) = << >>
    BY <1>2, <1>3
  <2>2. ToSet(<< >>) = {}
    BY DEF ToSet
  <2> QED
    BY <2>1, <2>2
<1>4. CASE found # << >> /\ all
  BY <1>1, <1>2, <1>4
<1>5. CASE found # << >> /\ ~all
  <2>1. Hits(cb, S, all) = <<Head(found)>>
    BY <1>2, <1>5
  <2>2. Head(found) = found[1] /\ Head(found) \in ToSet(found)
    BY <1>1, <1>5 DEF ToSet
  <2>3. ToSet(<<Head(found)>>) = {Head(found)}
    BY DEF ToSet
  <2>4. <<Head(found)>> # << >> /\ Last(<<Head(found)>>) = Head(found)
    BY DEF Last
  <2> QED
    BY <1>1, <2>1, <2>2, <2>3, <2>4 DEF Flagged
<1> QED
  BY <1>3, <1>4, <1>5

-----------------------------------------------------------------------------
(* One lemma for each group of operations.                                 *)

\* What a removal leaves alone and what it does with the one that runs.
LEMMA RemovalKeeps ==
  ASSUME IInv, UserCode, NEW cb, NEW S, NEW all \in BOOLEAN,
         NEW w \in BOOLEAN, FlagCurrent(Hits(cb, S, all), all, w)
  PROVE  /\ Gone(Hits(cb, S, all)) \subseteq ToSet(timed) \ {current}
         /\ deleteFlag' \in BOOLEAN /\ onDelete' \in BOOLEAN
         /\ cancelled' \subseteq Slot /\ ran' = ran \ Gone(Hits(cb, S, all))
         /\ \A s \in cancelled' : pc.at = "callback" /\ s = current /\ deleteFlag'
<1> DEFINE hits == Hits(cb, S, all)
<1>1. /\ ToSet(hits) \subseteq ToSet(timed)
      /\ ~all => \A s \in ToSet(hits) : Flagged(hits) <=> s = current
  BY HitsAreTimed DEF IInv
<1>2. ToSet(timed) \subseteq Slot /\ Null \notin Slot
  BY ItemsAreToSet, CallbackAssumption DEF IInv, TypeOK
<1> HIDE DEF hits
<1>3. FlagCurrent(hits, all, w)
  BY DEF hits
<1>4. Gone(hits) \subseteq ToSet(timed) \ {current}
  BY <1>1 DEF Gone
<1>5. deleteFlag' \in BOOLEAN /\ onDelete' \in BOOLEAN
  BY <1>3 DEF FlagCurrent, IInv, TypeOK, Flagged
<1>6. ran' = ran \ Gone(hits)
  BY <1>3 DEF FlagCurrent
<1>7. cancelled' \subseteq Slot
  BY <1>1, <1>2, <1>3 DEF FlagCurrent, IInv, TypeOK
<1>8. ASSUME NEW s \in cancelled'
      PROVE  pc.at = "callback" /\ s = current /\ deleteFlag'
  <2>1. deleteFlag' = (Flagged(hits) \/ deleteFlag)
    BY <1>3 DEF FlagCurrent
  <2>2. CASE s \in cancelled
    BY <2>1, <2>2 DEF IInv, CancelledInv
  <2>3. CASE s \notin cancelled
    <3>1. ~all /\ s \in ToSet(hits) /\ s = current
      BY <1>3, <1>8, <2>3 DEF FlagCurrent
    <3>2. Flagged(hits)
      BY <1>1, <3>1
    <3>3. pc.at = "callback"
      BY <1>1, <1>2, <3>1 DEF UserCode, IInv, CurrentInv
    <3> QED
      BY <2>1, <3>1, <3>2, <3>3
  <2> QED
    BY <2>2, <2>3
<1> QED
  BY <1>4, <1>5, <1>6, <1>7, <1>8 DEF hits

\* A block is taken from the pool and put at the end of a list.
LEMMA AddInv ==
  ASSUME IInv,
         \/ \E k \in [cb : Trigger, data : Context] : Add(k)
         \/ \E r \in Resource : ObserveAdd(r)
  PROVE  IInv'
<1> USE DEF IInv
<1>1. ToSet(timed) \subseteq Slot /\ ToSet(observed) \subseteq Slot
  BY ItemsAreToSet DEF TypeOK
<1>2. ASSUME NEW k \in [cb : Trigger, data : Context], Add(k)
      PROVE  IInv'
  <2>1. PICK s \in Free : /\ cell' = [cell EXCEPT ![s] = k]
                          /\ timed' = Append(timed, s)
                          /\ pending' = pending \cup {s}
    BY <1>2 DEF Add
  <2>2. /\ UserCode
        /\ UNCHANGED <<observed, timerEvents, pc, current, deleteFlag,
                       onDelete, cancelled, ran>>
    BY <1>2 DEF Add, history
  <2>3. s \in Slot /\ s \notin Listed /\ k \in Key /\ k # Null
    BY CallbackAssumption DEF Free, ListsInv, Key
  <2>4. /\ timed' \in Seq(Slot) /\ ToSet(timed') = ToSet(timed) \cup {s}
        /\ Distinct(timed')
    BY <2>1, <2>3, AppendList DEF TypeOK, ListsInv, Listed
  <2>5. Free' = Free \ {s} /\ Listed' = Listed \cup {s}
    BY <2>1, <2>2, <2>3, <2>4 DEF Free, Listed, TypeOK
  <2>6. TypeOK'
    BY <2>1, <2>2, <2>3, <2>4 DEF TypeOK
  <2>7. ListsInv'
    BY <2>1, <2>2, <2>3, <2>4, <2>5 DEF ListsInv, Listed
  <2>8. CurrentInv' /\ WalkedInv' /\ CancelledInv'
    BY <1>1, <2>1, <2>2, <2>3, <2>4 DEF CurrentInv, WalkedInv, CancelledInv,
       List, Listed
  <2>9. ExpiredIsAnnounced' /\ RanInv'
    BY <2>1, <2>2, <2>5 DEF ExpiredIsAnnounced, RanInv
  <2> QED
    BY <2>6, <2>7, <2>8, <2>9
<1>3. ASSUME NEW r \in Resource, ObserveAdd(r)
      PROVE  IInv'
  <2> DEFINE k == [cb |-> Periodic, data |-> r]
  <2>1. PICK s \in Free : /\ cell' = [cell EXCEPT ![s] = k]
                          /\ observed' = Append(observed, s)
                          /\ pending' = pending \cup {s}
    BY <1>3 DEF ObserveAdd
  <2>2. /\ pc.at = "idle"
        /\ UNCHANGED <<timed, timerEvents, pc, current, deleteFlag,
                       onDelete, cancelled, ran>>
    BY <1>3 DEF ObserveAdd, history
  <2>3. s \in Slot /\ s \notin Listed /\ k \in Key /\ k # Null
    BY CallbackAssumption DEF Free, ListsInv, Key
  <2>4. /\ observed' \in Seq(Slot)
        /\ ToSet(observed') = ToSet(observed) \cup {s}
        /\ Distinct(observed')
    BY <2>1, <2>3, AppendList DEF TypeOK, ListsInv, Listed
  <2> HIDE DEF k
  <2>5. Free' = Free \ {s} /\ Listed' = Listed \cup {s}
    BY <2>1, <2>2, <2>3, <2>4 DEF Free, Listed, TypeOK
  <2>6. TypeOK'
    BY <2>1, <2>2, <2>3, <2>4 DEF TypeOK
  <2>7. ListsInv'
    BY <2>1, <2>2, <2>3, <2>4, <2>5 DEF ListsInv, Listed
  <2>8. CurrentInv' /\ WalkedInv' /\ CancelledInv'
    BY <2>2 DEF CurrentInv, WalkedInv, CancelledInv
  <2>9. ExpiredIsAnnounced' /\ RanInv'
    BY <2>1, <2>2, <2>5 DEF ExpiredIsAnnounced, RanInv
  <2> QED
    BY <2>6, <2>7, <2>8, <2>9
<1> QED
  BY <1>2, <1>3

\* The matches leave the list and the timers, and their blocks are free.
LEMMA RemoveInv ==
  ASSUME IInv, NEW cb, NEW S, NEW all \in BOOLEAN, NEW w \in BOOLEAN,
         RemoveByFilter(cb, S, all, w)
  PROVE  IInv'
<1> USE DEF IInv
<1> DEFINE gone == Gone(Hits(cb, S, all))
<1>1. /\ UserCode
      /\ timed' = Without(timed, gone)
      /\ pending' = pending \ gone
      /\ cell' = [s \in Slot |-> IF s \in gone THEN Null ELSE cell[s]]
      /\ UNCHANGED <<observed, timerEvents, pc, current>>
  BY DEF RemoveByFilter
<1>2. /\ gone \subseteq ToSet(timed) \ {current}
      /\ deleteFlag' \in BOOLEAN /\ onDelete' \in BOOLEAN
      /\ cancelled' \subseteq Slot /\ ran' = ran \ gone
      /\ \A s \in cancelled' : pc.at = "callback" /\ s = current /\ deleteFlag'
  BY <1>1, RemovalKeeps DEF RemoveByFilter
<1> HIDE DEF gone
<1>3. /\ timed' \in Seq(Slot) /\ ToSet(timed') = ToSet(timed) \ gone
      /\ Distinct(timed')
  BY <1>1, WithoutList DEF TypeOK, ListsInv
<1>4. ToSet(timed) \subseteq Slot
  BY ItemsAreToSet DEF TypeOK
<1>5. Free' = Free \cup gone /\ Listed' = Listed \ gone
  BY <1>1, <1>2, <1>3, <1>4 DEF Free, Listed, TypeOK, ListsInv
<1>6. TypeOK'
  BY <1>1, <1>2, <1>3 DEF TypeOK
<1>7. ListsInv'
  BY <1>1, <1>2, <1>3, <1>4, <1>5 DEF ListsInv
<1>8. CurrentInv' /\ WalkedInv' /\ CancelledInv'
  BY <1>1, <1>2, <1>3 DEF CurrentInv, WalkedInv, CancelledInv, List, ListsInv
<1>9. ExpiredIsAnnounced' /\ RanInv'
  BY <1>1, <1>2, <1>5 DEF ExpiredIsAnnounced, RanInv
<1> QED
  BY <1>6, <1>7, <1>8, <1>9

\* The block of the new callback may be the one that was just freed.
LEMMA ResetInv ==
  ASSUME IInv, NEW k \in [cb : Trigger, data : Context],
         Reset(k) \/ ResetNoMemory(k)
  PROVE  IInv'
<1> USE DEF IInv
<1> DEFINE hits == Hits(k.cb, {k.data}, FALSE)
           gone == Gone(hits)
<1>1. /\ UserCode /\ FlagCurrent(hits, FALSE, FALSE)
      /\ UNCHANGED <<observed, timerEvents, pc, current>>
  BY DEF Reset, ResetNoMemory
<1>2. /\ gone \subseteq ToSet(timed) \ {current}
      /\ deleteFlag' \in BOOLEAN /\ onDelete' \in BOOLEAN
      /\ cancelled' \subseteq Slot /\ ran' = ran \ gone
      /\ \A s \in cancelled' : pc.at = "callback" /\ s = current /\ deleteFlag'
  BY <1>1, RemovalKeeps
<1>3. ToSet(timed) \subseteq Slot
  BY ItemsAreToSet DEF TypeOK
<1>4. CASE Reset(k)
  <2>1. PICK s \in Free \cup gone :
          /\ timed' = Append(Without(timed, gone), s)
          /\ pending' = (pending \ gone) \cup {s}
          /\ cell' = [x \in Slot |-> IF x = s THEN k
                                     ELSE IF x \in gone THEN Null
                                     ELSE cell[x]]
    BY <1>4 DEF Reset
  <2> HIDE DEF gone, hits
  <2>2. /\ s \in Slot /\ s \notin Listed \ gone /\ k \in Key /\ k # Null
    BY <1>2, <1>3, CallbackAssumption DEF Free, ListsInv, Key
  <2>3. /\ Without(timed, gone) \in Seq(Slot)
        /\ ToSet(Without(timed, gone)) = ToSet(timed) \ gone
        /\ Distinct(Without(timed, gone))
    BY WithoutList DEF TypeOK, ListsInv
  <2>4. /\ timed' \in Seq(Slot)
        /\ ToSet(timed') = (ToSet(timed) \ gone) \cup {s}
        /\ Distinct(timed')
    BY <2>1, <2>2, <2>3, AppendList DEF Listed
  <2>5. s \notin ToSet(observed)
    BY <1>2, <2>2 DEF ListsInv, Listed
  <2>6. /\ Free' = (Free \cup gone) \ {s}
        /\ Listed' = (Listed \ gone) \cup {s}
    BY <1>1, <1>2, <1>3, <2>1, <2>2, <2>4 DEF Free, Listed, TypeOK, ListsInv
  <2>7. TypeOK'
    BY <1>1, <1>2, <2>1, <2>2, <2>4 DEF TypeOK
  <2>8. ListsInv'
    BY <1>1, <1>2, <1>3, <2>1, <2>2, <2>4, <2>5, <2>6 DEF ListsInv
  <2>9. CurrentInv' /\ WalkedInv' /\ CancelledInv'
    <3>1. pc.at = "callback" => s # current
      BY <2>2, <1>2 DEF CurrentInv, List, Listed
    <3> QED
      BY <1>1, <1>2, <2>1, <2>4, <3>1 DEF CurrentInv, WalkedInv, CancelledInv,
         List, ListsInv
  <2>10. ExpiredIsAnnounced' /\ RanInv'
    BY <1>1, <1>2, <2>1, <2>6 DEF ExpiredIsAnnounced, RanInv
  <2> QED
    BY <2>7, <2>8, <2>9, <2>10
<1>5. CASE ResetNoMemory(k)
  <2>1. UNCHANGED <<timed, cell, pending>> /\ gone = {}
    BY <1>5 DEF ResetNoMemory
  <2> HIDE DEF gone, hits
  <2>2. ListsInv'
    BY <1>1, <2>1 DEF ListsInv, Listed, Free
  <2>3. TypeOK'
    BY <1>1, <1>2, <2>1 DEF TypeOK
  <2> QED
    BY <1>1, <1>2, <2>1, <2>2, <2>3 DEF CurrentInv, WalkedInv, CancelledInv,
       ExpiredIsAnnounced, RanInv, List, Listed
<1> QED
  BY <1>4, <1>5

\* Between events: a periodic callback ends, or the whole stack.
LEMMA EndInv ==
  ASSUME IInv, (\E r \in Resource : ObserveRemove(r)) \/ Shutdown
  PROVE  IInv'
<1> USE DEF IInv
<1>1. ToSet(observed) \subseteq Slot /\ ToSet(timed) \subseteq Slot
  BY ItemsAreToSet DEF TypeOK
<1>2. ASSUME NEW r \in Resource, ObserveRemove(r)
      PROVE  IInv'
  <2>1. PICK s \in ToSet(observed) :
          /\ observed' = Without(observed, {s})
          /\ pending' = pending \ {s}
          /\ cell' = [cell EXCEPT ![s] = Null]
          /\ cancelled' = cancelled \ {s} /\ ran' = ran \ {s}
    BY <1>2 DEF ObserveRemove, PeriodicOf, Forget
  <2>2. /\ pc.at = "idle"
        /\ UNCHANGED <<timed, timerEvents, pc, current, deleteFlag, onDelete>>
    BY <1>2 DEF ObserveRemove
  <2>3. /\ observed' \in Seq(Slot) /\ ToSet(observed') = ToSet(observed) \ {s}
        /\ Distinct(observed')
    BY <2>1, WithoutList DEF TypeOK, ListsInv
  <2>4. Free' = Free \cup {s} /\ Listed' = Listed \ {s}
    <3>1. s \in Slot /\ s \notin ToSet(timed)
      BY <1>1, <2>1 DEF ListsInv
    <3>2. Free' = Free \cup {s}
      BY <2>1, <3>1 DEF Free, TypeOK
    <3> QED
      BY <2>2, <2>3, <3>1, <3>2 DEF Listed
  <2>5. TypeOK'
    BY <1>1, <2>1, <2>2, <2>3 DEF TypeOK
  <2>6. ListsInv'
    BY <1>1, <2>1, <2>2, <2>3, <2>4 DEF ListsInv
  <2> QED
    BY <2>1, <2>2, <2>4, <2>5, <2>6 DEF CurrentInv, WalkedInv, CancelledInv,
       ExpiredIsAnnounced, RanInv
<1>3. CASE Shutdown
  <2>1. /\ pc.at = "idle" /\ timed' = << >> /\ observed' = << >>
        /\ pending' = pending \ Listed
        /\ cell' = [s \in Slot |-> IF s \in Listed THEN Null ELSE cell[s]]
        /\ cancelled' = cancelled \ Listed /\ ran' = ran \ Listed
        /\ UNCHANGED <<timerEvents, pc, current, deleteFlag, onDelete>>
    BY <1>3 DEF Shutdown, Forget
  <2>2. ToSet(timed') = {} /\ ToSet(observed') = {}
    BY <2>1 DEF ToSet
  <2>3. Distinct(timed') /\ Distinct(observed')
    BY <2>1 DEF Distinct
  <2>4. Free' = Slot /\ Listed' = {}
    BY <2>1, <2>2 DEF Free, Listed, TypeOK, ListsInv
  <2>5. timed' \in Seq(Slot) /\ observed' \in Seq(Slot)
    BY <2>1
  <2>6. TypeOK'
    BY <2>1, <2>5 DEF TypeOK
  <2>7. ListsInv'
    BY <2>1, <2>2, <2>3, <2>4 DEF ListsInv
  <2> QED
    BY <2>1, <2>4, <2>6, <2>7 DEF CurrentInv, WalkedInv, CancelledInv,
       ExpiredIsAnnounced, RanInv
<1> QED
  BY <1>2, <1>3

\* An expiry is announced before the timer leaves the list of timers.
LEMMA TimerInv ==
  ASSUME IInv, (\E s \in Slot : TimerExpires(s)) \/ TimerEvent
  PROVE  IInv'
<1> USE DEF IInv
<1>1. UNCHANGED <<timed, observed, cell>>
  BY DEF TimerExpires, TimerEvent
<1>2. Listed' = Listed /\ Free' = Free
  BY <1>1 DEF Listed, Free
<1>3. ASSUME NEW s \in Slot, TimerExpires(s)
      PROVE  IInv'
  <2>1. /\ pc.at = "idle" /\ pending' = pending \ {s}
        /\ UNCHANGED <<pc, current, deleteFlag, onDelete, cancelled, ran>>
    BY <1>3 DEF TimerExpires, history
  <2>2. timerEvents' \in 0 .. MaxTimerEvents /\ timerEvents' > 0
    BY <1>3, CallbackAssumption DEF TimerExpires, TypeOK
  <2>3. TypeOK'
    BY <1>1, <2>1, <2>2 DEF TypeOK
  <2>4. ListsInv'
    BY <1>1, <1>2, <2>1 DEF ListsInv
  <2> QED
    BY <2>1, <2>2, <2>3, <2>4 DEF CurrentInv, WalkedInv, CancelledInv,
       ExpiredIsAnnounced, RanInv
<1>4. CASE TimerEvent
  <2>1. /\ pc.at = "idle" /\ ran' = {}
        /\ pc' = [at |-> "loop", list |-> "observed"]
        /\ UNCHANGED <<pending, current, deleteFlag, onDelete, cancelled>>
    BY <1>4 DEF TimerEvent
  <2>2. timerEvents' \in 0 .. MaxTimerEvents
    BY <1>4, CallbackAssumption DEF TimerEvent, TypeOK
  <2>3. TypeOK'
    BY <1>1, <2>1, <2>2 DEF TypeOK
  <2>4. ListsInv'
    BY <1>1, <1>2, <2>1 DEF ListsInv
  <2> QED
    BY <2>1, <2>3, <2>4 DEF CurrentInv, WalkedInv, CancelledInv,
       ExpiredIsAnnounced, RanInv
<1> QED
  BY <1>3, <1>4

\* The callbacks that poll_timers finds are those whose timer has expired.
LEMMA ExpiredAre ==
  ASSUME TypeOK
  PROVE  /\ Expired \in Seq(Slot)
         /\ ToSet(Expired) = ToSet(List) \ pending
         /\ Expired # << >> => Head(Expired) \in ToSet(List) \ pending
         /\ Expired = << >> => ToSet(List) \subseteq pending
<1>1. List \in Seq(Slot)
  BY DEF TypeOK, List
<1>2. Expired \in Seq(Slot) /\ ToSet(Expired) = ToSet(List) \ pending
  BY <1>1, WithoutList DEF Expired
<1>3. Expired # << >> => Head(Expired) \in ToSet(Expired)
  BY <1>2 DEF ToSet
<1>4. Expired = << >> => ToSet(Expired) = {}
  BY DEF ToSet
<1> QED
  BY <1>2, <1>3, <1>4

LEMMA CheckInv ==
  ASSUME IInv, Check
  PROVE  IInv'
<1> USE DEF IInv
<1>1. CASE Invoke
  <2>1. /\ UNCHANGED <<timed, observed, cell, pending, timerEvents, cancelled>>
        /\ pc.at = "loop" /\ pc' = [pc EXCEPT !.at = "callback"]
        /\ current' = Head(Expired) /\ deleteFlag' = FALSE /\ onDelete' = FALSE
        /\ ran' = ran \cup {current'} /\ Expired # << >>
    BY <1>1 DEF Invoke
  <2>2. current' \in ToSet(List) \ pending
    BY <2>1, ExpiredAre
  <2>3. ToSet(timed) \subseteq Slot /\ ToSet(observed) \subseteq Slot
    BY ItemsAreToSet DEF TypeOK
  <2>4. /\ pc'.at = "callback" /\ pc'.list = pc.list
        /\ pc' \in [at : {"idle", "loop", "callback"},
                    list : {"observed", "timed"}]
    BY <2>1 DEF TypeOK
  <2>5. List' = List /\ Listed' = Listed /\ Free' = Free
    BY <2>1, <2>4 DEF List, Listed, Free
  <2>6. TypeOK'
    BY <2>1, <2>2, <2>3, <2>4 DEF TypeOK, List
  <2>7. ListsInv'
    BY <2>1, <2>5 DEF ListsInv
  <2>8. CancelledInv'
    BY <2>1 DEF CancelledInv
  <2> QED
    BY <2>1, <2>2, <2>4, <2>5, <2>6, <2>7, <2>8 DEF CurrentInv, WalkedInv,
       ExpiredIsAnnounced, RanInv
<1>2. CASE ReturnContinue
  <2>1. /\ UNCHANGED <<timed, observed, cell, timerEvents, current, deleteFlag,
                       onDelete, cancelled, ran>>
        /\ pc.at = "callback" /\ pc' = [pc EXCEPT !.at = "loop"]
        /\ pending' = pending \cup {current} /\ ~deleteFlag
    BY <1>2 DEF ReturnContinue, IsDone, history
  <2>2. /\ pc'.at = "loop" /\ pc'.list = pc.list
        /\ pc' \in [at : {"idle", "loop", "callback"},
                    list : {"observed", "timed"}]
    BY <2>1 DEF TypeOK
  <2>3. current \in Listed /\ current \in Slot
    BY <2>1, ItemsAreToSet DEF CurrentInv, List, Listed, TypeOK
  <2>4. Listed' = Listed /\ Free' = Free
    BY <2>1 DEF Listed, Free
  <2>5. TypeOK'
    BY <2>1, <2>2, <2>3 DEF TypeOK
  <2>6. ListsInv'
    BY <2>1, <2>3, <2>4 DEF ListsInv
  <2> QED
    BY <2>1, <2>2, <2>4, <2>5, <2>6 DEF CurrentInv, WalkedInv, CancelledInv,
       ExpiredIsAnnounced, RanInv
<1>3. CASE ReturnDone("DONE") \/ ReturnDone("CONTINUE")
  <2> DEFINE t == IF pc.list = "timed" THEN {current} ELSE {}
             o == IF pc.list = "timed" THEN {} ELSE {current}
  <2>1. /\ UNCHANGED <<pending, timerEvents, current, deleteFlag, onDelete>>
        /\ pc.at = "callback" /\ pc' = [pc EXCEPT !.at = "loop"]
        /\ timed' = Without(timed, t) /\ observed' = Without(observed, o)
        /\ cell' = [cell EXCEPT ![current] = Null]
        /\ cancelled' = cancelled \ {current} /\ ran' = ran \ {current}
    BY <1>3 DEF ReturnDone, Forget
  <2>2. /\ pc'.at = "loop" /\ pc'.list = pc.list
        /\ pc' \in [at : {"idle", "loop", "callback"},
                    list : {"observed", "timed"}]
    BY <2>1 DEF TypeOK
  <2>3. /\ current \in Listed /\ current \in Slot /\ current \notin pending
        /\ pc.list = "timed" => current \in ToSet(timed)
        /\ pc.list # "timed" => current \in ToSet(observed)
    BY <2>1, ItemsAreToSet DEF CurrentInv, List, Listed, TypeOK
  <2>4. /\ timed' \in Seq(Slot) /\ ToSet(timed') = ToSet(timed) \ t
        /\ Distinct(timed')
    BY <2>1, WithoutList DEF TypeOK, ListsInv
  <2>5. /\ observed' \in Seq(Slot) /\ ToSet(observed') = ToSet(observed) \ o
        /\ Distinct(observed')
    BY <2>1, WithoutList DEF TypeOK, ListsInv
  <2>6. /\ ToSet(timed') = ToSet(timed) \ {current}
        /\ ToSet(observed') = ToSet(observed) \ {current}
    BY <2>3, <2>4, <2>5 DEF ListsInv, TypeOK
  <2>7. Listed' = Listed \ {current} /\ Free' = Free \cup {current}
    <3>1. Free' = Free \cup {current}
      BY <2>1, <2>3 DEF Free, TypeOK
    <3> QED
      BY <2>6, <3>1 DEF Listed
  <2> HIDE DEF t, o
  <2>8. TypeOK'
    BY <2>1, <2>2, <2>4, <2>5 DEF TypeOK
  <2>9. ListsInv'
    BY <2>1, <2>3, <2>4, <2>5, <2>6, <2>7 DEF ListsInv
  <2> QED
    BY <2>1, <2>2, <2>3, <2>6, <2>7, <2>8, <2>9 DEF CurrentInv, WalkedInv,
       CancelledInv, ExpiredIsAnnounced, RanInv
<1>4. CASE LoopEnd
  <2>1. /\ UNCHANGED <<timed, observed, cell, pending, timerEvents, cancelled,
                       ran>>
        /\ pc.at = "loop" /\ Expired = << >>
        /\ current' = Null /\ deleteFlag' = FALSE /\ onDelete' = FALSE
        /\ pc' = IF pc.list = "observed" THEN [at |-> "loop", list |-> "timed"]
                 ELSE [at |-> "idle", list |-> "observed"]
    BY <1>4 DEF LoopEnd, history
  <2>2. ToSet(List) \subseteq pending
    BY <2>1, ExpiredAre
  <2>3. pc' \in [at : {"idle", "loop", "callback"},
                 list : {"observed", "timed"}]
    BY <2>1
  <2>4. Listed' = Listed /\ Free' = Free
    BY <2>1 DEF Listed, Free
  <2>5. TypeOK'
    BY <2>1, <2>3 DEF TypeOK
  <2>6. ListsInv'
    BY <2>1, <2>4 DEF ListsInv
  <2>7. CASE pc.list = "observed"
    BY <2>1, <2>2, <2>4, <2>5, <2>6, <2>7 DEF CurrentInv, WalkedInv,
       CancelledInv, ExpiredIsAnnounced, RanInv, List
  <2>8. CASE pc.list # "observed"
    <3>1. Listed \subseteq pending
      BY <2>1, <2>2, <2>8 DEF WalkedInv, List, Listed, TypeOK
    <3> QED
      BY <2>1, <2>4, <2>5, <2>6, <2>8, <3>1 DEF CurrentInv, WalkedInv,
         CancelledInv, ExpiredIsAnnounced, RanInv
  <2> QED
    BY <2>7, <2>8
<1> QED
  BY <1>1, <1>2, <1>3, <1>4 DEF Check

-----------------------------------------------------------------------------
(* The theorems.                                                           *)

LEMMA StepInv == IInv /\ [Next]_vars => IInv'
<1> SUFFICES ASSUME IInv, [Next]_vars
             PROVE  IInv'
  OBVIOUS
<1>1. CASE UNCHANGED vars
  <2>1. UNCHANGED <<timed, observed, cell, pending, timerEvents, pc, current,
                    deleteFlag, onDelete, cancelled, ran>>
    BY <1>1 DEF vars, code, history
  <2> QED
    BY <2>1 DEF IInv, TypeOK, ListsInv, CurrentInv, WalkedInv, CancelledInv,
       ExpiredIsAnnounced, RanInv, List, Listed, Free
<1>2. CASE Application
  <2>1. ASSUME NEW k \in [cb : Trigger, data : Context], RemoveOne(k)
        PROVE  IInv'
    BY <2>1, RemoveInv DEF RemoveOne
  <2>2. ASSUME NEW cb \in Trigger, NEW S \in SUBSET Context,
               NEW all \in MatchAll, NEW w \in BOOLEAN,
               RemoveByFilter(cb, S, all, w)
        PROVE  IInv'
    BY <2>2, RemoveInv, CallbackAssumption
  <2> QED
    BY <1>2, <2>1, <2>2, AddInv, ResetInv, EndInv DEF Application
<1>3. CASE (\E s \in Slot : TimerExpires(s)) \/ TimerEvent
  BY <1>3, TimerInv
<1> QED
  BY <1>1, <1>2, <1>3, CheckInv DEF Next

LEMMA InvAlways == Spec => []IInv
  BY InitInv, StepInv, PTL DEF Spec

\* The lists hold every allocated block once and no freed one, no timer of a
\* freed block is armed, and the block of a callback that runs stays
\* allocated and listed, whatever the callback adds, removes or resets.
THEOREM BlocksStaySound == Spec => []BlocksAreSound
<1>1. IInv => BlocksAreSound
  BY ConcatIsInjective DEF IInv, ListsInv, CurrentInv, BlocksAreSound, TypeOK
<1> QED
  BY <1>1, InvAlways, PTL

\* While no check runs, an expired callback has a TIMER event on its way.
THEOREM NoExpiryIsLost == Spec => []ExpiredIsAnnounced
<1>1. IInv => ExpiredIsAnnounced
  BY DEF IInv
<1> QED
  BY <1>1, InvAlways, PTL

\* event_callbacks_poll_timers, which starts over after every callback,
\* invokes none twice in one check.
THEOREM InvokedOncePerCheck == Spec => OncePerCheck
<1>1. ASSUME IInv, Invoke
      PROVE  current' \notin ran
  <2>1. pc.at = "loop" /\ current' \in ToSet(List) \ pending
    BY <1>1, ExpiredAre DEF Invoke, IInv
  <2> QED
    BY <1>1, <2>1 DEF IInv, RanInv, List, Listed
<1>2. IInv => [\A s \in Slot : (Invoke /\ current' = s) => s \notin ran]_vars
  BY <1>1
<1> QED
  BY <1>2, InvAlways, PTL DEF OncePerCheck

\* A callback that oc_ri_remove_timed_event_callback has removed is not
\* invoked again, even if it removed itself.
THEOREM RemovedIsNotInvoked == Spec => CancelledNeverRuns
<1>1. ASSUME IInv, Invoke
      PROVE  cancelled = {}
  BY <1>1 DEF IInv, CancelledInv, Invoke
<1>2. IInv =>
        [\A s \in Slot : (Invoke /\ current' = s) => s \notin cancelled]_vars
  BY <1>1
<1> QED
  BY <1>2, InvAlways, PTL DEF CancelledNeverRuns
=============================================================================
