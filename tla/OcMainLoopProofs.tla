-------------------------- MODULE OcMainLoopProofs ---------------------------
(***************************************************************************)
(* The main loop never misses a wake-up, for any number of receiving       *)
(* threads, messages and timers, with the eventfd and with the condition   *)
(* variable that is preceded by oc_main_needs_poll; it never sleeps past a *)
(* timer, with any loop; and messages are handed over whole and in order.  *)
(***************************************************************************)
EXTENDS OcMainLoop, OcListProofs, WellFoundedInduction

-----------------------------------------------------------------------------
(* A message in the list starts a chain: a receiver is about to mark the   *)
(* process, or the process is marked; then a receiver is about to request  *)
(* the poll, or the poll is requested; then, if the main thread is about   *)
(* to sleep, a receiver is about to signal it, or has signalled it.  Each  *)
(* link is kept by the order of the stores in oc_process_poll and of the   *)
(* tests in do_poll.                                                       *)

SomeReceiverAt(where) == \E r \in Receiver : rpc[r] = where

\* A message that waits has a mark on the process, or one on its way, unless
\* the handler that empties the list has already been called.
MessageIsMarked ==
  networkEvents # << >> =>
    \/ SomeReceiverAt("needspoll")
    \/ needspoll.network
    \/ pc = "network_handler"

\* A mark is followed by a request for a poll, unless do_poll is looking.
MarkIsRequested ==
  needspoll.network =>
    \/ SomeReceiverAt("poll_requested")
    \/ pollRequested
    \/ pc = "poll_network"

\* A request that the main thread has not seen when it goes to sleep is
\* followed by a signal.
RequestIsSignalled ==
  (pollRequested /\ (pc = "wait" \/ (pc = "loop" /\ loop = "eventfd"))) =>
    SomeReceiverAt("signal") \/ signals > 0

WakeupType ==
  /\ loop \in Loops
  /\ signals \in Nat
  /\ rpc \in [Receiver -> {"recv", "needspoll", "poll_requested", "signal"}]
  /\ needspoll \in [network : BOOLEAN, etimer : BOOLEAN]
  /\ pollRequested \in BOOLEAN

WakeupInv ==
  WakeupType /\ MessageIsMarked /\ MarkIsRequested /\ RequestIsSignalled

\* The loops that look at the request, or at a counter, before they sleep.
CheckedLoop == Loops \subseteq {"eventfd", "condvar"}

LEMMA WakeupInit == Init => WakeupInv
<1> SUFFICES ASSUME Init
             PROVE  WakeupInv
  OBVIOUS
<1>1. WakeupType
  BY DEF Init, WakeupType
<1>2. /\ networkEvents = << >>
      /\ ~needspoll.network
      /\ ~pollRequested
  BY DEF Init
<1> QED
  BY <1>1, <1>2 DEF WakeupInv, MessageIsMarked, MarkIsRequested,
                    RequestIsSignalled

\* The four steps of a receiver hand the chain on from link to link.
LEMMA WakeupReceiver ==
  ASSUME WakeupInv, NEW r \in Receiver, ReceiverStep(r)
  PROVE  WakeupInv'
<1> USE DEF WakeupInv, WakeupType, ReceiverAt, main
<1>1. CASE AddMessage(r)
  BY <1>1 DEF AddMessage, MessageIsMarked, MarkIsRequested, RequestIsSignalled,
              SomeReceiverAt
<1>2. CASE SetNeedspoll(r)
  BY <1>2 DEF SetNeedspoll, MessageIsMarked, MarkIsRequested,
              RequestIsSignalled, SomeReceiverAt
<1>3. CASE SetPollRequested(r)
  BY <1>3 DEF SetPollRequested, MessageIsMarked, MarkIsRequested,
              RequestIsSignalled, SomeReceiverAt
<1>4. CASE Signal(r)
  BY <1>4 DEF Signal, MessageIsMarked, MarkIsRequested, RequestIsSignalled,
              SomeReceiverAt
<1> QED
  BY <1>1, <1>2, <1>3, <1>4 DEF ReceiverStep

\* do_poll takes the request before the marks, and a mark before its handler
\* empties the list.
LEMMA WakeupPoll ==
  ASSUME WakeupInv, RequestPoll \/ Run \/ DoPoll
  PROVE  WakeupInv'
<1> USE DEF WakeupInv, WakeupType, receivers, main
<1>1. CASE RequestPoll
  BY <1>1 DEF RequestPoll, MessageIsMarked, MarkIsRequested,
              RequestIsSignalled, SomeReceiverAt
<1>2. CASE Run
  BY <1>2 DEF Run, MessageIsMarked, MarkIsRequested, RequestIsSignalled,
              SomeReceiverAt
<1>3. CASE SkipNetworkPoll
  BY <1>3 DEF SkipNetworkPoll, MessageIsMarked, MarkIsRequested,
              RequestIsSignalled, SomeReceiverAt
<1>4. CASE TakePoll("network", "poll_network", "network_handler")
  BY <1>4 DEF TakePoll, MessageIsMarked, MarkIsRequested, RequestIsSignalled,
              SomeReceiverAt
<1>5. CASE TakePoll("etimer", "poll_etimer", "etimer_handler")
  BY <1>5 DEF TakePoll, MessageIsMarked, MarkIsRequested, RequestIsSignalled,
              SomeReceiverAt
<1>6. CASE NetworkHandler
  BY <1>6 DEF NetworkHandler, MessageIsMarked, MarkIsRequested,
              RequestIsSignalled, SomeReceiverAt
<1>7. CASE EtimerHandler
  BY <1>7 DEF EtimerHandler, MessageIsMarked, MarkIsRequested,
              RequestIsSignalled, SomeReceiverAt
<1> QED
  BY <1>1, <1>2, <1>3, <1>4, <1>5, <1>6, <1>7 DEF DoPoll

\* The delivery of events leaves the chain alone, but for a timer that is set,
\* which requests a poll itself.
LEMMA WakeupEvents ==
  ASSUME WakeupInv, NoEvent \/ PassOn \/ Deliver \/ Return
  PROVE  WakeupInv'
<1> USE DEF WakeupInv, WakeupType, receivers, main
<1>1. CASE NoEvent
  BY <1>1 DEF NoEvent, MessageIsMarked, MarkIsRequested, RequestIsSignalled,
              SomeReceiverAt
<1>2. CASE PassOn
  BY <1>2 DEF PassOn, MessageIsMarked, MarkIsRequested, RequestIsSignalled,
              SomeReceiverAt
<1>3. CASE Deliver
  <2>1. /\ needspoll' \in [network : BOOLEAN, etimer : BOOLEAN]
        /\ needspoll'.network = needspoll.network
        /\ pollRequested' \in BOOLEAN
        /\ pollRequested => pollRequested'
    <3>1. CASE UNCHANGED <<needspoll, pollRequested>>
      BY <3>1
    <3>2. CASE /\ needspoll' = [needspoll EXCEPT !.etimer = TRUE]
               /\ pollRequested' = TRUE
      BY <3>2
    <3>3. ASSUME NEW t \in Timer, NEW i \in Interval, SetTimer(t, i)
          PROVE  /\ needspoll' = [needspoll EXCEPT !.etimer = TRUE]
                 /\ pollRequested' = TRUE
      BY <3>3, Zenon DEF SetTimer
    <3>4. ASSUME NEW t \in Timer, StopTimer(t)
          PROVE  UNCHANGED <<needspoll, pollRequested>>
      BY <3>4, Zenon DEF StopTimer
    <3>5. \/ UNCHANGED <<needspoll, pollRequested>>
          \/ \E t \in Timer :
               StopTimer(t) \/ \E i \in Interval : SetTimer(t, i)
      BY <1>3, Zenon DEF Deliver
    <3> QED
      BY <3>1, <3>2, <3>3, <3>4, <3>5
  <2>2. /\ UNCHANGED <<loop, receivers, networkEvents, signals>>
        /\ pc = "event" /\ pc' = "return"
    BY <1>3 DEF Deliver
  <2> QED
    BY <2>1, <2>2 DEF MessageIsMarked, MarkIsRequested, RequestIsSignalled,
                      SomeReceiverAt
<1>4. CASE Return
  BY <1>4 DEF Return, MessageIsMarked, MarkIsRequested, RequestIsSignalled,
              SomeReceiverAt
<1> QED
  BY <1>1, <1>2, <1>3, <1>4

\* Going to sleep, where the loops differ, and waking up.
LEMMA WakeupSleep ==
  ASSUME WakeupInv, CheckedLoop, Sleep \/ WakeSignalled \/ WakeTimeout \/ Tick
  PROVE  WakeupInv'
<1> USE DEF WakeupInv, WakeupType, receivers, main
<1>1. CASE Sleep
  BY <1>1 DEF Sleep, CheckedLoop, MessageIsMarked, MarkIsRequested,
              RequestIsSignalled, SomeReceiverAt
<1>2. CASE WakeSignalled
  BY <1>2 DEF WakeSignalled, MessageIsMarked, MarkIsRequested,
              RequestIsSignalled, SomeReceiverAt
<1>3. CASE WakeTimeout
  BY <1>3 DEF WakeTimeout, MessageIsMarked, MarkIsRequested,
              RequestIsSignalled, SomeReceiverAt
<1>4. CASE Tick
  BY <1>4 DEF Tick, MessageIsMarked, MarkIsRequested, RequestIsSignalled,
              SomeReceiverAt
<1> QED
  BY <1>1, <1>2, <1>3, <1>4

\* In the sleeping main thread the chain can only end at a receiver.
LEMMA ChainEndsAtReceiver == WakeupInv => NoLostWakeup
BY DEF WakeupInv, WakeupType, MessageIsMarked, MarkIsRequested,
       RequestIsSignalled, SomeReceiverAt, NoLostWakeup

\* For any number of receivers, messages and timers, the main thread never
\* sleeps on a message without a receiver that is going to signal it: the
\* order "list, needspoll, g_poll_requested, signal" of
\* oc_network_receive_event against "g_poll_requested, needspoll, list" of
\* do_poll and oc_process_network_event leaves no window.
THEOREM WakeupNeverLost == CheckedLoop => (Spec => []NoLostWakeup)
<1> SUFFICES ASSUME CheckedLoop
             PROVE  Spec => []NoLostWakeup
  OBVIOUS
<1>1. Init => WakeupInv
  BY WakeupInit
<1>2. WakeupInv /\ [Next]_vars => WakeupInv'
  <2> SUFFICES ASSUME WakeupInv, [Next]_vars
               PROVE  WakeupInv'
    OBVIOUS
  <2>1. CASE UNCHANGED vars
    BY <2>1 DEF vars, WakeupInv, WakeupType, MessageIsMarked, MarkIsRequested,
                RequestIsSignalled, SomeReceiverAt
  <2>2. CASE Tick
    BY <2>2, WakeupSleep
  <2>3. CASE MainStep
    BY <2>3, WakeupPoll, WakeupEvents, WakeupSleep DEF MainStep
  <2>4. ASSUME NEW r \in Receiver, ReceiverStep(r)
        PROVE  WakeupInv'
    BY <2>4, WakeupReceiver
  <2> QED
    BY <2>1, <2>2, <2>3, <2>4 DEF Next
<1> QED
  BY <1>1, <1>2, ChainEndsAtReceiver, PTL DEF Spec

-----------------------------------------------------------------------------
(* The time at which the main thread wakes by itself.  oc_main_poll_v1     *)
(* returns g_next_expiration as it was before the last events were         *)
(* handled.  Handling them can only make it too early, unless a timer is   *)
(* set; but that requests a poll, and oc_main_poll_v1 starts over.         *)

\* No timer is set, or x is a time at which none of them is overdue.
InTime(x) ==
  Pending(expiry) # {} =>
    /\ x # 0
    /\ \A t \in Pending(expiry) : x <= expiry[t] \/ x <= clock

TimerType ==
  /\ expiry \in [Timer -> Nat]
  /\ clock \in Nat \ {0}
  /\ nextExpiration \in Nat
  /\ nextEvent \in Nat

\* Is next_event_mt going to be read again before the main thread sleeps?
ReadAgain == pc = "request_poll" \/ (pc = "return" /\ pollRequested)

SleepInv ==
  /\ TimerType
  /\ InTime(nextExpiration)
  /\ ~ReadAgain => InTime(nextEvent)

\* A set of numbers has a minimum.
LEMMA MinIsLeast ==
  ASSUME NEW S \in SUBSET Nat, S # {}
  PROVE  /\ Min(S) \in S
         /\ \A x \in S : Min(S) <= x
<1> DEFINE less == {ss \in Nat \X Nat : ss[1] < ss[2]}
<1>1. IsWellFoundedOn(less, Nat)
  BY NatLessThanWellFounded, Zenon DEF OpToRel
<1>2. PICK x \in S : \A y \in S : ~(<<y, x>> \in less)
  <2> HIDE DEF less
  <2> QED
    BY <1>1, WFMin
<1>3. ASSUME NEW y \in S
      PROVE  x <= y
  <2>1. x \in Nat /\ y \in Nat
    OBVIOUS
  <2>2. y < x => <<y, x>> \in less
    BY <2>1
  <2> QED
    BY <1>2, <2>1, <2>2
<1> QED
  BY <1>3 DEF Min

\* What etimer_update_time computes.
LEMMA UpdatedTimeIsInTime ==
  ASSUME NEW ex \in [Timer -> Nat], clock \in Nat \ {0}
  PROVE  /\ UpdatedTime(ex) \in Nat
         /\ Pending(ex) # {} =>
              /\ UpdatedTime(ex) # 0
              /\ \A t \in Pending(ex) :
                   UpdatedTime(ex) <= ex[t] \/ UpdatedTime(ex) <= clock
<1>1. CASE Pending(ex) = {}
  BY <1>1 DEF UpdatedTime
<1>2. CASE Pending(ex) # {}
  <2> DEFINE S == {ex[t] : t \in Pending(ex)}
  <2>1. S \in SUBSET Nat /\ S # {} /\ \A x \in S : x # 0
    BY <1>2 DEF Pending
  <2>2. Min(S) \in S /\ \A x \in S : Min(S) <= x
    BY <2>1, MinIsLeast
  <2>3. Min(S) \in Nat \ {0} /\ \A t \in Pending(ex) : Min(S) <= ex[t]
    BY <2>1, <2>2
  <2>4. UpdatedTime(ex) = IF Min(S) <= clock THEN clock ELSE Min(S)
    BY <1>2 DEF UpdatedTime
  <2> HIDE DEF S
  <2> QED
    BY <2>3, <2>4
<1> QED
  BY <1>1, <1>2

\* Steps that leave the timers and the two times alone keep the invariant,
\* if they do not move the main thread from a place where it still reads
\* them again to one where it does not.
LEMMA SleepUntouched ==
  ASSUME SleepInv, UNCHANGED <<expiry, nextExpiration, nextEvent>>,
         clock' \in Nat, clock' >= clock, ReadAgain => ReadAgain'
  PROVE  SleepInv'
BY DEF SleepInv, TimerType, InTime, Pending

\* The main thread takes g_next_expiration as the time to wake.
LEMMA SleepRequestPoll == SleepInv /\ RequestPoll => SleepInv'
<1> SUFFICES ASSUME SleepInv, RequestPoll
             PROVE  SleepInv'
  OBVIOUS
<1>1. UNCHANGED <<expiry, nextExpiration, clock>>
  BY DEF RequestPoll
<1>2. nextEvent' = IF Pending(expiry) = {} THEN 0 ELSE nextExpiration
  BY DEF RequestPoll
<1> QED
  BY <1>1, <1>2 DEF SleepInv, TimerType, InTime, Pending

\* Timers that leave g_timerlist leave the time to wake early enough.
LEMMA SleepEtimerHandler == SleepInv /\ EtimerHandler => SleepInv'
<1> SUFFICES ASSUME SleepInv, EtimerHandler
             PROVE  SleepInv'
  OBVIOUS
<1> DEFINE due == {t \in Pending(expiry) : expiry[t] <= clock}
<1>1. /\ expiry' = [t \in Timer |-> IF t \in due THEN 0 ELSE expiry[t]]
      /\ nextExpiration' = IF due = {} THEN nextExpiration
                           ELSE UpdatedTime(expiry')
      /\ UNCHANGED <<clock, nextEvent>>
      /\ pc = "etimer_handler" /\ pc' = "event"
  BY DEF EtimerHandler
<1>2. expiry' \in [Timer -> Nat] /\ clock \in Nat \ {0}
  BY <1>1 DEF SleepInv, TimerType
<1>3. /\ Pending(expiry') \subseteq Pending(expiry)
      /\ \A t \in Pending(expiry') : expiry'[t] = expiry[t]
      /\ due = {} => Pending(expiry') = Pending(expiry)
  BY <1>1, <1>2 DEF Pending, SleepInv, TimerType
<1>4. /\ UpdatedTime(expiry') \in Nat
      /\ Pending(expiry') # {} =>
           /\ UpdatedTime(expiry') # 0
           /\ \A t \in Pending(expiry') :
                UpdatedTime(expiry') <= expiry'[t] \/ UpdatedTime(expiry') <= clock
  BY <1>2, UpdatedTimeIsInTime
<1> HIDE DEF due
<1>5. InTime(nextEvent)' /\ nextEvent' \in Nat
  BY <1>1, <1>3 DEF SleepInv, ReadAgain, InTime, Pending, TimerType
<1>6. InTime(nextExpiration)' /\ nextExpiration' \in Nat
  BY <1>1, <1>3, <1>4 DEF SleepInv, InTime, Pending, TimerType
<1> QED
  BY <1>1, <1>2, <1>5, <1>6 DEF SleepInv, TimerType

\* A callback that sets a timer makes oc_main_poll_v1 start over; one that
\* stops a timer leaves the time to wake early enough.
LEMMA SleepDeliver == SleepInv /\ Deliver => SleepInv'
<1> SUFFICES ASSUME SleepInv, Deliver
             PROVE  SleepInv'
  OBVIOUS
<1>1. /\ UNCHANGED <<clock, nextEvent>>
      /\ pc = "event" /\ pc' = "return"
  BY DEF Deliver
<1>2. CASE UNCHANGED <<expiry, nextExpiration>>
  BY <1>1, <1>2 DEF SleepInv, TimerType, InTime, Pending, ReadAgain
<1>3. ASSUME NEW t \in Timer, StopTimer(t)
      PROVE  SleepInv'
  <2>1. /\ expiry' = [expiry EXCEPT ![t] = 0]
        /\ nextExpiration' = UpdatedTime(expiry')
    BY <1>3 DEF StopTimer
  <2>2. expiry' \in [Timer -> Nat] /\ clock \in Nat \ {0}
    BY <2>1 DEF SleepInv, TimerType
  <2>3. /\ UpdatedTime(expiry') \in Nat
        /\ Pending(expiry') # {} =>
             /\ UpdatedTime(expiry') # 0
             /\ \A x \in Pending(expiry') :
                  UpdatedTime(expiry') <= expiry'[x] \/ UpdatedTime(expiry') <= clock
    BY <2>2, UpdatedTimeIsInTime
  <2>4. /\ Pending(expiry') \subseteq Pending(expiry)
        /\ \A x \in Pending(expiry') : expiry'[x] = expiry[x]
    BY <2>1 DEF Pending, SleepInv, TimerType
  <2>5. InTime(nextEvent)'
    BY <1>1, <2>4 DEF SleepInv, ReadAgain, InTime, Pending
  <2>6. InTime(nextExpiration)'
    BY <1>1, <2>1, <2>3 DEF InTime, Pending
  <2> QED
    BY <1>1, <2>1, <2>2, <2>3, <2>5, <2>6 DEF SleepInv, TimerType
<1>4. ASSUME NEW t \in Timer, NEW i \in Interval, SetTimer(t, i)
      PROVE  SleepInv'
  <2>1. /\ expiry' = [expiry EXCEPT ![t] = clock + i]
        /\ nextExpiration' = UpdatedTime(expiry')
        /\ pollRequested'
    BY <1>4 DEF SetTimer
  <2>2. expiry' \in [Timer -> Nat] /\ clock \in Nat \ {0}
    BY <2>1, LoopAssumption DEF SleepInv, TimerType
  <2>3. /\ UpdatedTime(expiry') \in Nat
        /\ Pending(expiry') # {} =>
             /\ UpdatedTime(expiry') # 0
             /\ \A x \in Pending(expiry') :
                  UpdatedTime(expiry') <= expiry'[x] \/ UpdatedTime(expiry') <= clock
    BY <2>2, UpdatedTimeIsInTime
  <2>4. ReadAgain'
    BY <1>1, <2>1 DEF ReadAgain
  <2>5. InTime(nextExpiration)'
    BY <1>1, <2>1, <2>3 DEF InTime, Pending
  <2> QED
    BY <1>1, <2>1, <2>2, <2>3, <2>4, <2>5 DEF SleepInv, TimerType
<1>5. \/ UNCHANGED <<expiry, nextExpiration>>
      \/ \E t \in Timer : StopTimer(t) \/ \E i \in Interval : SetTimer(t, i)
  BY Zenon DEF Deliver
<1> QED
  BY <1>2, <1>3, <1>4, <1>5

\* For any number of timers and any loop, the main thread never sleeps past
\* the expiry of a timer, nor without a limit while a timer is set, although
\* the time it wakes at is the one read before the last events were handled.
THEOREM NeverSleepsPastTimer == Spec => []NoOversleep
<1>1. Init => SleepInv
  BY DEF Init, SleepInv, TimerType, InTime, Pending, ReadAgain
<1>2. SleepInv /\ [Next]_vars => SleepInv'
  <2> SUFFICES ASSUME SleepInv, [Next]_vars
               PROVE  SleepInv'
    OBVIOUS
  <2>0. clock \in Nat
    BY DEF SleepInv, TimerType
  <2>1. CASE UNCHANGED vars
    BY <2>0, <2>1, SleepUntouched DEF vars, ReadAgain
  <2>2. CASE Tick
    BY <2>0, <2>2, SleepUntouched DEF Tick, main, ReadAgain
  <2>3. CASE RequestPoll
    BY <2>3, SleepRequestPoll
  <2>4. CASE EtimerHandler
    BY <2>4, SleepEtimerHandler
  <2>5. CASE Deliver
    BY <2>5, SleepDeliver
  <2>6. CASE Run \/ SkipNetworkPoll \/ NetworkHandler
    BY <2>0, <2>6, SleepUntouched
       DEF Run, SkipNetworkPoll, NetworkHandler, main, ReadAgain
  <2>7. CASE \/ TakePoll("network", "poll_network", "network_handler")
             \/ TakePoll("etimer", "poll_etimer", "etimer_handler")
    BY <2>0, <2>7, SleepUntouched DEF TakePoll, main, ReadAgain
  <2>8. CASE NoEvent \/ PassOn
    BY <2>0, <2>8, SleepUntouched DEF NoEvent, PassOn, main, ReadAgain
  <2>9. CASE Return
    BY <2>0, <2>9, SleepUntouched DEF Return, main, ReadAgain
  <2>10. CASE Sleep \/ WakeSignalled \/ WakeTimeout
    BY <2>0, <2>10, SleepUntouched
       DEF Sleep, WakeSignalled, WakeTimeout, main, ReadAgain
  <2>11. ASSUME NEW r \in Receiver, AddMessage(r) \/ SetNeedspoll(r)
         PROVE  SleepInv'
    BY <2>0, <2>11, SleepUntouched DEF AddMessage, SetNeedspoll, main, ReadAgain
  <2>12. ASSUME NEW r \in Receiver, SetPollRequested(r) \/ Signal(r)
         PROVE  SleepInv'
    BY <2>0, <2>12, SleepUntouched DEF SetPollRequested, Signal, main, ReadAgain
  <2> QED
    BY <2>1, <2>2, <2>3, <2>4, <2>5, <2>6, <2>7, <2>8, <2>9, <2>10, <2>11,
       <2>12 DEF Next, MainStep, DoPoll, ReceiverStep
<1>3. SleepInv => NoOversleep
  BY DEF SleepInv, InTime, ReadAgain, NoOversleep
<1> QED
  BY <1>1, <1>2, <1>3, PTL DEF Spec

-----------------------------------------------------------------------------
(* Types.                                                                  *)

LEMMA UpdatedTimeBounded ==
  ASSUME NEW ex \in [Timer -> 0..MaxTime], clock \in 1..MaxTime
  PROVE  /\ UpdatedTime(ex) \in 0..MaxTime
         /\ UpdatedTime(ex) = 0 <=> Pending(ex) = {}
<1>1. CASE Pending(ex) = {}
  BY <1>1, LoopAssumption DEF UpdatedTime
<1>2. CASE Pending(ex) # {}
  <2> DEFINE S == {ex[t] : t \in Pending(ex)}
  <2>1. S \in SUBSET Nat /\ S # {} /\ S \subseteq 1..MaxTime
    BY <1>2, LoopAssumption DEF Pending
  <2>2. Min(S) \in 1..MaxTime
    <3> HIDE DEF S
    <3> QED
      BY <2>1, MinIsLeast
  <2>3. UpdatedTime(ex) \in {clock, Min(S)}
    BY <1>2 DEF UpdatedTime
  <2> HIDE DEF S
  <2> QED
    BY <1>2, <2>2, <2>3
<1> QED
  BY <1>1, <1>2

LEMMA EventIs ==
  ASSUME NEW e \in Event
  PROVE  /\ e.ev \in {"INBOUND_NETWORK", "INBOUND_RI", "TIMER"}
         /\ e.ev # "TIMER" =>
              /\ e \in [ev : {"INBOUND_NETWORK", "INBOUND_RI"}, m : Message]
              /\ e.m \in Message
  BY DEF Event

\* The events that oc_process_network_event and oc_etimer_process post.
LEMMA PostedEvents ==
  /\ \A list \in Seq(Message) :
       [k \in 1..Len(list) |-> Inbound(list[k])] \in Seq(Event)
  /\ \A due \in SUBSET Timer : \A order \in SetToSeqs(due) :
       /\ order \in Seq(Timer)
       /\ [k \in 1..Len(order) |-> [ev |-> "TIMER", t |-> order[k]]]
            \in Seq(Event)
<1>1. ASSUME NEW list \in Seq(Message)
      PROVE  [k \in 1..Len(list) |-> Inbound(list[k])] \in Seq(Event)
  <2>1. ASSUME NEW k \in 1..Len(list)
        PROVE  Inbound(list[k]) \in Event
    <3>1. list[k] \in Message
      OBVIOUS
    <3> QED
      BY <3>1 DEF Inbound, Event
  <2> QED
    BY <2>1
<1>2. ASSUME NEW due \in SUBSET Timer, NEW order \in SetToSeqs(due)
      PROVE  /\ order \in Seq(Timer)
             /\ [k \in 1..Len(order) |-> [ev |-> "TIMER", t |-> order[k]]]
                  \in Seq(Event)
  <2>1. Cardinality(due) \in Nat
    BY LoopAssumption, FS_Subset, FS_CardinalityType
  <2>2. order \in [1..Cardinality(due) -> due]
    BY DEF SetToSeqs
  <2>3. order \in Seq(Timer)
    BY <2>1, <2>2
  <2>4. ASSUME NEW k \in 1..Len(order)
        PROVE  [ev |-> "TIMER", t |-> order[k]] \in Event
    <3>1. order[k] \in Timer
      BY <2>3
    <3> QED
      BY <3>1 DEF Event
  <2> QED
    BY <2>3, <2>4
<1> QED
  BY <1>1, <1>2

LEMMA TypeInit == Init => TypeOK
<1> SUFFICES ASSUME Init
             PROVE  TypeOK
  OBVIOUS
<1>1. /\ networkEvents \in Seq(Message) /\ queue \in Seq(Event)
      /\ arrived \in Seq(Message) /\ handled \in Seq(Message)
  BY DEF Init
<1>2. 0 \in 0..MaxTime /\ 1 \in 1..MaxTime /\ 0 \in 0..MaxMessages
  BY LoopAssumption
<1>3. /\ expiry \in [Timer -> 0..MaxTime]
      /\ received \in [Receiver -> 0..MaxMessages]
      /\ nextExpiration \in 0..MaxTime /\ nextEvent \in 0..MaxTime
      /\ clock \in 1..MaxTime
  BY <1>2 DEF Init
<1>4. nextExpiration = 0 /\ Pending(expiry) = {}
  BY DEF Init, Pending
<1> QED
  BY <1>1, <1>3, <1>4 DEF Init, TypeOK

LEMMA TypeReceiver ==
  ASSUME TypeOK, NEW r \in Receiver, ReceiverStep(r)
  PROVE  TypeOK'
<1>1. CASE AddMessage(r)
  <2> DEFINE m == [from |-> r, n |-> received[r] + 1]
  <2>1. m \in Message /\ received[r] + 1 \in 0..MaxMessages
    BY <1>1, LoopAssumption DEF AddMessage, TypeOK, Message
  <2>2. /\ networkEvents' = Append(networkEvents, m)
        /\ arrived' = Append(arrived, m)
        /\ received' = [received EXCEPT ![r] = @ + 1]
        /\ rpc' = [rpc EXCEPT ![r] = "needspoll"]
        /\ UNCHANGED <<loop, needspoll, pollRequested, queue, expiry,
                       nextExpiration, nextEvent, handled, clock, pc, signals>>
    BY <1>1 DEF AddMessage, ReceiverAt, main
  <2> HIDE DEF m
  <2>3. networkEvents' \in Seq(Message) /\ arrived' \in Seq(Message)
    BY <2>1, <2>2 DEF TypeOK
  <2> QED
    BY <2>1, <2>2, <2>3 DEF TypeOK
<1>2. CASE SetNeedspoll(r)
  BY <1>2 DEF SetNeedspoll, ReceiverAt, TypeOK, main
<1>3. CASE SetPollRequested(r)
  BY <1>3 DEF SetPollRequested, ReceiverAt, TypeOK, main
<1>4. CASE Signal(r)
  BY <1>4 DEF Signal, ReceiverAt, TypeOK, main
<1> QED
  BY <1>1, <1>2, <1>3, <1>4 DEF ReceiverStep

LEMMA TypePoll ==
  ASSUME TypeOK, RequestPoll \/ Run \/ DoPoll
  PROVE  TypeOK'
<1>1. CASE RequestPoll
  <2>1. nextEvent' \in 0..MaxTime
    <3>1. nextEvent' = 0 \/ nextEvent' = nextExpiration
      BY <1>1 DEF RequestPoll
    <3> QED
      BY <3>1, LoopAssumption DEF TypeOK
  <2> QED
    BY <1>1, <2>1 DEF RequestPoll, TypeOK, receivers
<1>2. CASE Run
  BY <1>2 DEF Run, TypeOK, receivers, main
<1>3. CASE SkipNetworkPoll
  BY <1>3 DEF SkipNetworkPoll, TypeOK, receivers, main
<1>4. CASE TakePoll("network", "poll_network", "network_handler")
  BY <1>4 DEF TakePoll, TypeOK, receivers, main
<1>5. CASE TakePoll("etimer", "poll_etimer", "etimer_handler")
  BY <1>5 DEF TakePoll, TypeOK, receivers, main
<1>6. CASE NetworkHandler
  <2> DEFINE posted == [k \in 1..Len(networkEvents) |->
                          Inbound(networkEvents[k])]
  <2>1. posted \in Seq(Event)
    BY PostedEvents DEF TypeOK
  <2>2. queue' = queue \o posted
    BY <1>6 DEF NetworkHandler
  <2> HIDE DEF posted
  <2>3. queue' \in Seq(Event)
    BY <2>1, <2>2 DEF TypeOK
  <2>4. networkEvents' \in Seq(Message)
    BY <1>6 DEF NetworkHandler
  <2> QED
    BY <1>6, <2>3, <2>4 DEF NetworkHandler, TypeOK, receivers
<1>7. CASE EtimerHandler
  <2> DEFINE due == {t \in Pending(expiry) : expiry[t] <= clock}
  <2>1. PICK order \in SetToSeqs(due) :
          /\ queue' = queue \o [k \in 1..Len(order) |->
                                  [ev |-> "TIMER", t |-> order[k]]]
          /\ expiry' = [t \in Timer |-> IF t \in due THEN 0 ELSE expiry[t]]
          /\ nextExpiration' = IF due = {} THEN nextExpiration
                               ELSE UpdatedTime(expiry')
    BY <1>7, Zenon DEF EtimerHandler
  <2> DEFINE posted == [k \in 1..Len(order) |->
                          [ev |-> "TIMER", t |-> order[k]]]
  <2>2. due \in SUBSET Timer
    BY DEF Pending
  <2>3. expiry' \in [Timer -> 0..MaxTime]
    BY <2>1, LoopAssumption DEF TypeOK
  <2> HIDE DEF due
  <2>4. posted \in Seq(Event) /\ queue' = queue \o posted
    BY <2>1, <2>2, PostedEvents
  <2> HIDE DEF posted
  <2>5. queue' \in Seq(Event)
    BY <2>4 DEF TypeOK
  <2>6. /\ nextExpiration' \in 0..MaxTime
        /\ nextExpiration' = 0 <=> Pending(expiry') = {}
    <3>1. CASE due = {}
      <4>1. expiry' = expiry /\ nextExpiration' = nextExpiration
        BY <2>1, <3>1 DEF TypeOK
      <4> QED
        BY <4>1 DEF TypeOK
    <3>2. CASE due # {}
      <4>1. nextExpiration' = UpdatedTime(expiry') /\ clock' = clock
        BY <1>7, <2>1, <3>2 DEF EtimerHandler
      <4> DEFINE ex == expiry'
      <4>2. /\ UpdatedTime(ex) \in 0..MaxTime
            /\ UpdatedTime(ex) = 0 <=> Pending(ex) = {}
        BY <2>3, UpdatedTimeBounded DEF TypeOK
      <4> QED
        BY <4>1, <4>2
    <3> QED
      BY <3>1, <3>2
  <2> QED
    BY <1>7, <2>3, <2>5, <2>6 DEF EtimerHandler, TypeOK, receivers
<1> QED
  BY <1>1, <1>2, <1>3, <1>4, <1>5, <1>6, <1>7 DEF DoPoll

LEMMA TypeEvents ==
  ASSUME TypeOK, NoEvent \/ PassOn \/ Deliver \/ Return
  PROVE  TypeOK'
<1>1. CASE NoEvent
  BY <1>1 DEF NoEvent, TypeOK, receivers, main
<1>2. CASE PassOn
  <2> DEFINE h == Head(queue)
             x == [h EXCEPT !.ev = "INBOUND_RI"]
  <2>1. h \in Event /\ h.ev = "INBOUND_NETWORK" /\ Tail(queue) \in Seq(Event)
    BY <1>2 DEF PassOn, TypeOK
  <2>2. x \in Event
    <3>1. h \in [ev : {"INBOUND_NETWORK", "INBOUND_RI"}, m : Message]
      BY <2>1, EventIs
    <3> HIDE DEF h
    <3>2. x \in [ev : {"INBOUND_NETWORK", "INBOUND_RI"}, m : Message]
      BY <3>1
    <3> QED
      BY <3>2 DEF Event
  <2>3. queue' = Append(Tail(queue), x)
    BY <1>2 DEF PassOn
  <2> HIDE DEF h, x
  <2>4. queue' \in Seq(Event)
    BY <2>1, <2>2, <2>3
  <2> QED
    BY <1>2, <2>4 DEF PassOn, TypeOK, receivers
<1>3. CASE Deliver
  <2>1. Head(queue) \in Event /\ queue' \in Seq(Event)
    BY <1>3 DEF Deliver, TypeOK
  <2>2. handled' \in Seq(Message)
    <3>1. handled' = IF Head(queue).ev = "TIMER" THEN handled
                     ELSE Append(handled, Head(queue).m)
      BY <1>3 DEF Deliver
    <3> QED
      BY <2>1, <3>1, EventIs DEF TypeOK
  <2>3. /\ needspoll' \in [network : BOOLEAN, etimer : BOOLEAN]
        /\ pollRequested' \in BOOLEAN
        /\ expiry' \in [Timer -> 0..MaxTime]
        /\ nextExpiration' \in 0..MaxTime
        /\ nextExpiration' = 0 <=> Pending(expiry') = {}
    <3>1. \/ UNCHANGED <<needspoll, pollRequested, expiry, nextExpiration>>
          \/ \E t \in Timer : StopTimer(t) \/ \E i \in Interval : SetTimer(t, i)
      BY <1>3, Zenon DEF Deliver
    <3>2. CASE UNCHANGED <<needspoll, pollRequested, expiry, nextExpiration>>
      BY <3>2 DEF TypeOK
    <3>3. ASSUME NEW t \in Timer, StopTimer(t)
          PROVE  /\ UNCHANGED <<needspoll, pollRequested>>
                 /\ expiry' \in [Timer -> 0..MaxTime]
                 /\ nextExpiration' \in 0..MaxTime
                 /\ nextExpiration' = 0 <=> Pending(expiry') = {}
      <4>1. /\ UNCHANGED <<needspoll, pollRequested>>
            /\ expiry' = [expiry EXCEPT ![t] = 0]
            /\ nextExpiration' = UpdatedTime(expiry')
        BY <3>3 DEF StopTimer
      <4>2. expiry' \in [Timer -> 0..MaxTime]
        BY <4>1, LoopAssumption DEF TypeOK
      <4> QED
        BY <4>1, <4>2, UpdatedTimeBounded DEF TypeOK
    <3>4. ASSUME NEW t \in Timer, NEW i \in Interval, SetTimer(t, i)
          PROVE  /\ needspoll' = [needspoll EXCEPT !.etimer = TRUE]
                 /\ pollRequested' = TRUE
                 /\ expiry' \in [Timer -> 0..MaxTime]
                 /\ nextExpiration' \in 0..MaxTime
                 /\ nextExpiration' = 0 <=> Pending(expiry') = {}
      <4>1. /\ clock + i <= MaxTime
            /\ expiry' = [expiry EXCEPT ![t] = clock + i]
            /\ nextExpiration' = UpdatedTime(expiry')
            /\ needspoll' = [needspoll EXCEPT !.etimer = TRUE]
            /\ pollRequested' = TRUE
        BY <3>4 DEF SetTimer
      <4>2. expiry' \in [Timer -> 0..MaxTime]
        BY <4>1, LoopAssumption DEF TypeOK
      <4> QED
        BY <4>1, <4>2, UpdatedTimeBounded DEF TypeOK
    <3> QED
      BY <3>1, <3>2, <3>3, <3>4 DEF TypeOK
  <2> QED
    BY <1>3, <2>1, <2>2, <2>3 DEF Deliver, TypeOK, receivers
<1>4. CASE Return
  BY <1>4 DEF Return, TypeOK, receivers, main
<1> QED
  BY <1>1, <1>2, <1>3, <1>4

LEMMA TypeSleep ==
  ASSUME TypeOK, Sleep \/ WakeSignalled \/ WakeTimeout \/ Tick
  PROVE  TypeOK'
<1>1. CASE Sleep
  BY <1>1 DEF Sleep, TypeOK, receivers, main
<1>2. CASE WakeSignalled
  BY <1>2 DEF WakeSignalled, TypeOK, receivers, main
<1>3. CASE WakeTimeout
  BY <1>3 DEF WakeTimeout, TypeOK, receivers, main
<1>4. CASE Tick
  BY <1>4, LoopAssumption DEF Tick, TypeOK, receivers, main
<1> QED
  BY <1>1, <1>2, <1>3, <1>4

LEMMA TypeNext ==
  ASSUME TypeOK, [Next]_vars
  PROVE  TypeOK'
<1>1. CASE UNCHANGED vars
  BY <1>1 DEF vars, TypeOK
<1>2. CASE Next
  BY <1>2, TypeReceiver, TypePoll, TypeEvents, TypeSleep DEF Next, MainStep
<1> QED
  BY <1>1, <1>2

\* The flags, the timers, the queue and the messages in it keep their types,
\* and g_next_expiration is a time exactly while timers are set, for any
\* receivers, timers and intervals.
THEOREM MainLoopTypeCorrect == Spec => []TypeOK
<1>1. Init => TypeOK
  BY TypeInit
<1>2. TypeOK /\ [Next]_vars => TypeOK'
  BY TypeNext
<1> QED
  BY <1>1, <1>2, PTL DEF Spec

-----------------------------------------------------------------------------
(* The hand-over of messages.  Every step moves messages from the front of *)
(* one list to the end of the one before it in the equation, so that their *)
(* concatenation stays what it is.                                         *)

MessageEvents == {"INBOUND_RI", "INBOUND_NETWORK"}

LEMMA MessagesAre ==
  ASSUME NEW q \in Seq(Event), NEW kind \in MessageEvents
  PROVE  MessagesOf(q, kind) \in Seq(Message)
<1> DEFINE S == {e \in Event : e.ev # kind}
           its == Without(q, S)
<1>1. its \in Seq(Event) /\ ItemsOf(its) = ItemsOf(q) \ S
  BY WithoutSelects, WithoutItems, Zenon
<1>2. MessagesOf(q, kind) = [k \in 1..Len(its) |-> its[k].m]
  BY DEF MessagesOf
<1> HIDE DEF its
<1>3. ASSUME NEW k \in 1..Len(its)
      PROVE  its[k].m \in Message
  <2>1. its[k] \in Event
    BY <1>1
  <2>2. its[k] \in ItemsOf(its)
    BY DEF ItemsOf
  <2>3. its[k].ev = kind
    BY <1>1, <2>1, <2>2
  <2> QED
    BY <2>1, <2>3, EventIs DEF MessageEvents
<1>4. Len(its) \in Nat
  BY <1>1
<1> QED
  BY <1>2, <1>3, <1>4

LEMMA FunctionIsList ==
  ASSUME NEW X, NEW n \in Nat, NEW f \in [1..n -> X]
  PROVE  f \in Seq(X) /\ Len(f) = n
  OBVIOUS

LEMMA ConcatIs ==
  ASSUME NEW X, NEW a \in Seq(X), NEW b \in Seq(X)
  PROVE  /\ a \o b \in Seq(X)
         /\ a \o b = [k \in 1..Len(a) + Len(b) |->
                       IF k <= Len(a) THEN a[k] ELSE b[k - Len(a)]]
<1> DEFINE c == a \o b
<1>1. /\ c \in Seq(X) /\ Len(c) = Len(a) + Len(b)
      /\ \A k \in 1..Len(a) + Len(b) :
           c[k] = IF k <= Len(a) THEN a[k] ELSE b[k - Len(a)]
  OBVIOUS
<1> HIDE DEF c
<1>2. c = [k \in 1..Len(c) |-> c[k]]
  BY <1>1
<1>3. c = [k \in 1..Len(a) + Len(b) |->
             IF k <= Len(a) THEN a[k] ELSE b[k - Len(a)]]
  BY <1>1, <1>2
<1> QED
  BY <1>1, <1>3 DEF c

LEMMA MessagesConcat ==
  ASSUME NEW a \in Seq(Event), NEW b \in Seq(Event), NEW kind
  PROVE  MessagesOf(a \o b, kind) = MessagesOf(a, kind) \o MessagesOf(b, kind)
<1> DEFINE S == {e \in Event : e.ev # kind}
           u == Without(a, S)
           v == Without(b, S)
           w == Without(a \o b, S)
<1>1. u \in Seq(Event) /\ v \in Seq(Event)
  BY WithoutSelects, Zenon
<1>2. w = u \o v
  BY WithoutConcat
<1>3. /\ MessagesOf(a, kind) = [k \in 1..Len(u) |-> u[k].m]
      /\ MessagesOf(b, kind) = [k \in 1..Len(v) |-> v[k].m]
      /\ MessagesOf(a \o b, kind) = [k \in 1..Len(w) |-> w[k].m]
  BY DEF MessagesOf
<1> HIDE DEF u, v, w
<1>4. /\ Len(u) \in Nat /\ Len(v) \in Nat /\ Len(w) = Len(u) + Len(v)
      /\ \A k \in 1..Len(w) : w[k] = IF k <= Len(u) THEN u[k] ELSE v[k - Len(u)]
  BY <1>1, <1>2
<1> DEFINE x == [k \in 1..Len(u) |-> u[k].m]
           y == [k \in 1..Len(v) |-> v[k].m]
           z == [k \in 1..Len(w) |-> w[k].m]
<1>5. z = x \o y
  <2> DEFINE Y == {u[k].m : k \in 1..Len(u)} \cup {v[k].m : k \in 1..Len(v)}
  <2>1. x \in Seq(Y) /\ y \in Seq(Y) /\ Len(x) = Len(u) /\ Len(y) = Len(v)
    <3>1. x \in [1..Len(u) -> Y] /\ y \in [1..Len(v) -> Y]
      OBVIOUS
    <3> HIDE DEF x, y, Y
    <3> QED
      BY <1>4, <3>1, FunctionIsList
  <2>2. x \o y = [k \in 1..Len(u) + Len(v) |->
                   IF k <= Len(u) THEN x[k] ELSE y[k - Len(u)]]
    <3> HIDE DEF x, y, Y
    <3>1. x \o y = [k \in 1..Len(x) + Len(y) |->
                     IF k <= Len(x) THEN x[k] ELSE y[k - Len(x)]]
      BY <2>1, ConcatIs
    <3> QED
      BY <2>1, <3>1
  <2>3. ASSUME NEW k \in 1..Len(w)
        PROVE  w[k].m = (x \o y)[k]
    <3>1. CASE k <= Len(u)
      BY <1>4, <2>2, <3>1
    <3>2. CASE k > Len(u)
      <4>1. k - Len(u) \in 1..Len(v)
        BY <1>4, <3>2
      <4> QED
        BY <1>4, <2>2, <3>2, <4>1
    <3> QED
      BY <1>4, <3>1, <3>2
  <2> QED
    BY <1>4, <2>2, <2>3
<1> QED
  BY <1>3, <1>5

\* Events of another kind, and those of one kind.
LEMMA MessagesNone ==
  ASSUME NEW b \in Seq(Event), NEW kind, \A i \in 1..Len(b) : b[i].ev # kind
  PROVE  MessagesOf(b, kind) = << >>
<1> DEFINE S == {e \in Event : e.ev # kind}
<1>1. \A i \in 1..Len(b) : b[i] \in S
  OBVIOUS
<1>2. Without(b, S) = << >>
  <2> HIDE DEF S
  <2> QED
    BY <1>1, WithoutAll
<1>3. MessagesOf(b, kind) = [k \in 1..Len(<< >>) |-> << >>[k].m]
  BY <1>2 DEF MessagesOf
<1> QED
  BY <1>3

LEMMA MessagesAll ==
  ASSUME NEW b \in Seq(Event), NEW kind, \A i \in 1..Len(b) : b[i].ev = kind
  PROVE  MessagesOf(b, kind) = [k \in 1..Len(b) |-> b[k].m]
<1> DEFINE S == {e \in Event : e.ev # kind}
<1>1. \A i \in 1..Len(b) : b[i] \notin S
  OBVIOUS
<1>2. Without(b, S) = b
  <2> HIDE DEF S
  <2> QED
    BY <1>1, WithoutNone
<1> QED
  BY <1>2 DEF MessagesOf

LEMMA MessagesOfOne ==
  ASSUME NEW e \in Event, NEW kind
  PROVE  MessagesOf(<<e>>, kind) = IF e.ev = kind THEN <<e.m>> ELSE << >>
<1> DEFINE b == <<e>>
<1>1. b \in Seq(Event) /\ Len(b) = 1 /\ b[1] = e
  OBVIOUS
<1> HIDE DEF b
<1>2. CASE e.ev = kind
  <2>1. MessagesOf(b, kind) = [k \in 1..Len(b) |-> b[k].m]
    <3>1. \A i \in 1..Len(b) : b[i].ev = kind
      BY <1>1, <1>2
    <3> QED
      BY <1>1, <3>1, MessagesAll, Zenon
  <2>2. [k \in 1..1 |-> e.m] = <<e.m>>
    OBVIOUS
  <2>3. [k \in 1..Len(b) |-> b[k].m] = [k \in 1..1 |-> e.m]
    BY <1>1
  <2> QED
    BY <1>2, <2>1, <2>2, <2>3 DEF b
<1>3. CASE e.ev # kind
  <2>1. MessagesOf(b, kind) = << >>
    BY <1>1, <1>3, MessagesNone
  <2> QED
    BY <1>3, <2>1 DEF b
<1> QED
  BY <1>2, <1>3

LEMMA Associative ==
  ASSUME NEW X, NEW a \in Seq(X), NEW b \in Seq(X), NEW c \in Seq(X)
  PROVE  (a \o b) \o c = a \o (b \o c) /\ a \o b \in Seq(X)
  OBVIOUS

LEMMA MessageLists ==
  \A a, b, c \in Seq(Message) :
    (a \o b) \o c = a \o (b \o c) /\ a \o b \in Seq(Message)
  OBVIOUS

\* The queue is its first event and the rest.
LEMMA MessagesHead ==
  ASSUME NEW q \in Seq(Event), q # << >>, NEW kind
  PROVE  /\ Head(q) \in Event /\ Tail(q) \in Seq(Event)
         /\ MessagesOf(q, kind) =
              MessagesOf(<<Head(q)>>, kind) \o MessagesOf(Tail(q), kind)
<1> DEFINE h == <<Head(q)>>
           t == Tail(q)
<1>1. h \in Seq(Event) /\ t \in Seq(Event) /\ q = h \o t /\ Head(q) \in Event
  OBVIOUS
<1> HIDE DEF h, t
<1>2. MessagesOf(h \o t, kind) = MessagesOf(h, kind) \o MessagesOf(t, kind)
  BY <1>1, MessagesConcat
<1> QED
  BY <1>1, <1>2 DEF h, t

LEMMA AppendIsConcat ==
  ASSUME NEW X, NEW a \in Seq(X), NEW x \in X
  PROVE  Append(a, x) = a \o <<x>> /\ <<x>> \in Seq(X)
  OBVIOUS

LEMMA ConservedStep ==
  ASSUME TypeOK, TypeOK', MessagesConserved, [Next]_vars
  PROVE  MessagesConserved'
<1> DEFINE ri == MessagesOf(queue, "INBOUND_RI")
           nw == MessagesOf(queue, "INBOUND_NETWORK")
           h == Head(queue)
           rest == Tail(queue)
           riRest == MessagesOf(rest, "INBOUND_RI")
           nwRest == MessagesOf(rest, "INBOUND_NETWORK")
<1>1. /\ queue \in Seq(Event) /\ queue' \in Seq(Event)
      /\ ri \in Seq(Message) /\ nw \in Seq(Message)
      /\ handled \in Seq(Message) /\ networkEvents \in Seq(Message)
      /\ ((handled \o ri) \o nw) \o networkEvents = arrived
      /\ handled \o ri \in Seq(Message) /\ (handled \o ri) \o nw \in Seq(Message)
  <2>1. /\ queue \in Seq(Event) /\ queue' \in Seq(Event)
        /\ handled \in Seq(Message) /\ networkEvents \in Seq(Message)
        /\ ((handled \o ri) \o nw) \o networkEvents = arrived
    BY DEF TypeOK, MessagesConserved
  <2>2. ri \in Seq(Message) /\ nw \in Seq(Message)
    BY <2>1, MessagesAre DEF MessageEvents
  <2> HIDE DEF ri, nw
  <2> QED
    BY <2>1, <2>2, Associative
<1>2. queue # << >> =>
        /\ h \in Event /\ rest \in Seq(Event)
        /\ riRest \in Seq(Message) /\ nwRest \in Seq(Message)
        /\ ri = MessagesOf(<<h>>, "INBOUND_RI") \o riRest
        /\ nw = MessagesOf(<<h>>, "INBOUND_NETWORK") \o nwRest
  <2>1. queue # << >> =>
          /\ h \in Event /\ rest \in Seq(Event)
          /\ ri = MessagesOf(<<h>>, "INBOUND_RI") \o riRest
          /\ nw = MessagesOf(<<h>>, "INBOUND_NETWORK") \o nwRest
    BY <1>1, MessagesHead
  <2> HIDE DEF h, rest
  <2> QED
    BY <2>1, MessagesAre DEF MessageEvents
<1>3. CASE UNCHANGED <<queue, networkEvents, handled, arrived>>
  BY <1>3 DEF MessagesConserved
<1>4. ASSUME NEW r \in Receiver, AddMessage(r)
      PROVE  MessagesConserved'
  <2> DEFINE m == [from |-> r, n |-> received[r] + 1]
  <2>1. /\ networkEvents' = Append(networkEvents, m)
        /\ arrived' = Append(arrived, m)
        /\ UNCHANGED <<queue, handled>>
    BY <1>4 DEF AddMessage, main
  <2>2. m \in Message
    BY <1>4, LoopAssumption DEF AddMessage, TypeOK, Message
  <2> HIDE DEF m, ri, nw
  <2>3. ((handled \o ri) \o nw) \o Append(networkEvents, m) =
          Append(((handled \o ri) \o nw) \o networkEvents, m)
    <3> DEFINE l == (handled \o ri) \o nw
    <3>1. l \in Seq(Message)
      BY <1>1
    <3> HIDE DEF l
    <3>2. l \o Append(networkEvents, m) = Append(l \o networkEvents, m)
      BY <1>1, <2>2, <3>1, ConcatAppend
    <3> QED
      BY <3>2 DEF l
  <2> QED
    BY <1>1, <2>1, <2>3 DEF MessagesConserved, ri, nw
<1>5. CASE NetworkHandler
  <2> DEFINE posted == [k \in 1..Len(networkEvents) |-> Inbound(networkEvents[k])]
  <2>1. /\ queue' = queue \o posted /\ networkEvents' = << >>
        /\ UNCHANGED <<handled, arrived>>
    BY <1>5 DEF NetworkHandler, receivers
  <2>2. posted \in Seq(Event) /\ Len(posted) = Len(networkEvents)
    BY <1>1, PostedEvents
  <2>3. \A i \in 1..Len(networkEvents) :
          posted[i].ev = "INBOUND_NETWORK" /\ posted[i].m = networkEvents[i]
    BY DEF Inbound
  <2> HIDE DEF posted
  <2>4. /\ MessagesOf(queue', "INBOUND_RI") =
             ri \o MessagesOf(posted, "INBOUND_RI")
        /\ MessagesOf(queue', "INBOUND_NETWORK") =
             nw \o MessagesOf(posted, "INBOUND_NETWORK")
    <3>1. ASSUME NEW kind
          PROVE  MessagesOf(queue \o posted, kind) =
                   MessagesOf(queue, kind) \o MessagesOf(posted, kind)
      BY <1>1, <2>2, MessagesConcat
    <3> QED
      BY <2>1, <3>1
  <2>5. MessagesOf(posted, "INBOUND_RI") = << >>
    <3>1. \A i \in 1..Len(posted) : posted[i].ev # "INBOUND_RI"
      BY <2>2, <2>3
    <3> QED
      BY <2>2, <3>1, MessagesNone
  <2>6. MessagesOf(posted, "INBOUND_NETWORK") = networkEvents
    <3>1. \A i \in 1..Len(posted) : posted[i].ev = "INBOUND_NETWORK"
      BY <2>2, <2>3
    <3>2. MessagesOf(posted, "INBOUND_NETWORK") =
            [k \in 1..Len(posted) |-> posted[k].m]
      BY <2>2, <3>1, MessagesAll
    <3>3. networkEvents = [k \in 1..Len(networkEvents) |-> networkEvents[k]]
      BY <1>1
    <3>4. [k \in 1..Len(posted) |-> posted[k].m] =
            [k \in 1..Len(networkEvents) |-> networkEvents[k]]
      BY <2>2, <2>3
    <3> QED
      BY <3>2, <3>3, <3>4
  <2> HIDE DEF ri, nw
  <2>7. /\ ri \o << >> = ri
        /\ ((handled \o ri) \o nw) \o networkEvents =
             ((handled \o ri) \o (nw \o networkEvents)) \o << >>
    <3> DEFINE l == handled \o ri
               x == l \o (nw \o networkEvents)
    <3>1. l \in Seq(Message)
      BY <1>1
    <3> HIDE DEF l
    <3>2. (l \o nw) \o networkEvents = x /\ nw \o networkEvents \in Seq(Message)
      BY <1>1, <3>1, MessageLists
    <3>3. x \in Seq(Message)
      BY <3>1, <3>2, Associative
    <3> HIDE DEF x
    <3>4. x \o << >> = x /\ ri \o << >> = ri
      BY <1>1, <3>3, ConcatEmpty
    <3> QED
      BY <3>2, <3>4 DEF l, x
  <2> QED
    BY <1>1, <2>1, <2>4, <2>5, <2>6, <2>7 DEF MessagesConserved
<1>6. CASE EtimerHandler
  <2> DEFINE due == {t \in Pending(expiry) : expiry[t] <= clock}
  <2>1. PICK order \in SetToSeqs(due) :
          queue' = queue \o [k \in 1..Len(order) |->
                               [ev |-> "TIMER", t |-> order[k]]]
    BY <1>6, Zenon DEF EtimerHandler
  <2> DEFINE posted == [k \in 1..Len(order) |->
                          [ev |-> "TIMER", t |-> order[k]]]
  <2>2. due \in SUBSET Timer
    BY DEF Pending
  <2>3. posted \in Seq(Event) /\ Len(posted) = Len(order)
    <3> HIDE DEF due
    <3>1. posted \in Seq(Event) /\ order \in Seq(Timer)
      BY <2>1, <2>2, PostedEvents
    <3> QED
      BY <3>1
  <2>4. \A i \in 1..Len(posted) : posted[i].ev = "TIMER"
    BY <2>3
  <2>5. queue' = queue \o posted /\ UNCHANGED <<handled, networkEvents, arrived>>
    BY <1>6, <2>1 DEF EtimerHandler, receivers
  <2> HIDE DEF posted
  <2>6. /\ MessagesOf(queue', "INBOUND_RI") =
             ri \o MessagesOf(posted, "INBOUND_RI")
        /\ MessagesOf(queue', "INBOUND_NETWORK") =
             nw \o MessagesOf(posted, "INBOUND_NETWORK")
    <3>1. ASSUME NEW kind
          PROVE  MessagesOf(queue \o posted, kind) =
                   MessagesOf(queue, kind) \o MessagesOf(posted, kind)
      BY <1>1, <2>3, MessagesConcat
    <3> QED
      BY <2>5, <3>1
  <2>7. /\ MessagesOf(posted, "INBOUND_RI") = << >>
        /\ MessagesOf(posted, "INBOUND_NETWORK") = << >>
    <3>1. ASSUME NEW kind \in MessageEvents
          PROVE  MessagesOf(posted, kind) = << >>
      <4>1. \A i \in 1..Len(posted) : posted[i].ev # kind
        BY <2>4 DEF MessageEvents
      <4> QED
        BY <2>3, <4>1, MessagesNone
    <3> QED
      BY <3>1 DEF MessageEvents
  <2>8. ri \o << >> = ri /\ nw \o << >> = nw
    <3> HIDE DEF ri, nw
    <3> QED
      BY <1>1, ConcatEmpty
  <2> HIDE DEF ri, nw
  <2> QED
    BY <1>1, <2>5, <2>6, <2>7, <2>8 DEF MessagesConserved
<1>7. CASE PassOn
  <2> DEFINE x == [h EXCEPT !.ev = "INBOUND_RI"]
             m == h.m
  <2>1. /\ queue # << >> /\ h.ev = "INBOUND_NETWORK"
        /\ queue' = Append(rest, x)
        /\ UNCHANGED <<handled, networkEvents, arrived>>
    BY <1>7 DEF PassOn, receivers
  <2>2. /\ h \in [ev : {"INBOUND_NETWORK", "INBOUND_RI"}, m : Message]
        /\ m \in Message
    BY <1>2, <2>1, EventIs
  <2>3. x \in Event /\ x.ev = "INBOUND_RI" /\ x.m = m
    <3> HIDE DEF h
    <3>1. /\ x \in [ev : {"INBOUND_NETWORK", "INBOUND_RI"}, m : Message]
          /\ x.ev = "INBOUND_RI" /\ x.m = m
      BY <2>2
    <3> QED
      BY <3>1 DEF Event
  <2> HIDE DEF x, h, rest
  <2>4. queue' = rest \o <<x>> /\ <<x>> \in Seq(Event)
    BY <1>2, <2>1, <2>3, AppendIsConcat
  <2>5. /\ MessagesOf(queue', "INBOUND_RI") =
             riRest \o MessagesOf(<<x>>, "INBOUND_RI")
        /\ MessagesOf(queue', "INBOUND_NETWORK") =
             nwRest \o MessagesOf(<<x>>, "INBOUND_NETWORK")
    BY <1>2, <2>1, <2>4, MessagesConcat
  <2>6. /\ MessagesOf(<<x>>, "INBOUND_RI") = <<m>>
        /\ MessagesOf(<<x>>, "INBOUND_NETWORK") = << >>
        /\ MessagesOf(<<h>>, "INBOUND_RI") = << >>
        /\ MessagesOf(<<h>>, "INBOUND_NETWORK") = <<m>>
    BY <1>2, <2>1, <2>3, MessagesOfOne
  <2> HIDE DEF ri, nw, riRest, nwRest, m
  <2>7. ri = riRest /\ nw = <<m>> \o nwRest
    BY <1>2, <2>1, <2>6, ConcatEmpty
  <2>8. /\ MessagesOf(queue', "INBOUND_RI") = ri \o <<m>>
        /\ MessagesOf(queue', "INBOUND_NETWORK") = nwRest
    BY <1>2, <2>1, <2>5, <2>6, <2>7, ConcatEmpty
  <2>9. (handled \o (ri \o <<m>>)) \o nwRest = (handled \o ri) \o nw
    <3>1. <<m>> \in Seq(Message)
      BY <2>2 DEF m
    <3> DEFINE o == <<m>>
    <3> HIDE DEF o
    <3>2. handled \o (ri \o o) = (handled \o ri) \o o
      BY <1>1, <3>1, Associative DEF o
    <3> DEFINE l == handled \o ri
    <3>3. l \in Seq(Message)
      BY <1>1
    <3> HIDE DEF l
    <3>4. (l \o o) \o nwRest = l \o (o \o nwRest)
      BY <1>2, <2>1, <3>1, <3>3, Associative DEF o
    <3> QED
      BY <2>7, <3>2, <3>4 DEF l, o
  <2> QED
    BY <1>1, <2>1, <2>8, <2>9 DEF MessagesConserved
<1>8. CASE Deliver
  <2> DEFINE m == h.m
  <2>1. /\ queue # << >> /\ h.ev \in {"INBOUND_RI", "TIMER"}
        /\ queue' = rest
        /\ handled' = IF h.ev = "TIMER" THEN handled ELSE Append(handled, m)
        /\ UNCHANGED <<networkEvents, arrived>>
    BY <1>8 DEF Deliver, receivers
  <2> HIDE DEF h, rest
  <2>2. MessagesOf(<<h>>, "INBOUND_NETWORK") = << >>
    BY <1>2, <2>1, MessagesOfOne
  <2>3. nw = nwRest
    <3> HIDE DEF nw, nwRest
    <3> QED
      BY <1>2, <2>1, <2>2, ConcatEmpty
  <2>4. CASE h.ev = "TIMER"
    <3>1. MessagesOf(<<h>>, "INBOUND_RI") = << >>
      BY <1>2, <2>1, <2>4, MessagesOfOne
    <3>2. ri = riRest
      <4> HIDE DEF ri, riRest
      <4> QED
        BY <1>2, <2>1, <3>1, ConcatEmpty
    <3> QED
      BY <1>1, <2>1, <2>3, <2>4, <3>2 DEF MessagesConserved
  <2>5. CASE h.ev = "INBOUND_RI"
    <3>1. MessagesOf(<<h>>, "INBOUND_RI") = <<m>> /\ m \in Message
      BY <1>2, <2>1, <2>5, MessagesOfOne, EventIs
    <3> HIDE DEF m
    <3>2. handled' = handled \o <<m>> /\ <<m>> \in Seq(Message)
      BY <1>1, <2>1, <2>5, <3>1, AppendIsConcat
    <3> DEFINE o == <<m>>
    <3> HIDE DEF o, ri, riRest
    <3>3. (handled \o o) \o riRest = handled \o ri
      <4>1. ri = o \o riRest /\ o \in Seq(Message) /\ riRest \in Seq(Message)
        BY <1>2, <2>1, <3>1, <3>2 DEF o
      <4>2. (handled \o o) \o riRest = handled \o (o \o riRest)
        <5>1. handled \in Seq(Message)
          BY <1>1
        <5> QED
          BY <4>1, <5>1, MessageLists, Zenon
      <4> QED
        BY <4>1, <4>2, Zenon
    <3> HIDE DEF nw, nwRest
    <3>4. handled' = handled \o o /\ MessagesOf(queue', "INBOUND_RI") = riRest
          /\ MessagesOf(queue', "INBOUND_NETWORK") = nw
      BY <2>1, <2>3, <3>2 DEF o, riRest, nwRest
    <3> QED
      BY <1>1, <2>1, <3>3, <3>4 DEF MessagesConserved
  <2> QED
    BY <2>1, <2>4, <2>5
<1>9. CASE UNCHANGED vars
  BY <1>3, <1>9 DEF vars
<1>10. CASE Tick \/ RequestPoll \/ Run \/ SkipNetworkPoll
  BY <1>3, <1>10 DEF Tick, RequestPoll, Run, SkipNetworkPoll, main, receivers
<1>11. CASE \/ TakePoll("network", "poll_network", "network_handler")
            \/ TakePoll("etimer", "poll_etimer", "etimer_handler")
  BY <1>3, <1>11 DEF TakePoll, main, receivers
<1>12. CASE NoEvent \/ Return \/ Sleep \/ WakeSignalled \/ WakeTimeout
  BY <1>3, <1>12
     DEF NoEvent, Return, Sleep, WakeSignalled, WakeTimeout, main, receivers
<1>13. ASSUME NEW r \in Receiver,
              SetNeedspoll(r) \/ SetPollRequested(r) \/ Signal(r)
       PROVE  MessagesConserved'
  BY <1>3, <1>13 DEF SetNeedspoll, SetPollRequested, Signal, main
<1> QED
  BY <1>4, <1>5, <1>6, <1>7, <1>8, <1>9, <1>10, <1>11, <1>12, <1>13
     DEF Next, MainStep, DoPoll, ReceiverStep

\* However receivers, polls and timers interleave, oc_network_receive_event,
\* oc_process_network_event and the two deliveries of the event queue lose,
\* repeat and reorder no message, for any number of receivers and messages.
THEOREM HandOverConserves == Spec => []MessagesConserved
<1>1. Init => MessagesConserved
  <2> SUFFICES ASSUME Init
               PROVE  MessagesConserved
    OBVIOUS
  <2>1. /\ queue \in Seq(Event) /\ Len(queue) = 0
        /\ handled = << >> /\ networkEvents = << >> /\ arrived = << >>
    BY DEF Init
  <2>2. \A kind \in MessageEvents : MessagesOf(queue, kind) = << >>
    <3>1. ASSUME NEW kind
          PROVE  MessagesOf(queue, kind) = << >>
      <4>1. \A i \in 1..Len(queue) : queue[i].ev # kind
        BY <2>1
      <4> QED
        BY <2>1, <4>1, MessagesNone
    <3> QED
      BY <3>1
  <2>3. << >> \o << >> = << >>
    OBVIOUS
  <2> QED
    BY <2>1, <2>2, <2>3 DEF MessagesConserved, MessageEvents
<1>2. TypeOK /\ TypeOK' /\ MessagesConserved /\ [Next]_vars => MessagesConserved'
  BY ConservedStep
<1> QED
  BY <1>1, <1>2, MainLoopTypeCorrect, PTL DEF Spec
=============================================================================
