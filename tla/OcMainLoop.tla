----------------------------- MODULE OcMainLoop ------------------------------
(***************************************************************************)
(* How the threads that receive from the network hand messages to the main *)
(* loop, how the main loop decides to sleep, and what wakes it:            *)
(* oc_network_receive_event and oc_process_network_event of                *)
(* api/oc_network_events.c, oc_process_poll, do_poll and oc_process_run of *)
(* util/oc_process.c, oc_main_poll_v1 of api/oc_main.c, the event timers   *)
(* of util/oc_etimer.c, and the loop around them.                          *)
(*                                                                         *)
(* Two loops of the repository are modelled: port/common/oc_poll_loop.c,   *)
(* which sleeps on an eventfd, and the loop with a mutex and a condition   *)
(* variable of the applications and tests, which either asks               *)
(* oc_main_needs_poll before it sleeps or does not.                        *)
(*                                                                         *)
(* Steps are as fine as the shared state: the list of messages is only     *)
(* touched under a mutex, the flags needspoll and g_poll_requested are     *)
(* atomics that are read and written one at a time.  The event queue, the  *)
(* timers and g_next_expiration belong to the main thread.                 *)
(***************************************************************************)
EXTENDS OcList, SequencesExt, FiniteSetsExt

CONSTANTS
  Receiver,      \* the receiving threads of the port
  MaxMessages,   \* bound: messages each of them receives
  Timer,         \* the event timers
  Interval,      \* the intervals timers are set to
  MaxTime,       \* bound: the clock stops here
  Loops          \* the kinds of loop: eventfd, condvar, condvar_unchecked

ASSUME LoopAssumption ==
  /\ MaxMessages \in Nat
  /\ IsFiniteSet(Timer)
  /\ Interval \subseteq Nat \ {0}
  /\ MaxTime \in Nat \ {0}
  /\ Loops \subseteq {"eventfd", "condvar", "condvar_unchecked"}

Message == [from : Receiver, n : 1..MaxMessages]
Event   == [ev : {"INBOUND_NETWORK", "INBOUND_RI"}, m : Message]
             \cup [ev : {"TIMER"}, t : Timer]

VARIABLES
  loop,             \* the kind of loop this program runs
  networkEvents,    \* g_network_events
  needspoll,        \* of oc_network_events and oc_etimer_process
  pollRequested,    \* g_poll_requested
  queue,            \* the event queue of oc_process.c
  expiry,           \* when each timer in g_timerlist expires; 0: not in it
  nextExpiration,   \* g_next_expiration
  clock,            \* the monotonic clock
  nextEvent,        \* next_event_mt of oc_main_poll_v1 and its caller
  pc,               \* where the main thread is
  signals,          \* the counter of the eventfd
  rpc,              \* where each receiver is in oc_network_receive_event
  received,         \* messages received so far by each receiver
  arrived,          \* history: messages in the order they entered the list
  handled           \* history: messages in the order the CoAP engine got them

vars == <<loop, networkEvents, needspoll, pollRequested, queue, expiry,
          nextExpiration, clock, nextEvent, pc, signals, rpc, received,
          arrived, handled>>

main      == <<queue, expiry, nextExpiration, nextEvent, handled>>
receivers == <<rpc, received, arrived>>

Init ==
  /\ loop \in Loops
  /\ networkEvents = << >>
  /\ needspoll = [network |-> FALSE, etimer |-> FALSE]
  /\ pollRequested = FALSE
  /\ queue = << >>
  /\ expiry = [t \in Timer |-> 0]
  /\ nextExpiration = 0
  /\ clock = 1
  /\ nextEvent = 0
  /\ pc = "request_poll"
  /\ signals = 0
  /\ rpc = [r \in Receiver |-> "recv"]
  /\ received = [r \in Receiver |-> 0]
  /\ arrived = << >>
  /\ handled = << >>

-----------------------------------------------------------------------------
(* A receiving thread: oc_network_receive_event. *)

ReceiverAt(r, from, to) == rpc[r] = from /\ rpc' = [rpc EXCEPT ![r] = to]

AddMessage(r) ==
  /\ ReceiverAt(r, "recv", "needspoll")
  /\ received[r] < MaxMessages
  /\ received' = [received EXCEPT ![r] = @ + 1]
  /\ LET m == [from |-> r, n |-> received[r] + 1]
     IN /\ networkEvents' = Append(networkEvents, m)
        /\ arrived' = Append(arrived, m)
  /\ UNCHANGED <<loop, main, needspoll, pollRequested, clock, pc, signals>>

\* Mutation: the process is not marked, as when do_poll took the mark away
\* only after the handler had returned.
SetNeedspollLost(r) ==
  /\ ReceiverAt(r, "needspoll", "poll_requested")
  /\ UNCHANGED <<loop, main, networkEvents, needspoll, pollRequested, clock,
                 pc, signals, received, arrived>>

\* oc_process_poll, the two stores.
SetNeedspoll(r) ==
  /\ ReceiverAt(r, "needspoll", "poll_requested")
  /\ needspoll' = [needspoll EXCEPT !.network = TRUE]
  /\ UNCHANGED <<loop, main, networkEvents, pollRequested, clock, pc, signals,
                 received, arrived>>

SetPollRequested(r) ==
  /\ ReceiverAt(r, "poll_requested", "signal")
  /\ pollRequested' = TRUE
  /\ UNCHANGED <<loop, main, networkEvents, needspoll, clock, pc, signals,
                 received, arrived>>

\* _oc_signal_event_loop: a write to the eventfd, or a signal to the
\* condition variable, lost unless the main thread is waiting on it.
Signal(r) ==
  /\ ReceiverAt(r, "signal", "recv")
  /\ IF loop = "eventfd"
     THEN signals' = signals + 1 /\ pc' = pc
     ELSE /\ pc' = IF pc = "wait" THEN "request_poll" ELSE pc
          /\ signals' = signals
  /\ UNCHANGED <<loop, main, networkEvents, needspoll, pollRequested, clock,
                 received, arrived>>

-----------------------------------------------------------------------------
(* Event timers. *)

Pending(ex) == {t \in Timer : ex[t] # 0}

\* etimer_update_time.
UpdatedTime(ex) ==
  IF Pending(ex) = {} THEN 0
  ELSE LET first == Min({ex[t] : t \in Pending(ex)})
       IN IF first <= clock THEN clock ELSE first

\* Mutation: a new timer does not ask for a poll.
SetTimerUnannounced(t, i) ==
  /\ clock + i <= MaxTime
  /\ expiry' = [expiry EXCEPT ![t] = clock + i]
  /\ nextExpiration' = UpdatedTime(expiry')
  /\ UNCHANGED <<needspoll, pollRequested>>

\* oc_etimer_set.
SetTimer(t, i) ==
  /\ clock + i <= MaxTime
  /\ expiry' = [expiry EXCEPT ![t] = clock + i]
  /\ nextExpiration' = UpdatedTime(expiry')
  /\ needspoll' = [needspoll EXCEPT !.etimer = TRUE]
  /\ pollRequested' = TRUE

\* Mutation: the time of the next expiry is not computed again.
StopTimerKeepsTime(t) ==
  /\ expiry[t] # 0
  /\ expiry' = [expiry EXCEPT ![t] = 0]
  /\ UNCHANGED <<nextExpiration, needspoll, pollRequested>>

\* oc_etimer_stop.
StopTimer(t) ==
  /\ expiry[t] # 0
  /\ expiry' = [expiry EXCEPT ![t] = 0]
  /\ nextExpiration' = UpdatedTime(expiry')
  /\ UNCHANGED <<needspoll, pollRequested>>

-----------------------------------------------------------------------------
(* oc_main_poll_v1 and oc_process_run. *)

\* oc_etimer_request_poll.
RequestPoll ==
  /\ pc = "request_poll"
  /\ needspoll' = [needspoll EXCEPT !.etimer = TRUE]
  /\ pollRequested' = TRUE
  /\ nextEvent' = IF Pending(expiry) = {} THEN 0 ELSE nextExpiration
  /\ pc' = "run"
  /\ UNCHANGED <<loop, receivers, networkEvents, queue, expiry, nextExpiration,
                 clock, signals, handled>>

\* oc_process_run: do_poll if a poll was requested.
Run ==
  /\ pc = "run"
  /\ pollRequested' = FALSE
  /\ pc' = IF pollRequested THEN "poll_network" ELSE "event"
  /\ UNCHANGED <<loop, main, receivers, networkEvents, needspoll, clock,
                 signals>>

\* do_poll, a process that was not marked is not called.  (The etimer process
\* is always marked: RequestPoll does it, and only do_poll takes the mark.)
SkipNetworkPoll ==
  /\ pc = "poll_network"
  /\ ~needspoll.network
  /\ pc' = "poll_etimer"
  /\ UNCHANGED <<loop, main, receivers, networkEvents, needspoll,
                 pollRequested, clock, signals>>

\* do_poll: the compare-and-swap that takes the mark.
TakePoll(p, at, handler) ==
  /\ pc = at
  /\ needspoll[p]
  /\ needspoll' = [needspoll EXCEPT ![p] = FALSE]
  /\ pc' = handler
  /\ UNCHANGED <<loop, main, receivers, networkEvents, pollRequested, clock,
                 signals>>

Inbound(m) == [ev |-> "INBOUND_NETWORK", m |-> m]

\* Mutation: the list is copied, but not emptied.
NetworkHandlerKeepsList ==
  /\ pc = "network_handler"
  /\ queue' = queue \o [k \in 1..Len(networkEvents) |-> Inbound(networkEvents[k])]
  /\ pc' = "poll_etimer"
  /\ UNCHANGED <<loop, receivers, networkEvents, needspoll, pollRequested,
                 expiry, nextExpiration, clock, nextEvent, signals, handled>>

\* oc_process_network_event: take the whole list, post every message.
NetworkHandler ==
  /\ pc = "network_handler"
  /\ networkEvents' = << >>
  /\ queue' = queue \o [k \in 1..Len(networkEvents) |-> Inbound(networkEvents[k])]
  /\ pc' = "poll_etimer"
  /\ UNCHANGED <<loop, receivers, needspoll, pollRequested, expiry,
                 nextExpiration, clock, nextEvent, signals, handled>>

\* oc_etimer_process: etimer_process_poll until no timer is left that has
\* expired, in an order that depends on when the timers were set.
EtimerHandler ==
  /\ pc = "etimer_handler"
  /\ LET due == {t \in Pending(expiry) : expiry[t] <= clock}
     IN \E order \in SetToSeqs(due) :
          /\ queue' = queue \o [k \in 1..Len(order) |->
                                  [ev |-> "TIMER", t |-> order[k]]]
          /\ expiry' = [t \in Timer |-> IF t \in due THEN 0 ELSE expiry[t]]
          /\ nextExpiration' = IF due = {} THEN nextExpiration
                               ELSE UpdatedTime(expiry')
  /\ pc' = "event"
  /\ UNCHANGED <<loop, receivers, networkEvents, needspoll, pollRequested,
                 clock, nextEvent, signals, handled>>

\* do_event with nothing to deliver.
NoEvent ==
  /\ pc = "event"
  /\ queue = << >>
  /\ pc' = "return"
  /\ UNCHANGED <<loop, main, receivers, networkEvents, needspoll,
                 pollRequested, clock, signals>>

\* do_event: handle_inbound_network_event passes the message on.
PassOn ==
  /\ pc = "event"
  /\ queue # << >>
  /\ Head(queue).ev = "INBOUND_NETWORK"
  /\ queue' = Append(Tail(queue), [Head(queue) EXCEPT !.ev = "INBOUND_RI"])
  /\ pc' = "return"
  /\ UNCHANGED <<loop, receivers, networkEvents, needspoll, pollRequested,
                 expiry, nextExpiration, clock, nextEvent, signals, handled>>

\* do_event: the CoAP engine gets a message, or a timer's owner its event.
\* Either may set or stop a timer.
Deliver ==
  /\ pc = "event"
  /\ queue # << >>
  /\ Head(queue).ev \in {"INBOUND_RI", "TIMER"}
  /\ queue' = Tail(queue)
  /\ handled' = IF Head(queue).ev = "TIMER" THEN handled
                ELSE Append(handled, Head(queue).m)
  /\ \/ UNCHANGED <<needspoll, pollRequested, expiry, nextExpiration>>
     \/ \E t \in Timer : StopTimer(t) \/ \E i \in Interval : SetTimer(t, i)
  /\ pc' = "return"
  /\ UNCHANGED <<loop, receivers, networkEvents, clock, nextEvent, signals>>

\* Mutation: oc_process_run does not count the events that are left.
ReturnIgnoringEvents ==
  /\ pc = "return"
  /\ pc' = IF pollRequested THEN "request_poll" ELSE "loop"
  /\ UNCHANGED <<loop, main, receivers, networkEvents, needspoll,
                 pollRequested, clock, signals>>

\* oc_main_poll_v1 goes on while there are events or a poll is requested.
Return ==
  /\ pc = "return"
  /\ pc' = IF queue # << >> \/ pollRequested THEN "request_poll" ELSE "loop"
  /\ UNCHANGED <<loop, main, receivers, networkEvents, needspoll,
                 pollRequested, clock, signals>>

-----------------------------------------------------------------------------
(* The loop around oc_main_poll_v1. *)

\* With the mutex held nobody can signal between the test and the wait.
Sleep ==
  /\ pc = "loop"
  /\ pc' = IF \/ loop = "condvar" /\ pollRequested
              \/ loop = "eventfd" /\ nextEvent # 0 /\ clock >= nextEvent
           THEN "request_poll" ELSE "wait"
  /\ UNCHANGED <<loop, main, receivers, networkEvents, needspoll,
                 pollRequested, clock, signals>>

\* The eventfd is readable; the read takes one from its counter.
WakeSignalled ==
  /\ pc = "wait"
  /\ signals > 0
  /\ signals' = signals - 1
  /\ pc' = "request_poll"
  /\ UNCHANGED <<loop, main, receivers, networkEvents, needspoll,
                 pollRequested, clock>>

\* Mutation: the wait starts over when it has timed out.
WakeTimeoutRetries ==
  /\ pc = "wait"
  /\ nextEvent # 0
  /\ clock >= nextEvent
  /\ UNCHANGED vars

\* The timed wait is over.
WakeTimeout ==
  /\ pc = "wait"
  /\ nextEvent # 0
  /\ clock >= nextEvent
  /\ pc' = "request_poll"
  /\ UNCHANGED <<loop, main, receivers, networkEvents, needspoll,
                 pollRequested, clock, signals>>

Tick ==
  /\ clock < MaxTime
  /\ clock' = clock + 1
  /\ UNCHANGED <<loop, main, receivers, networkEvents, needspoll,
                 pollRequested, pc, signals>>

-----------------------------------------------------------------------------
ReceiverStep(r) ==
  AddMessage(r) \/ SetNeedspoll(r) \/ SetPollRequested(r) \/ Signal(r)

DoPoll ==
  \/ SkipNetworkPoll
  \/ TakePoll("network", "poll_network", "network_handler")
  \/ TakePoll("etimer", "poll_etimer", "etimer_handler")
  \/ NetworkHandler
  \/ EtimerHandler

MainStep ==
  \/ RequestPoll \/ Run \/ DoPoll
  \/ NoEvent \/ PassOn \/ Deliver \/ Return
  \/ Sleep \/ WakeSignalled \/ WakeTimeout

Next == Tick \/ MainStep \/ \E r \in Receiver : ReceiverStep(r)

Spec == Init /\ [][Next]_vars

\* Every thread runs.  Time need not pass.
FairSpec ==
  /\ Spec
  /\ WF_vars(MainStep)
  /\ \A r \in Receiver :
       WF_vars(SetNeedspoll(r) \/ SetPollRequested(r) \/ Signal(r))

\* Time passes as well.
TimedSpec == FairSpec /\ WF_vars(Tick)

-----------------------------------------------------------------------------
(* Properties *)

\* Types, and that g_next_expiration is a time exactly while there are timers in
\* g_timerlist, though they are set, stopped and expire in turn.
TypeOK ==
  /\ loop \in Loops
  /\ networkEvents \in Seq(Message)
  /\ needspoll \in [network : BOOLEAN, etimer : BOOLEAN]
  /\ pollRequested \in BOOLEAN
  /\ queue \in Seq(Event)
  /\ expiry \in [Timer -> 0..MaxTime]
  /\ nextExpiration \in 0..MaxTime
  /\ clock \in 1..MaxTime
  /\ nextEvent \in 0..MaxTime
  /\ pc \in {"request_poll", "run", "poll_network", "network_handler",
             "poll_etimer", "etimer_handler", "event", "return", "loop", "wait"}
  /\ signals \in Nat
  /\ rpc \in [Receiver -> {"recv", "needspoll", "poll_requested", "signal"}]
  /\ received \in [Receiver -> 0..MaxMessages]
  /\ arrived \in Seq(Message)
  /\ handled \in Seq(Message)
  /\ nextExpiration = 0 <=> Pending(expiry) = {}

\* No lost wake-up: the main thread is not left asleep while a message waits
\* in the list, unless a receiver is still on its way to signal it.
NoLostWakeup ==
  (pc = "wait" /\ signals = 0 /\ networkEvents # << >>) =>
    \E r \in Receiver : rpc[r] # "recv"

\* The value of oc_main_poll_v1 was computed before the last events were
\* handled; still the main thread never sleeps past the expiry of a timer,
\* nor without a limit while a timer is set.
NoOversleep ==
  (pc = "wait" /\ Pending(expiry) # {}) =>
    /\ nextEvent # 0
    /\ \A t \in Pending(expiry) : nextEvent <= expiry[t] \/ nextEvent <= clock

\* The messages that the events of one kind carry, in their order.
MessagesOf(events, kind) ==
  LET its == Without(events, {e \in Event : e.ev # kind})
  IN [k \in 1..Len(its) |-> its[k].m]

\* The hand-over neither loses, duplicates nor reorders messages: what the
\* engine got, what is in the event queue (messages that were passed on are
\* ahead of those that were not) and what is in the list make up what came.
MessagesConserved ==
  handled \o MessagesOf(queue, "INBOUND_RI")
    \o MessagesOf(queue, "INBOUND_NETWORK") \o networkEvents = arrived

\* Every message that a receiver puts into the list reaches the CoAP engine,
\* even if no timer ever wakes the main loop.
MessagesAreHandled ==
  \A k \in 1..(Cardinality(Receiver) * MaxMessages) :
    (Len(arrived) >= k) ~> (Len(handled) >= k)

\* A timer that is set expires and is announced, or is stopped.
TimersFire == \A t \in Timer : (expiry[t] # 0) ~> (expiry[t] = 0)
=============================================================================
