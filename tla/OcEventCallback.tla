--------------------------- MODULE OcEventCallback ---------------------------
(***************************************************************************)
(* Delayed callbacks and periodic observe callbacks: api/oc_event_         *)
(* callback.c, with the event timers of util/oc_etimer.c it arms and the   *)
(* TIMER events that announce their expiry.                                *)
(*                                                                         *)
(* Everything runs on the thread of the main loop.  What makes it hard is  *)
(* re-entrancy: while event_callbacks_poll_timers has a callback running,  *)
(* that callback may add and remove callbacks, itself included.  So the    *)
(* walk over the lists is a sequence of actions, and the operations of the *)
(* application are enabled both between events (pc.at = "idle") and while  *)
(* a callback runs (pc.at = "callback").                                   *)
(*                                                                         *)
(* Time is abstracted: an armed timer may expire whenever the etimer       *)
(* process gets to run.  A callback function handed to a removal as        *)
(* on_delete only releases its context, as oc_ri.h asks of it.             *)
(***************************************************************************)
EXTENDS Naturals, Sequences, SequencesExt, OcList

CONSTANTS
  Slot,            \* the memory blocks of g_event_callbacks_s
  Trigger,         \* the callback functions
  Context,         \* the data pointers handed to them
  Resource,        \* the resources observed periodically
  Periodic,        \* periodic_observe_callback_handler
  Null,            \* a NULL pointer; also the content of a free block
  Api,             \* the operations the application uses
  MatchAll,        \* the values of match_all it passes
  MaxTimerEvents   \* bound: TIMER events counted in the event queue

Key == [cb : Trigger, data : Context] \cup [cb : {Periodic}, data : Resource]

ASSUME CallbackAssumption ==
  /\ Api \subseteq {"add", "remove", "filter", "reset", "observe"}
  /\ MatchAll \subseteq BOOLEAN
  /\ MaxTimerEvents \in Nat \ {0}
  /\ Null \notin Slot \cup Key
  /\ Periodic \notin Trigger

VARIABLES
  timed,         \* g_timed_callbacks
  observed,      \* g_observe_callbacks
  cell,          \* the callback and data in each block, or Null
  pending,       \* the blocks whose timer is in g_timerlist; not there: expired
  timerEvents,   \* TIMER events waiting for oc_timed_callback_events
  pc,            \* where event_callbacks_check is
  current,       \* g_currently_processed_event_cb
  deleteFlag,    \* g_currently_processed_event_cb_delete
  onDelete       \* is g_currently_processed_event_on_delete set?

\* History: what was asked for, to state the properties.
VARIABLES
  cancelled,     \* blocks a removal of one callback has selected
  ran            \* blocks invoked by the running event_callbacks_check

code    == <<timed, observed, cell, pending, timerEvents, pc, current,
             deleteFlag, onDelete>>
history == <<cancelled, ran>>
vars    == <<code, history>>

Free   == {s \in Slot : cell[s] = Null}
Listed == ToSet(timed) \cup ToSet(observed)

\* oc_event_callbacks_init.
Init ==
  /\ timed = << >> /\ observed = << >>
  /\ cell = [s \in Slot |-> Null]
  /\ pending = {}
  /\ timerEvents = 0
  /\ pc = [at |-> "idle", list |-> "observed"]
  /\ current = Null /\ deleteFlag = FALSE /\ onDelete = FALSE
  /\ cancelled = {} /\ ran = {}

\* Code of the application, or of the rest of the stack, is running.
UserCode == pc.at \in {"idle", "callback"}

\* The blocks in S are returned to the pool; what was asked about them ends.
Forget(S) ==
  /\ cancelled' = cancelled \ S
  /\ ran' = ran \ S

-----------------------------------------------------------------------------
(* The operations of the application. *)

\* oc_ri_add_timed_event_callback_ticks.  With no free block it only warns.
Add(k) ==
  /\ UserCode
  /\ \E s \in Free :
       /\ cell' = [cell EXCEPT ![s] = k]
       /\ timed' = Append(timed, s)
       /\ pending' = pending \cup {s}
  /\ UNCHANGED <<observed, timerEvents, pc, current, deleteFlag, onDelete,
                 history>>

\* Is the callback that is running the last one the removal has matched?
Flagged(hits) == hits # << >> /\ Last(hits) = current

\* The matches of a removal, in list order: all of them, or the first.
Hits(cb, S, all) ==
  LET other == {s \in ToSet(timed) : cell[s].cb # cb \/ cell[s].data \notin S}
      found == Without(timed, other)
  IN IF all \/ found = << >> THEN found ELSE <<Head(found)>>

\* Mutation: the callback that is running is released like any other.
GoneWithCurrent(hits) == ToSet(hits)

\* The matches a removal releases at once.
Gone(hits) == ToSet(hits) \ {current}

\* The callback that is running cannot be released; if it was the last match
\* it is flagged for event_callbacks_poll_timers to release.
FlagCurrent(hits, all, withOnDelete) ==
  LET kept == ToSet(hits) \cap {current}
  IN /\ deleteFlag' = (Flagged(hits) \/ deleteFlag)
     /\ onDelete' = IF Flagged(hits) THEN withOnDelete ELSE onDelete
     /\ cancelled' = (IF all THEN cancelled ELSE cancelled \cup kept) \ Gone(hits)
     /\ ran' = ran \ Gone(hits)

\* oc_ri_remove_timed_event_callback_by_filter: the matches are stopped,
\* unlinked and freed, and on_delete is called for each of them.
RemoveByFilter(cb, S, all, withOnDelete) ==
  LET hits == Hits(cb, S, all)
  IN /\ UserCode
     /\ timed' = Without(timed, Gone(hits))
     /\ pending' = pending \ Gone(hits)
     /\ cell' = [s \in Slot |-> IF s \in Gone(hits) THEN Null ELSE cell[s]]
     /\ FlagCurrent(hits, all, withOnDelete)
     /\ UNCHANGED <<observed, timerEvents, pc, current>>

\* oc_ri_remove_timed_event_callback.
RemoveOne(k) == RemoveByFilter(k.cb, {k.data}, FALSE, FALSE)

\* oc_reset_delayed_callback: remove the callback if it exists, add it again.
Reset(k) ==
  LET hits == Hits(k.cb, {k.data}, FALSE)
  IN /\ UserCode
     /\ \E s \in Free \cup Gone(hits) :
          /\ timed' = Append(Without(timed, Gone(hits)), s)
          /\ pending' = (pending \ Gone(hits)) \cup {s}
          /\ cell' = [x \in Slot |-> IF x = s THEN k
                                     ELSE IF x \in Gone(hits) THEN Null
                                     ELSE cell[x]]
     /\ FlagCurrent(hits, FALSE, FALSE)
     /\ UNCHANGED <<observed, timerEvents, pc, current>>

\* The same with no block left for the new callback.
ResetNoMemory(k) ==
  LET hits == Hits(k.cb, {k.data}, FALSE)
  IN /\ UserCode
     /\ Free \cup Gone(hits) = {}
     /\ FlagCurrent(hits, FALSE, FALSE)
     /\ UNCHANGED <<timed, observed, cell, pending, timerEvents, pc, current>>

PeriodicOf(r) == {s \in ToSet(observed) : cell[s].data = r}

\* oc_periodic_observe_callback_add and _remove, which the handling of a
\* request calls; requests are events of their own.
ObserveAdd(r) ==
  /\ pc.at = "idle"
  /\ PeriodicOf(r) = {}
  /\ \E s \in Free :
       /\ cell' = [cell EXCEPT ![s] = [cb |-> Periodic, data |-> r]]
       /\ observed' = Append(observed, s)
       /\ pending' = pending \cup {s}
  /\ UNCHANGED <<timed, timerEvents, pc, current, deleteFlag, onDelete,
                 history>>

ObserveRemove(r) ==
  /\ pc.at = "idle"
  /\ PeriodicOf(r) # {}
  /\ LET s == CHOOSE x \in PeriodicOf(r) : TRUE
     IN /\ observed' = Without(observed, {s})
        /\ pending' = pending \ {s}
        /\ cell' = [cell EXCEPT ![s] = Null]
        /\ Forget({s})
  /\ UNCHANGED <<timed, timerEvents, pc, current, deleteFlag, onDelete>>

\* oc_event_callbacks_shutdown, outside of any callback.
Shutdown ==
  /\ pc.at = "idle"
  /\ Listed # {}
  /\ timed' = << >> /\ observed' = << >>
  /\ pending' = pending \ Listed
  /\ cell' = [s \in Slot |-> IF s \in Listed THEN Null ELSE cell[s]]
  /\ Forget(Listed)
  /\ UNCHANGED <<timerEvents, pc, current, deleteFlag, onDelete>>

-----------------------------------------------------------------------------
(* Timers and events. *)

\* Mutation: the timer is marked expired before the event is posted, and the
\* post is lost.
TimerExpiresSilently(s) ==
  /\ pc.at = "idle"
  /\ s \in pending
  /\ pending' = pending \ {s}
  /\ UNCHANGED <<timed, observed, cell, timerEvents, pc, current, deleteFlag,
                 onDelete, history>>

\* etimer_process_poll: the TIMER event is posted, the timer leaves
\* g_timerlist.  (When a queue of fixed size is full the timer stays, and the
\* poll is repeated: the action is taken later.)  TIMER events above the
\* bound are not counted: each one makes the process look at every callback.
TimerExpires(s) ==
  /\ pc.at = "idle"
  /\ s \in pending
  /\ pending' = pending \ {s}
  /\ timerEvents' = IF timerEvents < MaxTimerEvents THEN timerEvents + 1
                    ELSE timerEvents
  /\ UNCHANGED <<timed, observed, cell, pc, current, deleteFlag, onDelete,
                 history>>

\* do_event delivers a TIMER event: event_callbacks_check starts.
TimerEvent ==
  /\ pc.at = "idle"
  /\ timerEvents > 0
  /\ timerEvents' = timerEvents - 1
  /\ pc' = [at |-> "loop", list |-> "observed"]
  /\ ran' = {}
  /\ UNCHANGED <<timed, observed, cell, pending, current, deleteFlag, onDelete,
                 cancelled>>

-----------------------------------------------------------------------------
(* event_callbacks_poll_timers, first for g_observe_callbacks, then for      *)
(* g_timed_callbacks.  After every callback it starts over at the head.      *)

List == IF pc.list = "observed" THEN observed ELSE timed

\* oc_etimer_expired for each callback of the list, in list order.
Expired == Without(List, pending)

Invoke ==
  /\ pc.at = "loop"
  /\ Expired # << >>
  /\ current' = Head(Expired)
  /\ deleteFlag' = FALSE
  /\ onDelete' = FALSE
  /\ pc' = [pc EXCEPT !.at = "callback"]
  /\ ran' = ran \cup {Head(Expired)}
  /\ UNCHANGED <<timed, observed, cell, pending, timerEvents, cancelled>>

\* Mutation: a request to delete the running callback is not looked at.
IsDoneIgnoringFlag(ret) == ret = "DONE"

IsDone(ret) == ret = "DONE" \/ deleteFlag

\* Mutation: a continuing callback is not armed again.
ReturnContinueUnarmed ==
  /\ pc.at = "callback"
  /\ ~IsDone("CONTINUE")
  /\ pc' = [pc EXCEPT !.at = "loop"]
  /\ UNCHANGED <<timed, observed, cell, pending, timerEvents, current,
                 deleteFlag, onDelete, history>>

\* The callback returns OC_EVENT_CONTINUE and is armed again.
ReturnContinue ==
  /\ pc.at = "callback"
  /\ ~IsDone("CONTINUE")
  /\ pending' = pending \cup {current}
  /\ pc' = [pc EXCEPT !.at = "loop"]
  /\ UNCHANGED <<timed, observed, cell, timerEvents, current, deleteFlag,
                 onDelete, history>>

\* It returns OC_EVENT_DONE, or its removal was requested: it is freed.
ReturnDone(ret) ==
  /\ pc.at = "callback"
  /\ IsDone(ret)
  /\ timed' = Without(timed, IF pc.list = "timed" THEN {current} ELSE {})
  /\ observed' = Without(observed, IF pc.list = "timed" THEN {} ELSE {current})
  /\ cell' = [cell EXCEPT ![current] = Null]
  /\ pc' = [pc EXCEPT !.at = "loop"]
  /\ Forget({current})
  /\ UNCHANGED <<pending, timerEvents, current, deleteFlag, onDelete>>

\* No callback of the list has expired.
LoopEnd ==
  /\ pc.at = "loop"
  /\ Expired = << >>
  /\ current' = Null
  /\ deleteFlag' = FALSE
  /\ onDelete' = FALSE
  /\ pc' = IF pc.list = "observed" THEN [at |-> "loop", list |-> "timed"]
           ELSE [at |-> "idle", list |-> "observed"]
  /\ UNCHANGED <<timed, observed, cell, pending, timerEvents, history>>

-----------------------------------------------------------------------------
Application ==
  \/ \E k \in [cb : Trigger, data : Context] :
       \/ "add" \in Api /\ Add(k)
       \/ "remove" \in Api /\ RemoveOne(k)
       \/ "reset" \in Api /\ (Reset(k) \/ ResetNoMemory(k))
  \/ /\ "filter" \in Api
     /\ \E cb \in Trigger, S \in SUBSET Context, all \in MatchAll,
           withOnDelete \in BOOLEAN : RemoveByFilter(cb, S, all, withOnDelete)
  \/ /\ "observe" \in Api
     /\ \E r \in Resource : ObserveAdd(r) \/ ObserveRemove(r)
  \/ Shutdown

Check == Invoke \/ ReturnContinue \/ ReturnDone("DONE")
           \/ ReturnDone("CONTINUE") \/ LoopEnd

Next ==
  \/ Application
  \/ \E s \in Slot : TimerExpires(s)
  \/ TimerEvent
  \/ Check

Spec == Init /\ [][Next]_vars

\* Callbacks return, the main loop keeps running, and time passes: before
\* each event oc_process_run polls the etimer process, which finds every
\* timer that is due.
FairSpec ==
  /\ Spec
  /\ WF_vars(Check)
  /\ WF_vars(TimerEvent)
  /\ \A s \in Slot : SF_vars(TimerExpires(s))

-----------------------------------------------------------------------------
(* Properties *)

\* The variables have their types.
TypeOK ==
  /\ timed \in Seq(Slot) /\ observed \in Seq(Slot)
  /\ cell \in [Slot -> Key \cup {Null}]
  /\ pending \subseteq Slot
  /\ timerEvents \in 0..MaxTimerEvents
  /\ pc \in [at : {"idle", "loop", "callback"}, list : {"observed", "timed"}]
  /\ current \in Slot \cup {Null}
  /\ deleteFlag \in BOOLEAN /\ onDelete \in BOOLEAN
  /\ cancelled \subseteq Slot
  /\ ran \subseteq Slot

\* Memory safety under re-entrancy: the two lists hold each allocated block
\* exactly once and no freed one, no timer of a freed block stays armed in
\* g_timerlist, and while a callback runs its own block is allocated, in the
\* list that is walked, and not armed.
BlocksAreSound ==
  /\ TypeOK
  /\ IsInjective(timed \o observed)
  /\ Listed = Slot \ Free
  /\ pending \subseteq Listed
  /\ pc.at = "callback" => current \in ToSet(List) \ pending

\* No expiry is lost: while no check is running, a callback whose timer has
\* expired has a TIMER event on its way, whatever callbacks were added,
\* removed or re-armed since that event was posted.
ExpiredIsAnnounced ==
  (pc.at = "idle" /\ Listed \ pending # {}) => timerEvents > 0

\* Within one check no callback is invoked twice: re-arming and restarting
\* the walk at the head of the list cannot make the loop spin.
OncePerCheck ==
  [][\A s \in Slot : (Invoke /\ current' = s) => s \notin ran]_vars

\* A callback removed by oc_ri_remove_timed_event_callback is not invoked
\* afterwards, even when it was itself running when it was removed and
\* returned OC_EVENT_CONTINUE.
CancelledNeverRuns ==
  [][\A s \in Slot : (Invoke /\ current' = s) => s \notin cancelled]_vars

\* Every callback that is added is invoked, or removed first, unless the
\* application keeps resetting its callbacks for ever.
EventuallyRuns ==
  <>[][\A k \in [cb : Trigger, data : Context] : ~Reset(k)]_vars =>
    \A s \in Slot : (cell[s] # Null) ~> (current = s \/ cell[s] = Null)

=============================================================================
