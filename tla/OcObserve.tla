------------------------------ MODULE OcObserve ------------------------------
(***************************************************************************)
(* Observations: the list of observers of messaging/coap/observe.c, the    *)
(* notifications that are sent to them, the confirmable ones among these   *)
(* that find out whether a client is still there, and everything that ends *)
(* an observation: the client's cancellation or RST, a transmission that   *)
(* is given up, the end of the session, the deletion of the resource, and  *)
(* a change of the provisioning state or of the access rights.             *)
(*                                                                         *)
(* The clients are DTLS peers of one device.  A client has one token per   *)
(* resource, so client and resource stand for it; interfaces, collections, *)
(* payloads, separate responses and block-wise notifications are left out. *)
(* A message ID is fresh with respect to all that is outstanding, as with  *)
(* 2^16 of them, and no request bears one that the server has in use.      *)
(***************************************************************************)
EXTENDS OcList, FiniteSets, SequencesExt

CONSTANTS
  Client,
  Resource,         \* observable resources of the application
  Periodic,         \* those of them that are polled (OC_PERIODIC)
  Deletable,        \* those of them that the application may delete
  Readable,         \* the <<client, resource>> that may be permitted
  Guarded,          \* those of them that provisioning may deny
  Mortal,           \* bound: the clients that may vanish
  MaxObservers,     \* COAP_MAX_OBSERVERS
  MaxTransactions,  \* COAP_MAX_OPEN_TRANSACTIONS
  MaxRetransmit,    \* COAP_MAX_RETRANSMIT
  Refresh,          \* COAP_OBSERVE_REFRESH_INTERVAL
  MaxValue,         \* OC_COAP_OPTION_OBSERVE_MAX_VALUE
  MaxInFlight       \* bound: notifications whose answer may still arrive

StartValue == 2     \* OC_COAP_OPTION_OBSERVE_SEQUENCE_START_VALUE

ASSUME SetsAssumption ==
  /\ IsFiniteSet(Client)
  /\ IsFiniteSet(Resource)
  /\ Periodic \subseteq Resource
  /\ Deletable \subseteq Resource
  /\ Readable \subseteq Client \X Resource
  /\ Guarded \subseteq Readable
  /\ Mortal \subseteq Client

ASSUME NumbersAssumption ==
  /\ MaxObservers \in Nat
  /\ MaxTransactions \in Nat
  /\ MaxRetransmit \in Nat \ {0}
  /\ Refresh \in Nat \ {0}
  /\ MaxValue \in Nat /\ MaxValue > StartValue
  /\ MaxInFlight \in Nat

VARIABLES
  observers,          \* g_observers_list
  num_observers,      \* of each resource
  resources,          \* the resources that exist
  delayed,            \* those with a delayed notify_resource_changed_async
  polled,             \* those with a callback in g_observe_callbacks
  transactions,       \* the confirmable notifications not yet acknowledged
  sent,               \* the notifications a client may still answer
  gone,               \* the clients that have vanished for good
  dos,                \* the provisioning state: RFNOP or (any other) RFPRO
  denied              \* the pairs of Guarded the access control list denies

vars == <<observers, num_observers, resources, delayed,
          polled, transactions, sent, gone, dos, denied>>

Mid == 1 .. (MaxTransactions + MaxInFlight + 1)

\* last_mid is 0 when nothing was sent yet, or its message ID was used again
\* since; due: the resource has changed and the notification of that change
\* was neither sent nor skipped so far.
Observer ==
  [c: Client, r: Resource, last_mid: Mid \cup {0},
   obs_counter: StartValue .. MaxValue, due: BOOLEAN]

Of(r) == {i \in DOMAIN observers : observers[i].r = r}
Observes(c, r) ==
  \E i \in DOMAIN observers : observers[i].c = c /\ observers[i].r = r
MidsOf(s) == {m.mid : m \in s}

Init ==
  /\ observers = << >>
  /\ num_observers = [r \in Resource |-> 0]
  /\ resources = Resource
  /\ delayed = {}
  /\ polled = {}
  /\ transactions = {}
  /\ sent = {}
  /\ gone = {}
  /\ dos = "RFNOP"
  /\ denied = {}

-----------------------------------------------------------------------------
(***************************************************************************)
(* The list of observers.                                                  *)
(***************************************************************************)

observe_increment_observe_counter(n) ==
  IF n = MaxValue THEN StartValue ELSE n + 1

\* coap_remove_observers_by_filter with match_all: the counter of each
\* resource goes down with every observer that leaves.
RemoveAll(S) ==
  /\ observers' = Without(observers, S)
  /\ num_observers' = [r \in Resource |->
       num_observers[r] - Cardinality({i \in Of(r) : observers[i] \in S})]

\* The same without match_all: the first that matches.
RemoveMatch(S) ==
  LET found == {i \in DOMAIN observers : observers[i] \in S}
      first == {i \in found : \A j \in found : i <= j}
  IN RemoveAll({observers[i] : i \in first})

RemoveByClient(c) == RemoveAll({o \in Range(observers) : o.c = c})

\* The message ID of every message that comes in ends the transaction that
\* bears it, whichever endpoint that is with.
ClearTransaction(m) ==
  transactions' = {t \in transactions : t.mid # m}

Permitted(c, r) == dos = "RFNOP" /\ <<c, r>> \in Readable \ denied

NewObserver(c, r, n) ==
  [c |-> c, r |-> r, last_mid |-> 0, obs_counter |-> n, due |-> FALSE]

\* coap_add_observer: an observation the client already has is replaced;
\* when the pool is exhausted there is none afterwards.  The notifications
\* of every resource of the device advance g_observe_counter, from which
\* the new observer takes its counter n: it may be any number.
AddObserver(c, r, n) ==
  LET same == {o \in Range(observers) : o.c = c /\ o.r = r}
      others == Without(observers, same)
      dups == Cardinality({i \in Of(r) : observers[i] \in same})
      room == Len(others) < MaxObservers
  IN /\ observers' =
          IF room THEN Append(others, NewObserver(c, r, n)) ELSE others
     /\ num_observers' =
          [num_observers EXCEPT ![r] = @ - dups + IF room THEN 1 ELSE 0]

-----------------------------------------------------------------------------
(***************************************************************************)
(* Requests of the clients.                                                *)
(***************************************************************************)

\* A GET with Observe 0 that the resource answers.
Register(c, r) ==
  /\ c \notin gone
  /\ r \in resources
  /\ Permitted(c, r)
  /\ \E n \in StartValue .. MaxValue : AddObserver(c, r, n)
  /\ polled' = IF r \in Periodic /\ \E o \in Range(observers') :
                                       o.c = c /\ o.r = r
                 THEN polled \cup {r} ELSE polled
  /\ UNCHANGED <<resources, delayed, transactions, sent, gone, dos, denied>>

\* The callback that polls the resource cannot be allocated, so that the
\* observation is taken back.
RegisterFails(c, r) ==
  /\ c \notin gone
  /\ r \in resources \cap (Periodic \ polled)
  /\ Permitted(c, r)
  /\ RemoveAll({o \in Range(observers) : o.c = c /\ o.r = r})
  /\ UNCHANGED <<resources, delayed, polled, transactions, sent, gone, dos,
                 denied>>

\* A GET with Observe 1.  The polling ends with it.
Deregister(c, r) ==
  /\ c \notin gone
  /\ r \in resources
  /\ Permitted(c, r)
  /\ Observes(c, r)
  /\ RemoveMatch({o \in Range(observers) : o.c = c /\ o.r = r})
  /\ polled' = polled \ {r}
  /\ UNCHANGED <<resources, delayed, transactions, sent, gone, dos, denied>>

-----------------------------------------------------------------------------
(***************************************************************************)
(* Notifications.  s is the state of a walk over the list of observers:    *)
(* as they are now, the counters, what was sent, and whether a transaction *)
(* was refused.                                                            *)
(***************************************************************************)

FreshMid(s) ==
  Min(Mid \ (MidsOf(s.transactions) \cup MidsOf(s.sent)))

Forget(mid, list) ==
  [i \in DOMAIN list |->
     [list[i] EXCEPT !.last_mid = IF @ = mid THEN 0 ELSE @]]

IsConfirmable(o) == o.obs_counter % Refresh = 0

\* coap_send_notification_internal: the counters advance before the
\* transaction is asked for, which a NON message gives back at once.
SendNotification(s, i) ==
  LET o == s.list[i]
      mid == FreshMid(s)
      list == [s.list EXCEPT ![i].due = FALSE,
                 ![i].obs_counter = observe_increment_observe_counter(@)]
  IN IF Cardinality(s.transactions) >= MaxTransactions
       THEN [s EXCEPT !.list = list, !.refused = TRUE]
       ELSE [s EXCEPT
               !.num = @ + 1,
               !.list = [Forget(mid, list) EXCEPT ![i].last_mid = mid],
               !.transactions =
                  IF IsConfirmable(o)
                    THEN @ \cup {[c |-> o.c, mid |-> mid, counter |-> 0]}
                    ELSE @,
               !.sent = IF Cardinality(@) < MaxInFlight /\ o.c \notin gone
                          THEN @ \cup {[c |-> o.c, mid |-> mid]}
                          ELSE @]

Walk(list) ==
  [list |-> list, transactions |-> transactions, sent |-> sent, num |-> 0,
   refused |-> FALSE]

\* Mutation: only the first observer is told.
TellFirst(r, s, i) ==
  IF s.list[i].r # r \/ s.num > 0 THEN s ELSE SendNotification(s, i)

\* What the walk does with the observer at i: a refused transaction ends it,
\* and with it the notification of this change.
Tell(r, s, i) ==
  IF s.list[i].r # r THEN s
  ELSE IF s.refused THEN [s EXCEPT !.list[i].due = FALSE]
  ELSE SendNotification(s, i)

\* coap_iterate_observers
Iterate(r, list) ==
  LET walk[n \in 0 .. Len(list)] ==
        IF n = 0 THEN Walk(list) ELSE Tell(r, walk[n - 1], n)
  IN walk[Len(list)]

\* The observers of r, each of them still to be told.
Due(r) ==
  [i \in DOMAIN observers |->
     [observers[i] EXCEPT !.due = @ \/ observers[i].r = r]]

\* Those of r have no notification to wait for.
Skipped(r, list) ==
  [i \in DOMAIN list |-> [list[i] EXCEPT !.due = @ /\ list[i].r # r]]

\* coap_notify_observers for the observers as listed.
Notified(r, list) ==
  IF dos # "RFNOP"
    THEN Walk(Skipped(r, list))
  ELSE IF num_observers[r] = 0 THEN Walk(list)
  ELSE Iterate(r, list)

Notify(s) ==
  /\ observers' = s.list
  /\ transactions' = s.transactions
  /\ sent' = s.sent
  /\ UNCHANGED <<num_observers, resources, gone, dos, denied>>

\* oc_notify_resource_changed
Change(r) ==
  /\ r \in resources
  /\ Notify(Notified(r, Due(r)))
  /\ UNCHANGED <<delayed, polled>>

\* oc_notify_resource_changed_delayed_ms, called after every PUT or POST.
ChangeDelayed(r) ==
  /\ r \in resources
  /\ observers' = Due(r)
  /\ delayed' = delayed \cup {r}
  /\ UNCHANGED <<num_observers, resources, polled, transactions, sent, gone,
                 dos, denied>>

\* notify_resource_changed_async
NotifyDelayed(r) ==
  /\ r \in delayed
  /\ Notify(Notified(r, observers))
  /\ delayed' = delayed \ {r}
  /\ UNCHANGED polled

\* periodic_observe_callback_handler: polling ends when nobody was notified.
\* The code has no such guard as r \in resources: nothing removes the callback of
\* a deleted resource, and it runs on freed memory.  What it does then is not
\* defined and not modelled.
Poll(r) ==
  /\ r \in polled \cap resources
  /\ LET s == Notified(r, observers)
     IN /\ Notify(s)
        /\ polled' = IF s.num = 0 THEN polled \ {r} ELSE polled
  /\ UNCHANGED delayed

-----------------------------------------------------------------------------
(***************************************************************************)
(* Answers, timeouts, and the ends of observations.                        *)
(***************************************************************************)

\* The client acknowledges the notification, or its answer is never sent or
\* is lost (then m is 0); the notification may reach it again later.
Acknowledge(n, m) ==
  /\ n \in sent
  /\ m \in {0, n.mid}
  /\ ClearTransaction(m)
  /\ sent' = sent \ {n}
  /\ UNCHANGED <<observers, num_observers, resources, delayed, polled, gone,
                 dos, denied>>

\* An RST of a client that does not know the token (any more).
Reject(n) ==
  /\ n \in sent
  /\ ClearTransaction(n.mid)
  /\ RemoveMatch({o \in Range(observers) : o.c = n.c /\ o.last_mid = n.mid})
  /\ sent' = sent \ {n}
  /\ UNCHANGED <<resources, delayed, polled, gone, dos, denied>>

\* oc_tls_free_peer: the observations and the transactions of the session.
EndSession(c) ==
  /\ RemoveByClient(c)
  /\ transactions' = {t \in transactions : t.c # c}

\* Mutation: the transaction ends, its session does not.
GiveUpOnTransaction(t) ==
  /\ transactions' = transactions \ {t}
  /\ UNCHANGED <<observers, num_observers>>

\* coap_send_transaction, timed out: a session that does not answer ends.
GiveUp(t) == EndSession(t.c)

\* coap_check_transactions, the timer of the transaction m having expired.
Timeout(m) ==
  \E t \in transactions :
    /\ t.mid = m
    /\ IF t.counter + 1 < MaxRetransmit
         THEN /\ transactions' =
                   (transactions \ {t}) \cup {[t EXCEPT !.counter = @ + 1]}
              /\ sent' = IF Cardinality(sent) < MaxInFlight /\ t.c \notin gone
                           THEN sent \cup {[c |-> t.c, mid |-> m]} ELSE sent
              /\ UNCHANGED <<observers, num_observers>>
         ELSE /\ GiveUp(t)
              /\ UNCHANGED sent
    /\ UNCHANGED <<resources, delayed, polled, gone, dos, denied>>

\* The session is closed by the client or for inactivity.
SessionCloses(c) ==
  /\ \E r \in Resource : Observes(c, r)
  /\ EndSession(c)
  /\ UNCHANGED <<resources, delayed, polled, sent, gone, dos, denied>>

\* The client disappears without a word.
Vanish(c) ==
  /\ c \notin gone /\ c \in Mortal
  /\ gone' = gone \cup {c}
  /\ sent' = {n \in sent : n.c # c}
  /\ UNCHANGED <<observers, num_observers, resources, delayed, polled,
                 transactions, dos, denied>>

\* Mutation: a delayed notification outlives its resource.
DeleteResourceDelayedLeft(r) ==
  /\ r \in resources \cap Deletable
  /\ resources' = resources \ {r}
  /\ IF num_observers[r] > 0
     THEN RemoveAll({o \in Range(observers) : o.r = r})
     ELSE UNCHANGED <<observers, num_observers>>
  /\ UNCHANGED <<delayed, polled, transactions, sent, gone, dos, denied>>

\* ri_delete_resource.  The callback that polls the resource stays.
DeleteResource(r) ==
  /\ r \in resources \cap Deletable
  /\ resources' = resources \ {r}
  /\ delayed' = delayed \ {r}
  /\ IF num_observers[r] > 0
     THEN RemoveAll({o \in Range(observers) : o.r = r})
     ELSE UNCHANGED <<observers, num_observers>>
  /\ UNCHANGED <<polled, transactions, sent, gone, dos, denied>>

\* The application creates the resource anew; not modelled where a callback of
\* its former self is left, see Poll.
CreateResource(r) ==
  /\ r \notin resources \cup polled
  /\ resources' = resources \cup {r}
  /\ num_observers' = [num_observers EXCEPT ![r] = 0]
  /\ UNCHANGED <<observers, delayed, polled, transactions, sent, gone, dos,
                 denied>>

-----------------------------------------------------------------------------
(***************************************************************************)
(* The provisioning state (OcPstat), as far as observations depend on it.  *)
(***************************************************************************)

\* A provisioning tool takes the device out of normal operation.
EnterRFPRO ==
  /\ dos = "RFNOP"
  /\ dos' = "RFPRO"
  /\ UNCHANGED <<observers, num_observers, resources, delayed, polled,
                 transactions, sent, gone, denied>>

\* acl2 can be changed in RFPRO, not in RFNOP.
ProvisionAcl(p) ==
  /\ dos = "RFPRO"
  /\ denied' = IF p \in denied THEN denied \ {p} ELSE denied \cup {p}
  /\ UNCHANGED <<observers, num_observers, resources, delayed, polled,
                 transactions, sent, gone, dos>>

\* Mutation: the observers are not checked again.
EnterRFNOPUnchecked ==
  /\ dos = "RFPRO"
  /\ dos' = "RFNOP"
  /\ UNCHANGED <<observers, num_observers, resources, delayed, polled,
                 transactions, sent, gone, denied>>

\* coap_remove_observers_on_dos_change checks every observer again.
EnterRFNOP ==
  /\ dos = "RFPRO"
  /\ dos' = "RFNOP"
  /\ RemoveAll({o \in Range(observers) : <<o.c, o.r>> \in denied})
  /\ UNCHANGED <<resources, delayed, polled, transactions, sent, gone, denied>>

\* A reset removes all observers and the access control entries, and leaves
\* the device to be provisioned anew.
Reset ==
  /\ dos' = "RFPRO"
  /\ RemoveAll(Range(observers))
  /\ denied' = Guarded
  /\ UNCHANGED <<resources, delayed, polled, transactions, sent, gone>>

-----------------------------------------------------------------------------

Requests ==
  \E c \in Client, r \in Resource :
    Register(c, r) \/ RegisterFails(c, r) \/ Deregister(c, r)

Application ==
  \E r \in Resource :
    \/ Change(r) \/ ChangeDelayed(r) \/ DeleteResource(r) \/ CreateResource(r)

Timers ==
  \/ \E r \in Resource : NotifyDelayed(r) \/ Poll(r)
  \/ \E m \in Mid : Timeout(m)

Network ==
  \/ \E n \in sent : Reject(n) \/ \E m \in {0, n.mid} : Acknowledge(n, m)
  \/ \E c \in Client : SessionCloses(c) \/ Vanish(c)

Provisioning ==
  \/ EnterRFPRO \/ EnterRFNOP \/ Reset
  \/ \E p \in Guarded : ProvisionAcl(p)

Next == Requests \/ Application \/ Timers \/ Network \/ Provisioning

Spec == Init /\ [][Next]_vars

\* Timers expire: those of the transactions and those that poll.
FairSpec ==
  /\ Spec
  /\ WF_vars(\E m \in Mid : Timeout(m))
  /\ \A r \in Periodic : WF_vars(Poll(r))

-----------------------------------------------------------------------------

\* The variables have their types, and the pools their bounds.
TypeOK ==
  /\ observers \in Seq(Observer) /\ Len(observers) <= MaxObservers
  /\ num_observers \in [Resource -> 0 .. MaxObservers]
  /\ resources \subseteq Resource
  /\ delayed \subseteq Resource
  /\ polled \subseteq Periodic
  /\ transactions \subseteq
       [c: Client, mid: Mid, counter: 0 .. MaxRetransmit - 1]
  /\ Cardinality(transactions) <= MaxTransactions
  /\ sent \subseteq [c: Client, mid: Mid]
  /\ gone \subseteq Client
  /\ dos \in {"RFNOP", "RFPRO"}
  /\ denied \subseteq Guarded

\* num_observers, by which the deletion of a resource and a notification
\* decide whether there is anything to do, is the number of the observers of
\* the resource; a resource that was freed has none left, and no delayed
\* notification.
ObserversAreCounted ==
  /\ \A r \in Resource : num_observers[r] = Cardinality(Of(r))
  /\ \A o \in Range(observers) : o.r \in resources
  /\ delayed \subseteq resources

\* A client observes a resource at most once, however often it registers.
ObservesOnce ==
  \A i, j \in DOMAIN observers :
    observers[i].c = observers[j].c /\ observers[i].r = observers[j].r
      => i = j

\* The list of observers, its counters and what points to the resources agree,
\* after any order of registrations, cancellations, deletions and failures.
ObserversAreSound == TypeOK /\ ObserversAreCounted /\ ObservesOnce

\* In normal operation only clients that may read a resource observe it,
\* whatever was provisioned while the device was not.
AccessIsRevoked ==
  dos = "RFNOP" => \A o \in Range(observers) : <<o.c, o.r>> \notin denied

\* An observer that was not sent the present representation is going to be,
\* unless the notification was skipped for the provisioning state or for
\* want of a transaction.
EveryObserverIsNotified ==
  \A o \in Range(observers) : o.due => o.r \in delayed

\* A client that has vanished does not stay an observer of a resource that
\* is polled for good, with the device in normal operation and transactions
\* to be had: one of the notifications is confirmable, and is given up.
GoneClientIsRemoved ==
  \A c \in Mortal, r \in Periodic :
    <>[](/\ dos = "RFNOP"
         /\ r \in polled \cap resources
         /\ Cardinality({t \in transactions : t.c # c}) < MaxTransactions)
    => ((c \in gone /\ Observes(c, r)) ~> ~Observes(c, r))

\* "The resource will periodically notify observing clients of is property
\* values", says oc_resource_set_periodic_observable.
PeriodicIsPolled ==
  dos = "RFNOP" =>
    \A o \in Range(observers) : o.r \in Periodic => o.r \in polled
=============================================================================
