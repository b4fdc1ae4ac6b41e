------------------------------ MODULE OcClient -------------------------------
(***************************************************************************)
(* The requests of a client: the client callbacks of                       *)
(* api/client/oc_client_cb.c, the transactions with which                  *)
(* messaging/coap/transactions.c retransmits confirmable requests, the     *)
(* handling of answers in messaging/coap/engine.c, the request functions   *)
(* of api/oc_client_api.c, and the closing of a DTLS session, which ends   *)
(* what is open with its peer (security/oc_tls.c).                         *)
(*                                                                         *)
(* A request ends in one of many ways: an answer, the end of the           *)
(* retransmissions, the timeout the application asked for, the lifetime of *)
(* the exchange, the end of the session.  All of them run on the thread of *)
(* the main loop, but the handler they call may issue the next request, so *)
(* the walks over the two lists are sequences of actions.                  *)
(*                                                                         *)
(* The network and the peers are external: any answer to a request that    *)
(* was sent may arrive at any time, never, or repeatedly.  Message IDs are *)
(* not reused, and a peer's own message IDs differ from those in use here. *)
(* Block-wise transfers and TCP are left out.                              *)
(***************************************************************************)
EXTENDS OcList, FiniteSetsExt

CONSTANTS
  Endpoint,         \* the peers
  Secured,          \* those reached over DTLS
  Profile,          \* the requests the application issues
  HandlerProfile,   \* the requests it issues from within a response handler
  MaxRequests,      \* bound: requests issued
  MaxMids,          \* bound: message IDs drawn with coap_get_mid
  MaxRetransmit,    \* COAP_MAX_RETRANSMIT
  CounterSize       \* the range of retrans_counter, a uint8_t

\* What is asked for: a confirmable request or not, and whether a timeout was
\* given that is shorter, or longer, than the lifetime of the exchange.
Ask == [kind : {"unicast", "observe", "multicast"}, con : BOOLEAN,
        timeout : {"none", "short", "long"}, ep : Endpoint]

ASSUME ClientAssumption ==
  /\ Secured \subseteq Endpoint
  /\ Profile \subseteq Ask /\ HandlerProfile \subseteq Ask
  /\ \A p \in Profile \cup HandlerProfile :
       /\ p.kind # "unicast" => p.timeout = "none"
       /\ p.kind = "multicast" => ~p.con
  /\ MaxRequests \in Nat /\ MaxMids \in Nat
  /\ MaxRetransmit \in Nat \ {0}
  /\ CounterSize \in Nat /\ CounterSize > MaxRetransmit

Id          == 1..MaxRequests
Mid         == 1..MaxMids
Transaction == [mid : Mid, ep : Endpoint, counter : 0..(CounterSize - 1),
                armed : BOOLEAN]

VARIABLES
  req,           \* what the application asked for, by request
  mid,           \* the message ID of each client callback
  lastMid,       \* the last message ID drawn
  cbs,           \* g_client_cbs: a set, the order of the list is that of IDs
  transactions,  \* transactions_list; only confirmable requests stay in it
  lifetime,      \* callbacks with a delayed oc_client_cb_remove_async
  timeout,       \* and with oc_client_cb_remove_with_notify_timeout_async
  timerEvent,    \* is a TIMER event waiting for the CoAP engine?
  peers,         \* the peers in g_tls_peers
  pc             \* where a walk over a list is

\* History.
VARIABLES
  sent,          \* requests that went out, with their message ID
  heard,         \* message IDs that an incoming message has carried
  answered,      \* requests a response has come for
  calls          \* how often the handler of each request was called, up to 2

vars == <<req, mid, lastMid, cbs, transactions, lifetime, timeout, timerEvent,
          peers, pc, sent, heard, answered, calls>>

Idle == [at |-> "idle", t |-> 0, next |-> 0, removed |-> 0, ep |-> "none",
         caller |-> "idle"]

Init ==
  /\ req = << >> /\ mid = << >> /\ lastMid = 0
  /\ cbs = {} /\ transactions = << >>
  /\ lifetime = {} /\ timeout = {}
  /\ timerEvent = FALSE
  /\ peers = {}
  /\ pc = Idle
  /\ sent = {} /\ heard = {} /\ answered = {}
  /\ calls = [q \in Id |-> 0]

-----------------------------------------------------------------------------
(* Lists. *)

TransactionsWithout(m) == Without(transactions, {t \in Transaction : t.mid = m})

Mids == {transactions[k].mid : k \in DOMAIN transactions}

At(m) == CHOOSE k \in DOMAIN transactions : transactions[k].mid = m

\* The message ID of the first transaction, and of the one after m; 0: NULL.
First(list) == IF list = << >> THEN 0 ELSE Head(list).mid
After(m) == IF At(m) = Len(transactions) THEN 0 ELSE transactions[At(m) + 1].mid

-----------------------------------------------------------------------------
(* Issuing a request: oc_do_request, oc_do_observe, oc_do_ipv4_multicast.    *)

\* No request, or one.
News(P) ==
  {<< >>} \cup {<<p>> : p \in IF Len(req) < MaxRequests /\ lastMid < MaxMids
                              THEN P ELSE {}}

\* The ID of the new request, if there is one.
NewId(new) == {Len(req) + k : k \in DOMAIN new}

\* coap_new_transaction and coap_send_transaction: what is not confirmable
\* leaves the list at once.
NewTransaction(new) ==
  IF new # << >> /\ Head(new).con
  THEN <<[mid |-> lastMid + 1, ep |-> Head(new).ep, counter |-> 0,
          armed |-> TRUE]>>
  ELSE << >>

\* Mutation: only confirmable requests get a lifetime.
WithLifetimeConfirmable(new) ==
  {q \in NewId(new) : Head(new).kind # "observe" /\ Head(new).con}

\* The requests that get a delayed oc_client_cb_remove_async.
WithLifetime(new) == {q \in NewId(new) : Head(new).kind # "observe"}

\* Mutation: requests that are retransmitted do without the application's
\* timeout.
WithTimeoutUnconfirmed(new) ==
  {q \in NewId(new) : Head(new).timeout # "none" /\ ~Head(new).con}

\* The requests that get oc_client_cb_remove_with_notify_timeout_async.
WithTimeout(new) == {q \in NewId(new) : Head(new).timeout # "none"}

\* oc_ri_alloc_client_cb, prepare_coap_request, dispatch_coap_request and the
\* delayed callbacks, on what the rest of the action leaves of the lists.
Issue(new, restCbs, restTransactions, lt, to) ==
  /\ req' = req \o new
  /\ mid' = mid \o [k \in DOMAIN new |-> lastMid + 1]
  /\ lastMid' = lastMid + Len(new)
  /\ cbs' = restCbs \cup NewId(new)
  /\ transactions' = restTransactions \o NewTransaction(new)
  /\ lifetime' = lt \cup WithLifetime(new)
  /\ timeout' = to \cup WithTimeout(new)
  /\ sent' = sent \cup {[mid |-> lastMid + 1, q |-> q] : q \in NewId(new)}

DoRequest(new) ==
  /\ pc.at = "idle"
  /\ new # << >>
  /\ Issue(new, cbs, transactions, lifetime, timeout)
  /\ UNCHANGED <<timerEvent, peers, pc, heard, answered, calls>>

\* Mutation: the request that ends the observation has the message ID of the one
\* that began it.
StopObserveSameMid(q) ==
  /\ pc.at = "idle"
  /\ q \in cbs /\ req[q].kind = "observe"
  /\ lastMid < MaxMids
  /\ req[q].con
  /\ transactions' = Append(transactions, [mid |-> mid[q], ep |-> req[q].ep,
                                           counter |-> 0, armed |-> TRUE])
  /\ UNCHANGED <<req, mid, lastMid, sent, cbs, lifetime, timeout, timerEvent,
                 peers, pc, heard, answered, calls>>

\* oc_stop_observe: the callback of the observation gets a new message ID and
\* waits for the answer to the request that ends it.
StopObserve(q) ==
  /\ pc.at = "idle"
  /\ q \in cbs /\ req[q].kind = "observe"
  /\ lastMid < MaxMids
  /\ lastMid' = lastMid + 1
  /\ mid' = [mid EXCEPT ![q] = lastMid + 1]
  /\ transactions' = transactions \o NewTransaction(<<req[q]>>)
  /\ sent' = sent \cup {[mid |-> lastMid + 1, q |-> q]}
  /\ UNCHANGED <<req, cbs, lifetime, timeout, timerEvent, peers, pc, heard,
                 answered, calls>>

-----------------------------------------------------------------------------
(* Ending a request. *)

Called(S) ==
  [q \in Id |-> IF q \in S /\ calls[q] < 2 THEN calls[q] + 1 ELSE calls[q]]

\* Mutation: the delayed callback that ends the exchange is left behind.
NotifyKeepsTimer(S, new, rest) ==
  /\ Issue(IF S = {} THEN << >> ELSE new, cbs \ S, rest, lifetime,
           timeout \ S)
  /\ calls' = Called(S)

\* client_cb_notify_with_code for the callbacks in S, at most one: it leaves
\* the list and loses its delayed callbacks, then the handler is called, which
\* may issue a request, then it is freed.
Notify(S, new, rest) ==
  /\ Issue(IF S = {} THEN << >> ELSE new, cbs \ S, rest, lifetime \ S,
           timeout \ S)
  /\ calls' = Called(S)

\* oc_client_cb_remove_async: the lifetime of the exchange is over.
LifetimeEnds(q) ==
  /\ pc.at = "idle"
  /\ q \in lifetime
  /\ q \in timeout => req[q].timeout = "long"
  /\ cbs' = cbs \ {q}
  /\ lifetime' = lifetime \ {q} /\ timeout' = timeout \ {q}
  /\ UNCHANGED <<req, mid, lastMid, transactions, timerEvent, peers, pc, sent,
                 heard, answered, calls>>

\* oc_client_cb_remove_with_notify_timeout_async.
RequestTimeout(q, new) ==
  /\ pc.at = "idle"
  /\ q \in timeout
  /\ q \in lifetime => req[q].timeout = "short"
  /\ Notify({q}, new, transactions)
  /\ UNCHANGED <<timerEvent, peers, pc, heard, answered>>

-----------------------------------------------------------------------------
(* coap_process_inbound_message: a message with the ID of a transaction ends *)
(* its retransmission, whatever it is.                                       *)

\* An acknowledgement without a response, or a reset.
ReceiveEmpty(s) ==
  /\ pc.at = "idle"
  /\ transactions' = TransactionsWithout(s.mid)
  /\ heard' = heard \cup {s.mid}
  /\ UNCHANGED <<req, mid, lastMid, cbs, lifetime, timeout, timerEvent, peers,
                 pc, sent, answered, calls>>

\* Mutation: a callback outlives the response to its request.
KeepsAlways(q, observe) == TRUE

\* Does the callback stay after the response?  An observation does as long as
\* the responses carry the observe option, a multicast does always, even when
\* the handler has stopped it: oc_ri_free_client_cbs_by_mid_v1 passes over it.
Keeps(q, observe) == observe \/ req[q].kind = "multicast"

\* A response to a request nobody waits for any more.
ReceiveLate(s, piggybacked) ==
  /\ pc.at = "idle"
  /\ s.q \notin cbs
  /\ transactions' = IF piggybacked THEN TransactionsWithout(s.mid)
                     ELSE transactions
  /\ heard' = IF piggybacked THEN heard \cup {s.mid} ELSE heard
  /\ UNCHANGED <<req, mid, lastMid, cbs, lifetime, timeout, timerEvent, peers,
                 pc, sent, answered, calls>>

\* oc_client_cb_invoke: in the acknowledgement or in a message of its own, with
\* a payload that can be parsed or not, with the observe option or not.
ReceiveResponse(s, piggybacked, parsed, observe, new) ==
  /\ pc.at = "idle"
  /\ s.q \in cbs
  /\ observe => req[s.q].kind = "observe"
  /\ LET ended == IF Keeps(s.q, observe) THEN {} ELSE {s.q}
         rest  == IF piggybacked THEN TransactionsWithout(s.mid)
                  ELSE transactions
     IN Issue(IF parsed THEN new ELSE << >>, cbs \ ended, rest,
              lifetime \ ended, timeout \ ended)
  /\ heard' = IF piggybacked THEN heard \cup {s.mid} ELSE heard
  /\ answered' = answered \cup {s.q}
  /\ calls' = IF parsed THEN Called({s.q}) ELSE calls
  /\ UNCHANGED <<timerEvent, peers, pc>>

-----------------------------------------------------------------------------
(* Retransmission: coap_check_transactions walks over the list.              *)

\* The etimer of a transaction expires.
Expire(k) ==
  /\ pc.at = "idle"
  /\ transactions[k].armed
  /\ transactions' = [transactions EXCEPT ![k].armed = FALSE]
  /\ timerEvent' = TRUE
  /\ UNCHANGED <<req, mid, lastMid, cbs, lifetime, timeout, peers, pc, sent,
                 heard, answered, calls>>

CheckStart ==
  /\ pc.at = "idle"
  /\ timerEvent
  /\ timerEvent' = FALSE
  /\ pc' = [Idle EXCEPT !.at = "check", !.t = First(transactions)]
  /\ UNCHANGED <<req, mid, lastMid, cbs, transactions, lifetime, timeout,
                 peers, sent, heard, answered, calls>>

CheckEnd ==
  /\ pc.at = "check"
  /\ pc.t = 0
  /\ pc' = Idle
  /\ UNCHANGED <<req, mid, lastMid, cbs, transactions, lifetime, timeout,
                 timerEvent, peers, sent, heard, answered, calls>>

\* The callbacks oc_ri_free_client_cbs_by_mid_v1 ends.
WaitingFor(m) == {q \in cbs : mid[q] = m /\ req[q].kind # "multicast"}

Counted(t) == (t.counter + 1) % CounterSize

\* A transaction that has not expired is passed over, one that has expired is
\* sent again while its counter is below the limit.
CheckOne ==
  /\ pc.at = "check"
  /\ pc.t \in Mids
  /\ LET k == At(pc.t)
         t == transactions[k]
     IN /\ t.armed \/ Counted(t) < MaxRetransmit
        /\ transactions' = IF t.armed THEN transactions
                           ELSE [transactions EXCEPT
                                   ![k].counter = Counted(t),
                                   ![k].armed = TRUE]
  /\ pc' = [pc EXCEPT !.t = After(pc.t)]
  /\ UNCHANGED <<req, mid, lastMid, cbs, lifetime, timeout, timerEvent, peers,
                 sent, heard, answered, calls>>

\* Mutation: the transaction is dropped, its callback is not told.
TimedOutUntold(m) == {}

\* coap_send_transaction gives a transaction up: its callback is told ...
TimedOut(m) == WaitingFor(m)

\* ... and without DTLS the transaction is cleared ...
CheckTimeout(new) ==
  /\ pc.at = "check"
  /\ pc.t \in Mids
  /\ LET t == transactions[At(pc.t)]
     IN /\ ~t.armed /\ Counted(t) >= MaxRetransmit
        /\ t.ep \notin Secured
  /\ Notify(TimedOut(pc.t), new, TransactionsWithout(pc.t))
  /\ pc' = [pc EXCEPT !.t = After(pc.t)]
  /\ UNCHANGED <<timerEvent, peers, heard, answered>>

\* ... while with DTLS that is left to the closing of the session ...
CheckTimeoutSecured(new) ==
  /\ pc.at = "check"
  /\ pc.t \in Mids
  /\ LET k == At(pc.t)
         t == transactions[k]
     IN /\ ~t.armed /\ Counted(t) >= MaxRetransmit
        /\ t.ep \in peers
        /\ Notify(TimedOut(pc.t), new,
                  [transactions EXCEPT ![k].counter = Counted(t)])
        /\ peers' = peers \ {t.ep}
        /\ pc' = [at |-> "close_transactions", t |-> First(transactions),
                  next |-> After(pc.t), removed |-> Len(transactions),
                  ep |-> t.ep, caller |-> "check"]
  /\ UNCHANGED <<timerEvent, heard, answered>>

\* ... and if there is no session the transaction stays, expired.
CheckTimeoutNoPeer(new) ==
  /\ pc.at = "check"
  /\ pc.t \in Mids
  /\ LET k == At(pc.t)
         t == transactions[k]
     IN /\ ~t.armed /\ Counted(t) >= MaxRetransmit
        /\ t.ep \in Secured \ peers
        /\ Notify(TimedOut(pc.t), new,
                  [transactions EXCEPT ![k].counter = Counted(t)])
  /\ pc' = [pc EXCEPT !.t = After(pc.t)]
  /\ UNCHANGED <<timerEvent, peers, heard, answered>>

-----------------------------------------------------------------------------
(* DTLS sessions: oc_tls_free_peer. *)

PeerConnects(e) ==
  /\ pc.at = "idle"
  /\ e \in Secured \ peers
  /\ peers' = peers \cup {e}
  /\ UNCHANGED <<req, mid, lastMid, cbs, transactions, lifetime, timeout,
                 timerEvent, pc, sent, heard, answered, calls>>

\* The session ends for another reason than a transaction.
PeerCloses(e) ==
  /\ pc.at = "idle"
  /\ e \in peers
  /\ peers' = peers \ {e}
  /\ pc' = [Idle EXCEPT !.at = "close_transactions",
                        !.t = First(transactions), !.ep = e]
  /\ UNCHANGED <<req, mid, lastMid, cbs, transactions, lifetime, timeout,
                 timerEvent, sent, heard, answered, calls>>

\* coap_free_transactions_by_endpoint, one transaction.  Its test for a list
\* that got shorter under it never holds: a handler only adds to the list.
CloseTransaction(new) ==
  /\ pc.at = "close_transactions"
  /\ pc.t \in Mids
  /\ IF transactions[At(pc.t)].ep = pc.ep
     THEN Notify(WaitingFor(pc.t), new, TransactionsWithout(pc.t))
     ELSE /\ new = << >>
          /\ UNCHANGED <<req, mid, lastMid, cbs, transactions, lifetime,
                         timeout, sent, calls>>
  /\ pc' = [pc EXCEPT !.t = After(pc.t)]
  /\ UNCHANGED <<timerEvent, peers, heard, answered>>

CloseTransactionsEnd ==
  /\ pc.at = "close_transactions"
  /\ pc.t = 0
  /\ pc' = [pc EXCEPT !.at = "close_cbs"]
  /\ UNCHANGED <<req, mid, lastMid, cbs, transactions, lifetime, timeout,
                 timerEvent, peers, sent, heard, answered, calls>>

\* oc_ri_free_client_cbs_by_endpoint_v1 starts over at the head of the list
\* after every callback.
OfEndpoint(e) == {q \in cbs : req[q].ep = e /\ req[q].kind # "multicast"}

CloseCb(new) ==
  /\ pc.at = "close_cbs"
  /\ OfEndpoint(pc.ep) # {}
  /\ Notify({Min(OfEndpoint(pc.ep))}, new, transactions)
  /\ UNCHANGED <<timerEvent, peers, pc, heard, answered>>

\* Mutation: the walk goes on at the element it had remembered.
ResumedAtNext(p) == p.next

\* coap_check_transactions goes on: where it was, or at the head of the list
\* if more than the transaction it looked at has gone.
ResumedAt(p) ==
  IF p.removed - Len(transactions) > 1 THEN First(transactions) ELSE p.next

CloseEnd ==
  /\ pc.at = "close_cbs"
  /\ OfEndpoint(pc.ep) = {}
  /\ pc' = IF pc.caller = "idle" THEN Idle
           ELSE [Idle EXCEPT !.at = "check", !.t = ResumedAt(pc)]
  /\ UNCHANGED <<req, mid, lastMid, cbs, transactions, lifetime, timeout,
                 timerEvent, peers, sent, heard, answered, calls>>

-----------------------------------------------------------------------------
Application ==
  \/ \E new \in News(Profile) : DoRequest(new)
  \/ \E q \in cbs : StopObserve(q)

Network ==
  \E s \in sent :
    \/ ReceiveEmpty(s)
    \/ \E piggybacked \in BOOLEAN : ReceiveLate(s, piggybacked)
    \/ \E piggybacked, parsed, observe \in BOOLEAN,
          new \in News(HandlerProfile) :
         ReceiveResponse(s, piggybacked, parsed, observe, new)

Timers ==
  \/ \E q \in cbs :
       \/ LifetimeEnds(q)
       \/ \E new \in News(HandlerProfile) : RequestTimeout(q, new)
  \/ \E k \in DOMAIN transactions : Expire(k)

Walk ==
  \/ CheckStart \/ CheckEnd \/ CheckOne
  \/ CloseTransactionsEnd \/ CloseEnd
  \/ \E new \in News(HandlerProfile) :
       \/ CheckTimeout(new) \/ CheckTimeoutSecured(new)
       \/ CheckTimeoutNoPeer(new) \/ CloseTransaction(new) \/ CloseCb(new)

Sessions == \E e \in Secured : PeerConnects(e) \/ PeerCloses(e)

Next == Application \/ Network \/ Timers \/ Walk \/ Sessions

Spec == Init /\ [][Next]_vars

\* A TIMER event in the queue is handled, whatever sessions open and close
\* before its turn; what was begun goes on; and delayed callbacks and etimers
\* fire in the end.
FairSpec ==
  /\ Spec
  /\ WF_vars(Walk)
  /\ SF_vars(CheckStart)
  /\ \A q \in Id :
       SF_vars(/\ q \in cbs
               /\ \/ LifetimeEnds(q)
                  \/ \E new \in News(HandlerProfile) : RequestTimeout(q, new))
  /\ \A m \in Mid : SF_vars(m \in Mids /\ Expire(At(m)))

-----------------------------------------------------------------------------
(* Properties *)

\* Types, and what coap_get_transaction_by_mid takes for granted: no two
\* transactions have the same message ID, also when an observation is stopped
\* before the request that began it was acknowledged.
TypeOK ==
  /\ req \in Seq(Ask) /\ mid \in Seq(Mid)
  /\ lastMid \in 0..MaxMids
  /\ cbs \subseteq Id
  /\ transactions \in Seq(Transaction)
  /\ lifetime \subseteq Id /\ timeout \subseteq Id
  /\ timerEvent \in BOOLEAN
  /\ peers \subseteq Secured
  /\ pc.at \in {"idle", "check", "close_transactions", "close_cbs"}
  /\ calls \in [Id -> 0..2]
  /\ \A i, j \in DOMAIN transactions :
       transactions[i].mid = transactions[j].mid => i = j

\* However a request ends, and however many copies of answers come, expiries
\* and closings race, its handler is called at most once.
HandlerAtMostOnce ==
  \A q \in DOMAIN req : req[q].kind = "unicast" => calls[q] <= 1

\* The assertions of oc_client_cb_dealloc: no delayed callback is left that
\* points to a callback that was freed.
NoDanglingTimer == lifetime \cup timeout \subseteq cbs

\* The walks over transactions_list never stand on a transaction that was
\* freed under them.
WalkIsSafe ==
  pc.at \in {"check", "close_transactions"} => pc.t \in Mids \cup {0}

\* A confirmable request that is still waiting, and of which nothing was heard,
\* is still being retransmitted: it is never given up without a word.
StillTrying ==
  \A q \in cbs :
    (req[q].con /\ mid[q] \notin heard /\ q \notin answered) => mid[q] \in Mids

\* What include/oc_api.h:2057-2058 says of oc_do_get_with_timeout and the like: a
\* request with a timeout does not end in silence; a response came, or the
\* handler was called.
TimeoutIsNotified ==
  \A q \in DOMAIN req :
    (req[q].timeout # "none" /\ q \notin cbs) =>
      (q \in answered \/ calls[q] > 0)

\* What the code keeps of it: so it is if the timeout is shorter than the
\* lifetime of the exchange, whatever ends the request and whatever timeouts
\* the other requests have.
ShortTimeoutIsNotified ==
  \A q \in DOMAIN req :
    (req[q].timeout = "short" /\ q \notin cbs) =>
      (q \in answered \/ calls[q] > 0)

\* Nothing of an exchange is kept for ever.  There are MaxRequests of them at
\* most, so in the end all have ended: of client callbacks, with whatever delayed
\* callbacks dispatch_coap_request and oc_do_request have set, only those of
\* observations are left, and of transactions only those that wait for a session.
ExchangesEnd ==
  <>[](/\ \A q \in cbs : req[q].kind = "observe"
       /\ \A k \in DOMAIN transactions : transactions[k].ep \in Secured)
=============================================================================
