--------------------------- MODULE OcClientProofs ----------------------------
(***************************************************************************)
(* Proofs about client requests, for any number of requests, peers and     *)
(* retransmissions, whatever the handlers issue and whatever the network   *)
(* delivers, repeats or loses: a response handler is called at most once,  *)
(* no delayed callback outlives the client callback it points to, a        *)
(* confirmable request is being retried until its handler is told, a       *)
(* request with a timeout never ends in silence, and the walk over the     *)
(* transactions of a closing session never meets freed memory.             *)
(***************************************************************************)
EXTENDS OcClient, OcListProofs, SequenceTheorems, WellFoundedInduction

-----------------------------------------------------------------------------
(* Neither property is inductive.  The reason a handler is not called      *)
(* twice is that every way to end a request looks the callback up in       *)
(* g_client_cbs, and that a callback in the list has not been told yet.    *)

\* The callbacks in the list, and the delayed callbacks that point to them, are
\* those of requests that were issued.
ClientType ==
  /\ req \in Seq(Ask) /\ Len(req) <= MaxRequests
  /\ cbs \subseteq DOMAIN req
  /\ calls \in [Id -> Nat]

\* A handler is called only after its request was issued.
NotCalledBefore == \A q \in Id \ DOMAIN req : calls[q] = 0

\* A callback in the list waits: its handler has not been called.
ListedIsWaiting ==
  \A q \in cbs : req[q].kind = "unicast" => calls[q] = 0

ClientInv ==
  /\ ClientType
  /\ NotCalledBefore
  /\ ListedIsWaiting
  /\ HandlerAtMostOnce
  /\ NoDanglingTimer

LEMMA ClientInit == Init => ClientInv
  BY ClientAssumption
     DEF Init, ClientInv, ClientType, NotCalledBefore, ListedIsWaiting,
         HandlerAtMostOnce, NoDanglingTimer, Id

-----------------------------------------------------------------------------
(* What all the ways to end a request have in common.                       *)

\* A request that may be issued leaves those before it as they are, and takes
\* the next ID.
LEMMA NewRequest ==
  ASSUME ClientType, NEW P, P \subseteq Ask, NEW new \in News(P)
  PROVE  /\ req \o new \in Seq(Ask)
         /\ Len(req \o new) <= MaxRequests
         /\ \A q \in DOMAIN req : q \in DOMAIN (req \o new)
                                  /\ (req \o new)[q] = req[q]
         /\ NewId(new) = DOMAIN (req \o new) \ DOMAIN req
         /\ << >> \in News(P)
<1> USE DEF ClientType
<1>1. CASE new = << >>
  <2>1. req \o new = req
    BY <1>1
  <2>2. NewId(new) = {}
    BY <1>1 DEF NewId
  <2> QED
    BY <2>1, <2>2 DEF News
<1>2. CASE new # << >>
  <2>1. PICK p \in P : new = <<p>>
    BY <1>2 DEF News
  <2>2. Len(req) < MaxRequests
    BY <1>2 DEF News
  <2>3. p \in Ask /\ new \in Seq(Ask) /\ Len(new) = 1 /\ DOMAIN new = {1}
    BY <2>1
  <2>4. /\ req \o new \in Seq(Ask)
        /\ Len(req \o new) = Len(req) + 1
        /\ \A q \in 1..Len(req) : (req \o new)[q] = req[q]
    <3>1. req \in Seq(Ask) /\ new \in Seq(Ask) /\ Len(new) = 1
      BY <2>3
    <3> HIDE DEF ClientType
    <3>2. req \o new \in Seq(Ask)
      BY <3>1, ConcatProperties, Zenon
    <3>3. Len(req \o new) = Len(req) + Len(new)
      BY <3>1, ConcatProperties, Zenon
    <3>4. \A q \in 1..(Len(req) + Len(new)) :
            (req \o new)[q] = IF q <= Len(req) THEN req[q]
                              ELSE new[q - Len(req)]
      BY <3>1, ConcatProperties, Zenon
    <3>5. Len(req) \in Nat
      BY <3>1
    <3>6. \A q \in 1..Len(req) : (req \o new)[q] = req[q]
      <4> TAKE q \in 1..Len(req)
      <4>1. q \in 1..(Len(req) + Len(new)) /\ q <= Len(req)
        BY <3>1, <3>5
      <4> QED
        BY <3>4, <4>1, Zenon
    <3> QED
      BY <3>1, <3>2, <3>3, <3>6
  <2>5. DOMAIN req = 1..Len(req) /\ DOMAIN (req \o new) = 1..(Len(req) + 1)
    BY <2>4
  <2>6. NewId(new) = {Len(req) + 1}
    BY <2>3 DEF NewId
  <2> QED
    BY <2>2, <2>4, <2>5, <2>6, ClientAssumption DEF News
<1> QED
  BY <1>1, <1>2

\* The callbacks in ended leave the list with their delayed callbacks, the
\* handlers in told are called, and a request may be issued: the invariant
\* survives if who was told was listed, and stays listed only if it may be told
\* again.
LEMMA EndAndIssue ==
  ASSUME ClientInv,
         NEW P, P \subseteq Ask, NEW new \in News(P), NEW rest,
         NEW ended \in SUBSET cbs, NEW told \in SUBSET cbs,
         \A q \in told : req[q].kind = "unicast" => q \in ended,
         Issue(new, cbs \ ended, rest, lifetime \ ended, timeout \ ended),
         calls' = Called(told)
  PROVE  ClientInv'
<1>1. /\ req' \in Seq(Ask) /\ Len(req') <= MaxRequests
      /\ \A q \in DOMAIN req : q \in DOMAIN req' /\ req'[q] = req[q]
      /\ NewId(new) = DOMAIN req' \ DOMAIN req
  BY NewRequest DEF Issue, ClientInv
<1>2. /\ cbs' = (cbs \ ended) \cup NewId(new)
      /\ cbs \subseteq DOMAIN req
      /\ DOMAIN req' = 1..Len(req') /\ DOMAIN req = 1..Len(req)
      /\ DOMAIN req' \subseteq Id
  BY <1>1, ClientAssumption DEF Issue, ClientInv, ClientType, Id
<1>3. /\ calls \in [Id -> Nat] /\ calls' \in [Id -> Nat]
      /\ \A q \in Id : /\ calls'[q] <= calls[q] + 1
                       /\ q \notin told => calls'[q] = calls[q]
  BY DEF Called, ClientInv, ClientType
<1>4. ClientType'
  BY <1>1, <1>2, <1>3 DEF ClientType
<1>5. NotCalledBefore'
  BY <1>1, <1>2, <1>3 DEF NotCalledBefore, ClientInv
<1>6. ListedIsWaiting'
  <2> SUFFICES ASSUME NEW q \in cbs', req'[q].kind = "unicast"
               PROVE  calls'[q] = 0
    BY DEF ListedIsWaiting
  <2>1. CASE q \in NewId(new)
    BY <2>1, <1>1, <1>2, <1>3 DEF NotCalledBefore, ClientInv
  <2>2. CASE q \in cbs \ ended
    BY <2>2, <1>1, <1>2, <1>3 DEF ListedIsWaiting, ClientInv
  <2> QED
    BY <2>1, <2>2, <1>2
<1>7. HandlerAtMostOnce'
  <2> SUFFICES ASSUME NEW q \in DOMAIN req', req'[q].kind = "unicast"
               PROVE  calls'[q] <= 1
    BY DEF HandlerAtMostOnce
  <2>1. CASE q \in told
    BY <2>1, <1>1, <1>2, <1>3 DEF ListedIsWaiting, ClientInv
  <2>2. CASE q \notin told /\ q \in DOMAIN req
    BY <2>2, <1>1, <1>2, <1>3 DEF HandlerAtMostOnce, ClientInv
  <2>3. CASE q \notin told /\ q \notin DOMAIN req
    BY <2>3, <1>1, <1>2, <1>3 DEF NotCalledBefore, ClientInv
  <2> QED
    BY <2>1, <2>2, <2>3
<1>8. NoDanglingTimer'
  BY <1>2 DEF NoDanglingTimer, ClientInv, Issue, WithLifetime, WithTimeout
<1> QED
  BY <1>4, <1>5, <1>6, <1>7, <1>8 DEF ClientInv

\* client_cb_notify_with_code for callbacks that are in the list.
LEMMA NotifyKeeps ==
  ASSUME ClientInv,
         NEW new \in News(HandlerProfile), NEW rest,
         NEW S \in SUBSET cbs, Notify(S, new, rest)
  PROVE  ClientInv'
<1>1. HandlerProfile \subseteq Ask
  BY ClientAssumption
<1> DEFINE n == IF S = {} THEN << >> ELSE new
<1>2. n \in News(HandlerProfile)
  BY DEF News
<1>3. Issue(n, cbs \ S, rest, lifetime \ S, timeout \ S) /\ calls' = Called(S)
  BY DEF Notify
<1> HIDE DEF n
<1> QED
  BY <1>1, <1>2, <1>3, EndAndIssue

-----------------------------------------------------------------------------
(* The actions. *)

\* What the actions that touch neither the requests nor their callbacks leave.
clientVars == <<req, cbs, lifetime, timeout, calls>>

LEMMA ClientUnchanged ==
  ASSUME ClientInv, UNCHANGED clientVars
  PROVE  ClientInv'
BY DEF clientVars, ClientInv, ClientType, NotCalledBefore, ListedIsWaiting,
       HandlerAtMostOnce, NoDanglingTimer

LEMMA ApplicationKeeps ==
  ASSUME ClientInv, Application
  PROVE  ClientInv'
<1>1. ASSUME NEW new \in News(Profile), DoRequest(new)
      PROVE  ClientInv'
  <2>1. Profile \subseteq Ask
    BY ClientAssumption
  <2>2. Issue(new, cbs \ {}, transactions, lifetime \ {}, timeout \ {})
    <3>1. cbs \ {} = cbs /\ lifetime \ {} = lifetime /\ timeout \ {} = timeout
      OBVIOUS
    <3> QED
      BY <1>1, <3>1 DEF DoRequest
  <2>3. calls' = Called({})
    BY <1>1 DEF DoRequest, Called, ClientInv, ClientType
  <2> QED
    BY <2>1, <2>2, <2>3, EndAndIssue
<1>2. ASSUME NEW q \in cbs, StopObserve(q)
      PROVE  ClientInv'
  BY <1>2, ClientUnchanged DEF StopObserve, clientVars
<1> QED
  BY <1>1, <1>2 DEF Application

LEMMA NetworkKeeps ==
  ASSUME ClientInv, Network
  PROVE  ClientInv'
<1>1. ASSUME NEW s, ReceiveEmpty(s)
      PROVE  ClientInv'
  BY <1>1, ClientUnchanged DEF ReceiveEmpty, clientVars
<1>2. ASSUME NEW s, NEW piggybacked \in BOOLEAN, ReceiveLate(s, piggybacked)
      PROVE  ClientInv'
  BY <1>2, ClientUnchanged DEF ReceiveLate, clientVars
<1>3. ASSUME NEW s, NEW piggybacked \in BOOLEAN, NEW parsed \in BOOLEAN,
             NEW observe \in BOOLEAN,
             NEW new \in News(HandlerProfile),
             ReceiveResponse(s, piggybacked, parsed, observe, new)
      PROVE  ClientInv'
  <2> DEFINE ended == IF Keeps(s.q, observe) THEN {} ELSE {s.q}
             told  == IF parsed THEN {s.q} ELSE {}
             rest  == IF piggybacked THEN TransactionsWithout(s.mid)
                      ELSE transactions
             n     == IF parsed THEN new ELSE << >>
  <2>1. HandlerProfile \subseteq Ask
    BY ClientAssumption
  <2>2. n \in News(HandlerProfile)
    BY DEF News
  <2>3. ended \in SUBSET cbs /\ told \in SUBSET cbs
    BY <1>3 DEF ReceiveResponse
  <2>4. \A q \in told : req[q].kind = "unicast" => q \in ended
    BY <1>3 DEF ReceiveResponse, Keeps
  <2>5. Issue(n, cbs \ ended, rest, lifetime \ ended, timeout \ ended)
    BY <1>3 DEF ReceiveResponse
  <2>6. calls' = Called(told)
    BY <1>3 DEF ReceiveResponse, Called, ClientInv, ClientType
  <2> HIDE DEF ended, told, rest, n
  <2> QED
    BY <2>1, <2>2, <2>3, <2>4, <2>5, <2>6, EndAndIssue
<1> QED
  BY <1>1, <1>2, <1>3 DEF Network

LEMMA TimersKeep ==
  ASSUME ClientInv, Timers
  PROVE  ClientInv'
<1>1. ASSUME NEW q \in cbs, LifetimeEnds(q)
      PROVE  ClientInv'
  BY <1>1 DEF LifetimeEnds, ClientInv, ClientType, NotCalledBefore,
              ListedIsWaiting, HandlerAtMostOnce, NoDanglingTimer
<1>2. ASSUME NEW q \in cbs, NEW new \in News(HandlerProfile),
             RequestTimeout(q, new)
      PROVE  ClientInv'
  <2>1. {q} \in SUBSET cbs /\ Notify({q}, new, transactions)
    BY <1>2 DEF RequestTimeout
  <2> QED
    BY <2>1, NotifyKeeps
<1>3. ASSUME NEW k, Expire(k)
      PROVE  ClientInv'
  BY <1>3, ClientUnchanged DEF Expire, clientVars
<1> QED
  BY <1>1, <1>2, <1>3 DEF Timers

\* A set of request IDs has a least element.
LEMMA FirstInList ==
  ASSUME NEW S \in SUBSET Nat, S # {}
  PROVE  Min(S) \in S
<1> DEFINE earlier == {ss \in Nat \X Nat : ss[1] < ss[2]}
<1>1. IsWellFoundedOn(earlier, Nat)
  BY NatLessThanWellFounded, Zenon DEF OpToRel
<1>2. PICK x \in S : \A y \in S : ~(<<y, x>> \in earlier)
  <2> HIDE DEF earlier
  <2> QED
    BY <1>1, WFMin
<1>3. ASSUME NEW y \in S
      PROVE  x <= y
  <2>1. x \in Nat /\ y \in Nat
    OBVIOUS
  <2>2. y < x => <<y, x>> \in earlier
    BY <2>1
  <2> QED
    BY <1>2, <2>1, <2>2
<1> QED
  BY <1>3 DEF Min

LEMMA WalkKeeps ==
  ASSUME ClientInv, Walk
  PROVE  ClientInv'
<1>1. CASE \/ CheckStart \/ CheckEnd \/ CheckOne
           \/ CloseTransactionsEnd \/ CloseEnd
  BY <1>1, ClientUnchanged DEF CheckStart, CheckEnd, CheckOne,
     CloseTransactionsEnd, CloseEnd, clientVars
<1>2. \A m : WaitingFor(m) \in SUBSET cbs /\ TimedOut(m) \in SUBSET cbs
  BY DEF WaitingFor, TimedOut
<1>3. ASSUME NEW new \in News(HandlerProfile), CheckTimeout(new)
      PROVE  ClientInv'
  BY <1>2, <1>3, NotifyKeeps DEF CheckTimeout
<1>4. ASSUME NEW new \in News(HandlerProfile), CheckTimeoutSecured(new)
      PROVE  ClientInv'
  BY <1>2, <1>4, NotifyKeeps DEF CheckTimeoutSecured
<1>5. ASSUME NEW new \in News(HandlerProfile), CheckTimeoutNoPeer(new)
      PROVE  ClientInv'
  BY <1>2, <1>5, NotifyKeeps DEF CheckTimeoutNoPeer
<1>6. ASSUME NEW new \in News(HandlerProfile), CloseTransaction(new)
      PROVE  ClientInv'
  <2>1. CASE transactions[At(pc.t)].ep = pc.ep
    <3>1. Notify(WaitingFor(pc.t), new, TransactionsWithout(pc.t))
      BY <1>6, <2>1 DEF CloseTransaction
    <3> QED
      BY <1>2, <3>1, NotifyKeeps
  <2>2. CASE transactions[At(pc.t)].ep # pc.ep
    BY <1>6, <2>2, ClientUnchanged DEF CloseTransaction, clientVars
  <2> QED
    BY <2>1, <2>2
<1>7. ASSUME NEW new \in News(HandlerProfile), CloseCb(new)
      PROVE  ClientInv'
  <2> DEFINE S == OfEndpoint(pc.ep)
  <2>1. S \in SUBSET cbs /\ S \in SUBSET Nat /\ S # {}
    BY <1>7 DEF CloseCb, OfEndpoint, ClientInv, ClientType
  <2>2. {Min(S)} \in SUBSET cbs /\ Notify({Min(S)}, new, transactions)
    <3> HIDE DEF S
    <3>1. Min(S) \in S
      BY <2>1, FirstInList
    <3> QED
      BY <1>7, <2>1, <3>1 DEF CloseCb, S
  <2> QED
    BY <2>2, NotifyKeeps
<1> QED
  BY <1>1, <1>3, <1>4, <1>5, <1>6, <1>7 DEF Walk

LEMMA SessionsKeep ==
  ASSUME ClientInv, Sessions
  PROVE  ClientInv'
BY ClientUnchanged DEF Sessions, PeerConnects, PeerCloses, clientVars

-----------------------------------------------------------------------------
LEMMA ClientInvariant == Spec => []ClientInv
<1>1. ClientInv /\ [Next]_vars => ClientInv'
  <2> SUFFICES ASSUME ClientInv, [Next]_vars
               PROVE  ClientInv'
    OBVIOUS
  <2>1. CASE UNCHANGED vars
    BY <2>1, ClientUnchanged DEF vars, clientVars
  <2> QED
    BY <2>1, ApplicationKeeps, NetworkKeeps, TimersKeep, WalkKeeps,
       SessionsKeep DEF Next
<1> QED
  BY ClientInit, <1>1, PTL DEF Spec

\* The handler of a request (oc_client_cb_t.handler) is called at most once,
\* whichever of the answer, the end of the retransmissions, the timeout and the
\* end of the session comes first, and whatever comes after it.
THEOREM HandlerIsCalledAtMostOnce == Spec => []HandlerAtMostOnce
  BY ClientInvariant, PTL DEF ClientInv

\* A delayed callback never points to a client callback that was freed: the
\* assertions of oc_client_cb_dealloc hold.
THEOREM NoTimerDangles == Spec => []NoDanglingTimer
  BY ClientInvariant, PTL DEF ClientInv
-----------------------------------------------------------------------------
(* A request with a timeout does not end in silence.                        *)

\* A callback with a timeout has the delayed callback that notifies it for as
\* long as it is in the list, so if the end of its lifetime comes later it
\* finds nothing.
TimeoutIsSet == \A q \in cbs : req[q].timeout # "none" => q \in timeout

\* Every request is one that the application or a handler may issue.
IsAsked == \A q \in DOMAIN req : req[q] \in Profile \cup HandlerProfile

TimeoutInv == TimeoutIsSet /\ IsAsked /\ ShortTimeoutIsNotified

\* A new request is the one that was asked for, and a message ID is left.
LEMMA NewIs ==
  ASSUME ClientType, NEW P, P \subseteq Ask, NEW new \in News(P),
         NEW q \in NewId(new)
  PROVE  /\ q = Len(req) + 1 /\ (req \o new)[q] = Head(new)
         /\ Head(new) \in P /\ lastMid < MaxMids /\ Len(new) = 1
<1>1. PICK p \in P : new = <<p>>
  BY DEF News, NewId
<1>2. lastMid < MaxMids
  BY <1>1 DEF News
<1>3. q = Len(req) + 1
  BY <1>1 DEF NewId
<1>4. req \in Seq(Ask) /\ p \in Ask
  BY DEF ClientType
<1>5. (req \o <<p>>)[Len(req) + 1] = p
  BY <1>4
<1> QED
  BY <1>1, <1>2, <1>3, <1>5

\* The common form of the steps that end requests and issue one: whoever had a
\* timeout and ends was answered or told.
LEMMA TimeoutIssue ==
  ASSUME ClientInv, TimeoutInv,
         NEW P, P \subseteq Profile \cup HandlerProfile,
         NEW new \in News(P), NEW rest, NEW ended \in SUBSET cbs,
         Issue(new, cbs \ ended, rest, lifetime \ ended, timeout \ ended),
         answered \subseteq answered',
         \A q \in Id : calls[q] > 0 => calls'[q] > 0,
         \A q \in ended : req[q].timeout # "none" =>
           q \in answered' \/ calls'[q] > 0
  PROVE  TimeoutInv'
<1>1. P \subseteq Ask
  BY ClientAssumption
<1>2. /\ \A q \in DOMAIN req : q \in DOMAIN req' /\ req'[q] = req[q]
      /\ NewId(new) = DOMAIN req' \ DOMAIN req
      /\ cbs \subseteq DOMAIN req
  BY <1>1, NewRequest DEF Issue, ClientInv, ClientType
<1>3. \A q \in NewId(new) : req'[q] = Head(new) /\ Head(new) \in P
  BY <1>1, NewIs DEF Issue, ClientInv
<1>4. /\ cbs' = (cbs \ ended) \cup NewId(new)
      /\ timeout' = (timeout \ ended) \cup WithTimeout(new)
  BY DEF Issue
<1>5. DOMAIN req \subseteq Id
  BY ClientAssumption DEF ClientInv, ClientType, Id
<1>6. TimeoutIsSet'
  BY <1>2, <1>3, <1>4 DEF TimeoutInv, TimeoutIsSet, WithTimeout
<1>7. IsAsked'
  BY <1>2, <1>3 DEF TimeoutInv, IsAsked
<1>8. ShortTimeoutIsNotified'
  BY <1>2, <1>4, <1>5 DEF TimeoutInv, ShortTimeoutIsNotified
<1> QED
  BY <1>6, <1>7, <1>8 DEF TimeoutInv

LEMMA CalledCounts ==
  ASSUME ClientType, NEW S
  PROVE  /\ \A q \in Id : calls[q] > 0 => Called(S)[q] > 0
         /\ \A q \in S \cap Id : Called(S)[q] > 0
BY DEF ClientType, Called

LEMMA TimeoutNotify ==
  ASSUME ClientInv, TimeoutInv,
         NEW new \in News(HandlerProfile), NEW rest,
         NEW S \in SUBSET cbs, Notify(S, new, rest), UNCHANGED answered
  PROVE  TimeoutInv'
<1> DEFINE n == IF S = {} THEN << >> ELSE new
<1>1. n \in News(HandlerProfile)
  BY DEF News
<1>2. Issue(n, cbs \ S, rest, lifetime \ S, timeout \ S) /\ calls' = Called(S)
  BY DEF Notify
<1>3. S \subseteq Id
  BY ClientAssumption DEF ClientInv, ClientType, Id
<1>4. /\ \A q \in Id : calls[q] > 0 => calls'[q] > 0
      /\ \A q \in S : calls'[q] > 0
  BY <1>2, <1>3, CalledCounts DEF ClientInv
<1> HIDE DEF n
<1> QED
  BY <1>1, <1>2, <1>4, TimeoutIssue

LEMMA TimeoutUnchanged ==
  ASSUME TimeoutInv, UNCHANGED clientVars, UNCHANGED answered
  PROVE  TimeoutInv'
BY DEF clientVars, TimeoutInv, TimeoutIsSet, IsAsked, ShortTimeoutIsNotified

LEMMA TimeoutStep ==
  ASSUME ClientInv, TimeoutInv, [Next]_vars
  PROVE  TimeoutInv'
<1>1. ASSUME NEW new \in News(Profile), DoRequest(new)
      PROVE  TimeoutInv'
  <2> DEFINE none == {}
  <2>1. /\ cbs \ none = cbs /\ lifetime \ none = lifetime
        /\ timeout \ none = timeout /\ none \in SUBSET cbs
    OBVIOUS
  <2>2. Issue(new, cbs \ none, transactions, lifetime \ none, timeout \ none)
    BY <1>1, <2>1 DEF DoRequest
  <2>3. answered' = answered /\ calls' = calls /\ \A q \in none : FALSE
    BY <1>1 DEF DoRequest
  <2> HIDE DEF none
  <2> QED
    BY <2>1, <2>2, <2>3, TimeoutIssue
<1>2. ASSUME NEW s, NEW piggybacked \in BOOLEAN, NEW parsed \in BOOLEAN,
             NEW observe \in BOOLEAN,
             NEW new \in News(HandlerProfile),
             ReceiveResponse(s, piggybacked, parsed, observe, new)
      PROVE  TimeoutInv'
  <2> DEFINE ended == IF Keeps(s.q, observe) THEN {} ELSE {s.q}
             rest  == IF piggybacked THEN TransactionsWithout(s.mid)
                      ELSE transactions
             n     == IF parsed THEN new ELSE << >>
  <2>1. n \in News(HandlerProfile)
    BY DEF News
  <2>2. ended \in SUBSET cbs
    BY <1>2 DEF ReceiveResponse
  <2>3. Issue(n, cbs \ ended, rest, lifetime \ ended, timeout \ ended)
    BY <1>2 DEF ReceiveResponse
  <2>4. answered \subseteq answered' /\ \A q \in ended : q \in answered'
    BY <1>2 DEF ReceiveResponse
  <2>5. \A q \in Id : calls[q] > 0 => calls'[q] > 0
    BY <1>2, CalledCounts DEF ReceiveResponse, ClientInv
  <2> HIDE DEF ended, rest, n
  <2> QED
    BY <2>1, <2>2, <2>3, <2>4, <2>5, TimeoutIssue
<1>3. ASSUME NEW q \in cbs, LifetimeEnds(q)
      PROVE  TimeoutInv'
  <2>1. /\ q \in timeout => req[q].timeout = "long"
        /\ cbs' = cbs \ {q} /\ timeout' = timeout \ {q}
        /\ UNCHANGED <<req, answered, calls>>
    BY <1>3 DEF LifetimeEnds
  <2>2. req[q].timeout # "short"
    BY <2>1 DEF TimeoutInv, TimeoutIsSet
  <2> QED
    BY <2>1, <2>2
       DEF TimeoutInv, TimeoutIsSet, IsAsked, ShortTimeoutIsNotified
<1>4. ASSUME NEW q \in cbs, NEW new \in News(HandlerProfile),
             RequestTimeout(q, new)
      PROVE  TimeoutInv'
  BY <1>4, TimeoutNotify DEF RequestTimeout
<1>5. \A m : WaitingFor(m) \in SUBSET cbs /\ TimedOut(m) \in SUBSET cbs
  BY DEF WaitingFor, TimedOut
<1>6. ASSUME NEW new \in News(HandlerProfile),
             \/ CheckTimeout(new) \/ CheckTimeoutSecured(new)
             \/ CheckTimeoutNoPeer(new)
      PROVE  TimeoutInv'
  <2>1. UNCHANGED answered /\ \E rest : Notify(TimedOut(pc.t), new, rest)
    BY <1>6 DEF CheckTimeout, CheckTimeoutSecured, CheckTimeoutNoPeer
  <2> QED
    BY <1>5, <2>1, TimeoutNotify
<1>7. ASSUME NEW new \in News(HandlerProfile), CloseTransaction(new)
      PROVE  TimeoutInv'
  <2>1. CASE transactions[At(pc.t)].ep = pc.ep
    BY <1>5, <1>7, <2>1, TimeoutNotify DEF CloseTransaction
  <2>2. CASE transactions[At(pc.t)].ep # pc.ep
    BY <1>7, <2>2, TimeoutUnchanged DEF CloseTransaction, clientVars
  <2> QED
    BY <2>1, <2>2
<1>8. ASSUME NEW new \in News(HandlerProfile), CloseCb(new)
      PROVE  TimeoutInv'
  <2> DEFINE S == OfEndpoint(pc.ep)
  <2>1. S \in SUBSET cbs /\ S \in SUBSET Nat /\ S # {}
    BY <1>8 DEF CloseCb, OfEndpoint, ClientInv, ClientType
  <2>2. {Min(S)} \in SUBSET cbs /\ Notify({Min(S)}, new, transactions)
    <3> HIDE DEF S
    <3>1. Min(S) \in S
      BY <2>1, FirstInList
    <3> QED
      BY <1>8, <2>1, <3>1 DEF CloseCb, S
  <2> QED
    BY <1>8, <2>2, TimeoutNotify DEF CloseCb
<1>9. ASSUME NEW q \in cbs, StopObserve(q)
      PROVE  TimeoutInv'
  BY <1>9, TimeoutUnchanged DEF StopObserve, clientVars
<1>10. ASSUME NEW s, NEW piggybacked \in BOOLEAN,
              ReceiveEmpty(s) \/ ReceiveLate(s, piggybacked)
       PROVE  TimeoutInv'
  BY <1>10, TimeoutUnchanged DEF ReceiveEmpty, ReceiveLate, clientVars
<1>11. ASSUME NEW k, Expire(k)
       PROVE  TimeoutInv'
  BY <1>11, TimeoutUnchanged DEF Expire, clientVars
<1>12. CASE \/ CheckStart \/ CheckEnd \/ CheckOne
            \/ CloseTransactionsEnd \/ CloseEnd
  BY <1>12, TimeoutUnchanged DEF CheckStart, CheckEnd, CheckOne,
     CloseTransactionsEnd, CloseEnd, clientVars
<1>13. CASE Sessions
  BY <1>13, TimeoutUnchanged DEF Sessions, PeerConnects, PeerCloses, clientVars
<1>14. CASE UNCHANGED vars
  BY <1>14, TimeoutUnchanged DEF vars, clientVars
<1> QED
  BY <1>1, <1>2, <1>3, <1>4, <1>6, <1>7, <1>8, <1>9, <1>10, <1>11, <1>12,
     <1>13, <1>14 DEF Next, Application, Network, Timers, Walk

\* A request with a timeout shorter than the lifetime of its exchange
\* (oc_do_get_with_timeout and the like) is answered or its handler is told, for
\* any number of requests, with any timeouts of the others, and whatever ends it.
THEOREM TimeoutNeverSilent == Spec => []ShortTimeoutIsNotified
<1>1. Init => TimeoutInv
  BY DEF Init, TimeoutInv, TimeoutIsSet, IsAsked, ShortTimeoutIsNotified
<1>2. ClientInv /\ TimeoutInv /\ [Next]_vars => TimeoutInv'
  BY TimeoutStep
<1>3. TimeoutInv => ShortTimeoutIsNotified
  BY DEF TimeoutInv
<1> QED
  BY <1>1, <1>2, <1>3, ClientInvariant, PTL DEF Spec

-----------------------------------------------------------------------------
(* The transactions.                                                        *)

MidsOf(list) == {list[k].mid : k \in DOMAIN list}

\* The message IDs and transactions that a new request brings.
LEMMA NewMid ==
  ASSUME ClientType, mid \in Seq(Mid), Len(mid) = Len(req),
         lastMid \in 0..MaxMids, NEW P, P \subseteq Ask, NEW new \in News(P),
         NEW more, more = [k \in DOMAIN new |-> lastMid + 1]
  PROVE  /\ mid \o more \in Seq(Mid) /\ Len(mid \o more) = Len(req \o new)
         /\ \A q \in DOMAIN req : (mid \o more)[q] = mid[q]
         /\ \A q \in NewId(new) : (mid \o more)[q] = lastMid + 1
         /\ lastMid + Len(new) \in lastMid..MaxMids
         /\ new # << >> => lastMid + Len(new) = lastMid + 1
<1>1. MaxMids \in Nat /\ req \in Seq(Ask)
  BY ClientAssumption DEF ClientType
<1>2. CASE new = << >>
  <2>1. more = << >> /\ NewId(new) = {}
    BY <1>2 DEF NewId
  <2> QED
    BY <1>1, <1>2, <2>1
<1>3. CASE new # << >>
  <2>1. PICK p \in P : new = <<p>>
    BY <1>3 DEF News
  <2>2. lastMid < MaxMids
    BY <1>3 DEF News
  <2>3. p \in Ask /\ DOMAIN new = {1} /\ Len(new) = 1
    BY <2>1
  <2>4. more = <<lastMid + 1>> /\ lastMid + 1 \in Mid
    BY <1>1, <2>2, <2>3 DEF Mid
  <2>5. NewId(new) = {Len(req) + 1}
    BY <2>3 DEF NewId
  <2> DEFINE x == lastMid + 1
  <2> HIDE DEF x
  <2>6. /\ mid \o <<x>> \in Seq(Mid) /\ Len(mid \o <<x>>) = Len(mid) + 1
        /\ \A q \in 1..Len(mid) : (mid \o <<x>>)[q] = mid[q]
        /\ (mid \o <<x>>)[Len(mid) + 1] = x
    <3>1. x \in Mid
      BY <2>4 DEF x
    <3> QED
      BY <3>1
  <2>7. Len(req \o new) = Len(req) + 1 /\ DOMAIN req = 1..Len(req)
    BY <1>1, <2>1, <2>3
  <2> QED
    BY <1>1, <2>2, <2>3, <2>4, <2>5, <2>6, <2>7 DEF x
<1> QED
  BY <1>2, <1>3

LEMMA NewTransactionIs ==
  ASSUME ClientType, lastMid \in 0..MaxMids,
         NEW P, P \subseteq Ask, NEW new \in News(P)
  PROVE  /\ NewTransaction(new) \in Seq(Transaction)
         /\ \/ NewTransaction(new) = << >>
            \/ /\ new # << >> /\ Head(new) \in P /\ Head(new).con
               /\ \E t \in Transaction : /\ NewTransaction(new) = <<t>>
                                         /\ t.mid = lastMid + 1
         /\ new # << >> /\ Head(new).con => NewTransaction(new) # << >>
<1>1. CASE new # << >> /\ Head(new).con
  <2>1. PICK p \in P : new = <<p>>
    BY <1>1 DEF News
  <2>2. lastMid < MaxMids /\ p \in Ask /\ Head(new) = p
    BY <1>1, <2>1 DEF News
  <2> DEFINE t == [mid |-> lastMid + 1, ep |-> p.ep, counter |-> 0,
                   armed |-> TRUE]
  <2>3. t \in Transaction /\ t.mid = lastMid + 1
    BY <2>2, ClientAssumption DEF Transaction, Mid, Ask
  <2>4. NewTransaction(new) = <<t>>
    BY <1>1, <2>2 DEF NewTransaction
  <2> HIDE DEF t
  <2> QED
    BY <1>1, <2>2, <2>3, <2>4
<1>2. CASE ~(new # << >> /\ Head(new).con)
  BY <1>2 DEF NewTransaction
<1> QED
  BY <1>1, <1>2

\* A list of transactions with, or without, some of their message IDs.
LEMMA MidsOfConcat ==
  ASSUME NEW a \in Seq(Transaction), NEW b \in Seq(Transaction)
  PROVE  /\ a \o b \in Seq(Transaction)
         /\ MidsOf(a \o b) = MidsOf(a) \cup MidsOf(b)
<1> DEFINE c == a \o b
<1>1. /\ c \in Seq(Transaction) /\ Len(c) = Len(a) + Len(b)
      /\ Len(a) \in Nat /\ Len(b) \in Nat
      /\ \A k \in 1..Len(a) : c[k] = a[k]
      /\ \A k \in 1..Len(b) : c[Len(a) + k] = b[k]
  BY ConcatItems
<1>2. DOMAIN c = 1..Len(c) /\ DOMAIN a = 1..Len(a) /\ DOMAIN b = 1..Len(b)
  BY <1>1
<1> HIDE DEF c
<1>3. ASSUME NEW k \in 1..Len(c)
      PROVE  c[k].mid \in MidsOf(a) \cup MidsOf(b)
  <2>1. CASE k <= Len(a)
    BY <1>1, <1>2, <2>1 DEF MidsOf
  <2>2. CASE Len(a) < k
    <3>1. k - Len(a) \in 1..Len(b) /\ Len(a) + (k - Len(a)) = k
      BY <1>1, <2>2
    <3>2. c[k] = b[k - Len(a)]
      BY <1>1, <3>1
    <3> QED
      BY <1>2, <3>1, <3>2 DEF MidsOf
  <2> QED
    BY <1>1, <2>1, <2>2
<1>4. ASSUME NEW k \in 1..Len(a)
      PROVE  a[k].mid \in MidsOf(c)
  <2>1. k \in 1..Len(c) /\ c[k] = a[k]
    BY <1>1
  <2> QED
    BY <1>2, <2>1 DEF MidsOf
<1>5. ASSUME NEW k \in 1..Len(b)
      PROVE  b[k].mid \in MidsOf(c)
  <2>1. Len(a) + k \in 1..Len(c) /\ c[Len(a) + k] = b[k]
    BY <1>1
  <2> QED
    BY <1>2, <2>1 DEF MidsOf
<1>6. MidsOf(c) = MidsOf(a) \cup MidsOf(b)
  BY <1>2, <1>3, <1>4, <1>5 DEF MidsOf
<1> QED
  BY <1>1, <1>6 DEF c

LEMMA MidsWithout ==
  ASSUME transactions \in Seq(Transaction), NEW m
  PROVE  /\ TransactionsWithout(m) \in Seq(Transaction)
         /\ MidsOf(TransactionsWithout(m)) = Mids \ {m}
<1> DEFINE S == {t \in Transaction : t.mid = m}
           new == Without(transactions, S)
<1>1. new \in Seq(Transaction) /\ ItemsOf(new) = ItemsOf(transactions) \ S
  BY WithoutSelects, WithoutItems, Zenon
<1> HIDE DEF new
<1>2. /\ DOMAIN new = 1..Len(new)
      /\ DOMAIN transactions = 1..Len(transactions)
      /\ \A k \in 1..Len(transactions) : transactions[k] \in Transaction
  BY <1>1
<1>3. MidsOf(new) = {t.mid : t \in ItemsOf(new)}
  BY <1>2 DEF MidsOf, ItemsOf
<1>4. Mids = {t.mid : t \in ItemsOf(transactions)}
  BY <1>2 DEF Mids, ItemsOf
<1>5. ItemsOf(transactions) \subseteq Transaction
  BY <1>2 DEF ItemsOf
<1>6. MidsOf(new) = Mids \ {m}
  BY <1>1, <1>3, <1>4, <1>5
<1> QED
  BY <1>1, <1>6 DEF TransactionsWithout, new

LEMMA MidsAreNumbers ==
  ASSUME transactions \in Seq(Transaction)
  PROVE  Mids \subseteq Nat
<1>1. \A k \in DOMAIN transactions : transactions[k] \in Transaction
  OBVIOUS
<1>2. \A t \in Transaction : t.mid \in Nat
  BY DEF Transaction, Mid
<1> QED
  BY <1>1, <1>2 DEF Mids

DistinctMids(list) ==
  \A i, j \in DOMAIN list : list[i].mid = list[j].mid => i = j

\* Where a transaction is in the list.
LEMMA AtIs ==
  ASSUME NEW m \in Mids
  PROVE  At(m) \in DOMAIN transactions /\ transactions[At(m)].mid = m
BY DEF At, Mids

\* coap_clear_transaction removes one transaction, or none.
LEMMA Removed ==
  ASSUME transactions \in Seq(Transaction), DistinctMids(transactions), NEW m
  PROVE  /\ m \notin Mids => TransactionsWithout(m) = transactions
         /\ m \in Mids =>
              /\ Len(TransactionsWithout(m)) = Len(transactions) - 1
              /\ \A k \in 1 .. Len(transactions) - 1 :
                   TransactionsWithout(m)[k] =
                     IF k < At(m) THEN transactions[k] ELSE transactions[k + 1]
<1> DEFINE S == {t \in Transaction : t.mid = m}
<1>1. /\ DOMAIN transactions = 1..Len(transactions)
      /\ \A k \in 1..Len(transactions) : transactions[k] \in Transaction
  OBVIOUS
<1>2. CASE m \notin Mids
  <2>1. \A k \in 1..Len(transactions) : transactions[k] \notin S
    BY <1>1, <1>2 DEF Mids
  <2> HIDE DEF S
  <2>2. Without(transactions, S) = transactions
    BY <2>1, WithoutNone
  <2> QED
    BY <1>2, <2>2 DEF TransactionsWithout, S
<1>3. CASE m \in Mids
  <2> DEFINE i == At(m)
  <2>1. i \in 1..Len(transactions) /\ transactions[i].mid = m
    BY <1>1, <1>3, AtIs
  <2> HIDE DEF i
  <2>2. transactions[i] \in S
    BY <1>1, <2>1
  <2>3. \A k \in 1..Len(transactions) : k # i => transactions[k] \notin S
    BY <1>1, <2>1 DEF DistinctMids
  <2> HIDE DEF S
  <2>4. /\ Len(Without(transactions, S)) = Len(transactions) - 1
        /\ \A k \in 1 .. Len(transactions) - 1 :
             Without(transactions, S)[k] =
               IF k < i THEN transactions[k] ELSE transactions[k + 1]
    BY <2>1, <2>2, <2>3, WithoutOne
  <2> QED
    BY <1>3, <2>4 DEF TransactionsWithout, S, i
<1> QED
  BY <1>2, <1>3

LEMMA DistinctWithout ==
  ASSUME transactions \in Seq(Transaction), DistinctMids(transactions), NEW m
  PROVE  DistinctMids(TransactionsWithout(m))
<1> DEFINE new == TransactionsWithout(m)
<1>1. new \in Seq(Transaction) /\ DOMAIN new = 1..Len(new)
  BY MidsWithout
<1>2. CASE m \notin Mids
  BY <1>2, Removed
<1>3. CASE m \in Mids
  <2>1. At(m) \in 1..Len(transactions)
    BY <1>3, AtIs
  <2>2. /\ Len(new) = Len(transactions) - 1
        /\ \A k \in 1 .. Len(transactions) - 1 :
             new[k] = IF k < At(m) THEN transactions[k] ELSE transactions[k + 1]
    BY <1>3, Removed
  <2> HIDE DEF new
  <2> SUFFICES ASSUME NEW i \in 1..Len(new), NEW j \in 1..Len(new),
                      new[i].mid = new[j].mid
               PROVE  i = j
    BY <1>1 DEF DistinctMids, new
  <2> DEFINE old(k) == IF k < At(m) THEN k ELSE k + 1
  <2>3. /\ old(i) \in 1..Len(transactions) /\ new[i] = transactions[old(i)]
        /\ old(j) \in 1..Len(transactions) /\ new[j] = transactions[old(j)]
    BY <2>1, <2>2
  <2>4. old(i) = old(j)
    BY <2>3 DEF DistinctMids
  <2> QED
    BY <2>1, <2>4
<1> QED
  BY <1>2, <1>3

LEMMA DistinctConcat ==
  ASSUME NEW a \in Seq(Transaction), DistinctMids(a),
         NEW t \in Transaction, t.mid \notin MidsOf(a)
  PROVE  DistinctMids(a \o <<t>>)
<1> DEFINE c == a \o <<t>>
<1>1. /\ c \in Seq(Transaction) /\ Len(c) = Len(a) + 1 /\ DOMAIN c = 1..Len(c)
      /\ Len(a) \in Nat /\ DOMAIN a = 1..Len(a)
      /\ \A k \in 1..Len(a) : c[k] = a[k]
      /\ c[Len(a) + 1] = t
  OBVIOUS
<1> HIDE DEF c
<1>2. \A k \in 1..Len(a) : c[k].mid # t.mid
  BY <1>1 DEF MidsOf
<1> SUFFICES ASSUME NEW i \in 1..Len(c), NEW j \in 1..Len(c),
                    c[i].mid = c[j].mid
             PROVE  i = j
  BY <1>1 DEF DistinctMids, c
<1>3. CASE i \in 1..Len(a) /\ j \in 1..Len(a)
  BY <1>1, <1>3 DEF DistinctMids
<1>4. CASE i = Len(a) + 1 \/ j = Len(a) + 1
  BY <1>1, <1>2, <1>4
<1> QED
  BY <1>1, <1>3, <1>4

\* Every callback has a message ID, and those of the transactions were drawn
\* and differ.
MidsAreFresh ==
  /\ Len(mid) = Len(req)
  /\ \A m \in Mids : m <= lastMid
  /\ DistinctMids(transactions)

TransInv ==
  /\ mid \in Seq(Mid) /\ lastMid \in 0..MaxMids
  /\ transactions \in Seq(Transaction)
  /\ MidsAreFresh
  /\ IsAsked
  /\ StillTrying

\* A step that ends requests, leaves the transactions in rest and may issue a
\* request: nobody is left who waits without a transaction.
LEMMA TransIssue ==
  ASSUME ClientInv, TransInv,
         NEW P, P \subseteq Profile \cup HandlerProfile,
         NEW new \in News(P), NEW ended \in SUBSET cbs, NEW lt, NEW to,
         NEW rest \in Seq(Transaction), DistinctMids(rest),
         MidsOf(rest) \subseteq Mids,
         Issue(new, cbs \ ended, rest, lt, to),
         heard \subseteq heard', answered \subseteq answered',
         \A q \in cbs \ ended :
           req[q].con /\ mid[q] \in Mids \ MidsOf(rest) =>
             mid[q] \in heard' \/ q \in answered'
  PROVE  TransInv'
<1>1. P \subseteq Ask /\ ClientType
  BY ClientAssumption DEF ClientInv
<1> DEFINE more == [k \in DOMAIN new |-> lastMid + 1]
           tail == NewTransaction(new)
<1>2. /\ req' = req \o new /\ mid' = mid \o more
      /\ lastMid' = lastMid + Len(new)
      /\ cbs' = (cbs \ ended) \cup NewId(new)
      /\ transactions' = rest \o tail
  BY DEF Issue
<1>3. /\ \A q \in DOMAIN req : q \in DOMAIN req' /\ req'[q] = req[q]
      /\ NewId(new) = DOMAIN req' \ DOMAIN req
      /\ cbs \subseteq DOMAIN req
  BY <1>1, <1>2, NewRequest DEF ClientType
<1>4. \A q \in NewId(new) : req'[q] = Head(new) /\ Head(new) \in P
                             /\ new # << >>
  <2>1. new = << >> => NewId(new) = {}
    BY DEF NewId
  <2> QED
    BY <1>1, <1>2, <2>1, NewIs
<1>5. /\ mid \in Seq(Mid) /\ Len(mid) = Len(req) /\ lastMid \in 0..MaxMids
      /\ \A m \in Mids : m <= lastMid
  BY DEF TransInv, MidsAreFresh
<1>6. /\ mid' \in Seq(Mid) /\ Len(mid') = Len(req')
      /\ \A q \in DOMAIN req : mid'[q] = mid[q]
      /\ \A q \in NewId(new) : mid'[q] = lastMid + 1
      /\ lastMid' \in lastMid..MaxMids
      /\ new # << >> => lastMid' = lastMid + 1
  BY <1>1, <1>2, <1>5, NewMid
<1>7. /\ tail \in Seq(Transaction)
      /\ \/ tail = << >>
         \/ new # << >> /\ \E t \in Transaction : tail = <<t>> /\ t.mid = lastMid + 1
      /\ new # << >> /\ Head(new).con => tail # << >>
  BY <1>1, <1>5, NewTransactionIs
<1> HIDE DEF more, tail
<1>8. /\ transactions' \in Seq(Transaction)
      /\ Mids' = MidsOf(rest) \cup MidsOf(tail)
  <2>1. /\ rest \o tail \in Seq(Transaction)
        /\ MidsOf(rest \o tail) = MidsOf(rest) \cup MidsOf(tail)
    BY <1>7, MidsOfConcat
  <2> QED
    BY <1>2, <2>1 DEF Mids, MidsOf
<1>9. CASE tail = << >>
  <2>1. MidsOf(tail) = {} /\ rest \o tail = rest
    BY <1>9, ConcatEmpty DEF MidsOf
  <2>2. ~(new # << >> /\ Head(new).con)
    BY <1>7, <1>9
  <2>3. Mids' = MidsOf(rest) /\ DistinctMids(transactions')
    BY <1>2, <1>8, <2>1
  <2>4. lastMid \in Nat /\ lastMid' \in Nat /\ lastMid' >= lastMid
        /\ lastMid' \in 0..MaxMids
    BY <1>5, <1>6, ClientAssumption
  <2>5. \A m \in Mids' : m <= lastMid'
    <3>1. Mids \subseteq Nat /\ Mids' \subseteq Mids
      BY <2>3, MidsAreNumbers DEF TransInv
    <3> SUFFICES ASSUME NEW m \in Mids'
                 PROVE  m <= lastMid'
      OBVIOUS
    <3>2. m \in Nat /\ m <= lastMid
      BY <1>5, <3>1
    <3> QED
      BY <2>4, <3>2
  <2>6. IsAsked'
    BY <1>3, <1>4 DEF IsAsked, TransInv
  <2>7. StillTrying'
    <3> SUFFICES ASSUME NEW q \in cbs', req'[q].con, mid'[q] \notin heard',
                        q \notin answered'
                 PROVE  mid'[q] \in Mids'
      BY DEF StillTrying
    <3>1. q \notin NewId(new)
      BY <1>4, <2>2
    <3>2. q \in cbs \ ended /\ req'[q] = req[q] /\ mid'[q] = mid[q]
      BY <1>2, <1>3, <1>6, <3>1
    <3>3. mid[q] \in Mids
      BY <3>2 DEF StillTrying, TransInv
    <3> QED
      BY <2>3, <3>2, <3>3
  <2> QED
    BY <1>6, <1>8, <2>3, <2>4, <2>5, <2>6, <2>7 DEF TransInv, MidsAreFresh
<1>10. CASE tail # << >>
  <2>1. PICK t \in Transaction : tail = <<t>> /\ t.mid = lastMid + 1
    BY <1>7, <1>10
  <2>2. MidsOf(tail) = {lastMid + 1}
    BY <2>1 DEF MidsOf
  <2>3. Mids' = MidsOf(rest) \cup {lastMid + 1} /\ lastMid' = lastMid + 1
    BY <1>6, <1>7, <1>8, <1>10, <2>2
  <2>4. lastMid \in Nat /\ lastMid' \in 0..MaxMids /\ Mids \subseteq Nat
    BY <1>5, <1>6, MidsAreNumbers, ClientAssumption DEF TransInv
  <2>5. DistinctMids(transactions')
    <3>1. t.mid \notin MidsOf(rest)
      BY <1>5, <2>1, <2>4
    <3> QED
      BY <1>2, <2>1, <3>1, DistinctConcat
  <2>6. ASSUME NEW m \in Mids'
        PROVE  m <= lastMid'
    <3>1. m \in Mids \/ m = lastMid + 1
      BY <2>3
    <3>2. m \in Mids => m <= lastMid /\ m \in Nat
      BY <1>5, <2>4
    <3> QED
      BY <2>3, <2>4, <3>1, <3>2
  <2>7. IsAsked'
    BY <1>3, <1>4 DEF IsAsked, TransInv
  <2>8. StillTrying'
    <3> SUFFICES ASSUME NEW q \in cbs', req'[q].con, mid'[q] \notin heard',
                        q \notin answered'
                 PROVE  mid'[q] \in Mids'
      BY DEF StillTrying
    <3>1. CASE q \in NewId(new)
      BY <1>6, <2>3, <3>1
    <3>2. CASE q \notin NewId(new)
      <4>1. q \in cbs \ ended /\ req'[q] = req[q] /\ mid'[q] = mid[q]
        BY <1>2, <1>3, <1>6, <3>2
      <4>2. mid[q] \in Mids
        BY <4>1 DEF StillTrying, TransInv
      <4> QED
        BY <2>3, <4>1, <4>2
    <3> QED
      BY <3>1, <3>2
  <2> QED
    BY <1>6, <1>8, <2>4, <2>5, <2>6, <2>7, <2>8 DEF TransInv, MidsAreFresh
<1> QED
  BY <1>9, <1>10

\* A step that issues no request.
LEMMA TransUpdate ==
  ASSUME ClientInv, TransInv, transactions' \in Seq(Transaction),
         DistinctMids(transactions'), Mids' \subseteq Mids,
         UNCHANGED <<req, mid, lastMid>>, cbs' \subseteq cbs,
         heard \subseteq heard', answered \subseteq answered',
         Mids \ Mids' \subseteq heard'
  PROVE  TransInv'
<1>1. MidsAreFresh'
  BY DEF TransInv, MidsAreFresh
<1>2. IsAsked'
  BY DEF TransInv, IsAsked
<1>3. StillTrying'
  BY DEF TransInv, StillTrying
<1> QED
  BY <1>1, <1>2, <1>3 DEF TransInv

LEMMA TransNotify ==
  ASSUME ClientInv, TransInv,
         NEW new \in News(HandlerProfile), NEW S \in SUBSET cbs,
         NEW rest \in Seq(Transaction), DistinctMids(rest),
         MidsOf(rest) \subseteq Mids,
         Notify(S, new, rest), UNCHANGED <<heard, answered>>,
         \A q \in cbs \ S : req[q].con => mid[q] \notin Mids \ MidsOf(rest)
  PROVE  TransInv'
<1> DEFINE n == IF S = {} THEN << >> ELSE new
<1>1. n \in News(HandlerProfile)
  BY DEF News
<1>2. Issue(n, cbs \ S, rest, lifetime \ S, timeout \ S)
  BY DEF Notify
<1> HIDE DEF n
<1>3. HandlerProfile \subseteq Profile \cup HandlerProfile
  OBVIOUS
<1> QED
  BY <1>1, <1>2, <1>3, TransIssue

\* Whoever waits for a transaction that is given up is told.
LEMMA WaitingIsAll ==
  ASSUME ClientInv, TransInv, NEW m, NEW q \in cbs \ WaitingFor(m), req[q].con
  PROVE  mid[q] # m
<1>1. q \in DOMAIN req /\ req[q] \in Profile \cup HandlerProfile
  BY DEF ClientInv, ClientType, TransInv, IsAsked
<1>2. req[q].kind # "multicast"
  BY <1>1, ClientAssumption
<1> QED
  BY <1>2 DEF WaitingFor

\* coap_clear_transaction after the callback was told.
LEMMA TransCleared ==
  ASSUME ClientInv, TransInv, NEW new \in News(HandlerProfile), NEW m,
         Notify(WaitingFor(m), new, TransactionsWithout(m)),
         UNCHANGED <<heard, answered>>
  PROVE  TransInv'
<1> DEFINE rest == TransactionsWithout(m)
<1>1. rest \in Seq(Transaction) /\ MidsOf(rest) = Mids \ {m}
  BY MidsWithout DEF TransInv
<1>2. DistinctMids(rest)
  BY DistinctWithout DEF TransInv, MidsAreFresh
<1> HIDE DEF rest
<1>3. \A q \in cbs \ WaitingFor(m) :
        req[q].con => mid[q] \notin Mids \ MidsOf(rest)
  BY <1>1, WaitingIsAll
<1>4. WaitingFor(m) \in SUBSET cbs
  BY DEF WaitingFor
<1> QED
  BY <1>1, <1>2, <1>3, <1>4, TransNotify DEF rest

\* Only the counter or the timer of a transaction changes.
LEMMA TransExcept ==
  ASSUME TransInv, NEW k \in DOMAIN transactions, NEW t \in Transaction,
         t.mid = transactions[k].mid,
         NEW new, new = [transactions EXCEPT ![k] = t]
  PROVE  /\ new \in Seq(Transaction) /\ MidsOf(new) = Mids
         /\ DistinctMids(new) /\ Len(new) = Len(transactions)
<1>1. transactions \in Seq(Transaction) /\ DistinctMids(transactions)
  BY DEF TransInv, MidsAreFresh
<1>2. /\ new \in Seq(Transaction) /\ DOMAIN new = DOMAIN transactions
      /\ \A i \in DOMAIN transactions : new[i] = IF i = k THEN t
                                                 ELSE transactions[i]
      /\ Len(new) = Len(transactions)
  BY <1>1
<1>3. \A i \in DOMAIN transactions : new[i].mid = transactions[i].mid
  BY <1>2
<1>4. DistinctMids(new)
  BY <1>1, <1>2, <1>3 DEF DistinctMids
<1>5. MidsOf(new) = Mids
  BY <1>2, <1>3 DEF MidsOf, Mids
<1> QED
  BY <1>2, <1>4, <1>5

LEMMA CountedIs ==
  ASSUME NEW t \in Transaction, NEW a \in BOOLEAN
  PROVE  /\ [t EXCEPT !.counter = Counted(t)] \in Transaction
         /\ [t EXCEPT !.counter = Counted(t)].mid = t.mid
         /\ [t EXCEPT !.counter = Counted(t)].ep = t.ep
         /\ [t EXCEPT !.armed = a] \in Transaction
         /\ [t EXCEPT !.armed = a].mid = t.mid
         /\ [t EXCEPT !.counter = Counted(t), !.armed = a] \in Transaction
         /\ [t EXCEPT !.counter = Counted(t), !.armed = a].mid = t.mid
         /\ [t EXCEPT !.counter = Counted(t), !.armed = a].ep = t.ep
<1>1. Counted(t) \in 0..(CounterSize - 1)
  BY ClientAssumption DEF Counted, Transaction
<1> QED
  BY <1>1 DEF Transaction

\* The transaction stays, with its counter one up.
LEMMA TransKept ==
  ASSUME ClientInv, TransInv, NEW new \in News(HandlerProfile),
         pc.t \in Mids,
         Notify(TimedOut(pc.t), new,
                [transactions EXCEPT ![At(pc.t)].counter =
                   Counted(transactions[At(pc.t)])]),
         UNCHANGED <<heard, answered>>
  PROVE  TransInv'
<1> DEFINE k == At(pc.t)
           t == [transactions[k] EXCEPT !.counter = Counted(transactions[k])]
           rest == [transactions EXCEPT ![k] = t]
<1>1. k \in DOMAIN transactions
  BY AtIs
<1>2. transactions[k] \in Transaction
  BY <1>1 DEF TransInv
<1>3. t \in Transaction /\ t.mid = transactions[k].mid
  BY <1>2, CountedIs
<1>4. Notify(TimedOut(pc.t), new, rest)
  OBVIOUS
<1> HIDE DEF t, k
<1>5. /\ rest \in Seq(Transaction) /\ MidsOf(rest) = Mids
      /\ DistinctMids(rest)
  BY <1>1, <1>3, TransExcept
<1> HIDE DEF rest
<1>6. TimedOut(pc.t) \in SUBSET cbs
  BY DEF TimedOut, WaitingFor
<1> QED
  BY <1>4, <1>5, <1>6, TransNotify

\* oc_stop_observe gives the callback the message ID of its new transaction.
LEMMA TransStopObserve ==
  ASSUME ClientInv, TransInv, NEW q \in cbs, StopObserve(q)
  PROVE  TransInv'
<1> DEFINE t == [mid |-> lastMid + 1, ep |-> req[q].ep, counter |-> 0,
                 armed |-> TRUE]
<1>1. /\ lastMid' = lastMid + 1 /\ lastMid < MaxMids
      /\ mid' = [mid EXCEPT ![q] = lastMid + 1]
      /\ transactions' = transactions \o NewTransaction(<<req[q]>>)
      /\ UNCHANGED <<req, cbs, heard, answered>>
  BY DEF StopObserve
<1>2. /\ q \in DOMAIN req /\ cbs \subseteq DOMAIN req /\ req \in Seq(Ask)
      /\ mid \in Seq(Mid) /\ Len(mid) = Len(req) /\ lastMid \in 0..MaxMids
      /\ transactions \in Seq(Transaction) /\ DistinctMids(transactions)
      /\ \A m \in Mids : m <= lastMid
  BY DEF ClientInv, ClientType, TransInv, MidsAreFresh
<1>3. lastMid' \in 0..MaxMids /\ lastMid + 1 \in Mid /\ lastMid \in Nat
  BY <1>1, <1>2, ClientAssumption DEF Mid
<1>4. /\ mid' \in Seq(Mid) /\ Len(mid') = Len(req')
      /\ \A o \in DOMAIN req : mid'[o] = IF o = q THEN lastMid + 1 ELSE mid[o]
  <2> DEFINE x == lastMid + 1
  <2> HIDE DEF x
  <2>1. mid' = [mid EXCEPT ![q] = x] /\ x \in Mid
    BY <1>1, <1>3 DEF x
  <2>2. q \in DOMAIN mid /\ DOMAIN mid = DOMAIN req
    BY <1>2
  <2>3. /\ mid' \in Seq(Mid) /\ Len(mid') = Len(mid)
        /\ \A o \in DOMAIN mid : mid'[o] = IF o = q THEN x ELSE mid[o]
    BY <1>2, <2>1, <2>2
  <2> QED
    BY <1>1, <1>2, <2>2, <2>3 DEF x
<1>5. req[q] \in Ask /\ t \in Transaction /\ t.mid = lastMid + 1
  <2>1. req[q] \in Ask
    BY <1>2
  <2> QED
    BY <1>3, <2>1, ClientAssumption DEF Transaction, Ask
<1>6. NewTransaction(<<req[q]>>) = IF req[q].con THEN <<t>> ELSE << >>
  <2> DEFINE new == <<req[q]>>
  <2>1. new # << >> /\ Head(new) = req[q]
    OBVIOUS
  <2> HIDE DEF new
  <2>2. NewTransaction(new) = IF req[q].con THEN <<t>> ELSE << >>
    BY <2>1 DEF NewTransaction
  <2> QED
    BY <2>2 DEF new
<1> HIDE DEF t
<1>7. Mids \subseteq Nat
  BY <1>2, MidsAreNumbers
<1>8. IsAsked'
  BY <1>1 DEF TransInv, IsAsked
<1>9. CASE req[q].con
  <2>1. transactions' = transactions \o <<t>>
    BY <1>1, <1>6, <1>9
  <2>2. /\ transactions' \in Seq(Transaction) /\ Mids' = Mids \cup {lastMid + 1}
    <3>1. <<t>> \in Seq(Transaction) /\ MidsOf(<<t>>) = {lastMid + 1}
      BY <1>5 DEF MidsOf
    <3>2. /\ transactions \o <<t>> \in Seq(Transaction)
          /\ MidsOf(transactions \o <<t>>) = MidsOf(transactions) \cup MidsOf(<<t>>)
      BY <1>2, <3>1, MidsOfConcat
    <3> QED
      BY <2>1, <3>1, <3>2 DEF Mids, MidsOf
  <2>3. DistinctMids(transactions')
    <3>1. t.mid \notin MidsOf(transactions)
      <4>1. MidsOf(transactions) = Mids
        BY DEF Mids, MidsOf
      <4> QED
        BY <1>2, <1>3, <1>5, <1>7, <4>1
    <3> QED
      BY <1>2, <1>5, <2>1, <3>1, DistinctConcat
  <2>4. ASSUME NEW m \in Mids'
        PROVE  m <= lastMid'
    <3>1. lastMid \in Nat /\ lastMid' = lastMid + 1
      BY <1>1, <1>3
    <3>2. \A n \in Mids : n <= lastMid /\ n \in Nat
      BY <1>2, <1>7
    <3>3. m \in Mids \/ m = lastMid + 1
      BY <2>2, <2>4
    <3> QED
      BY <3>1, <3>2, <3>3
  <2>5. StillTrying'
    BY <1>1, <1>2, <1>4, <2>2 DEF StillTrying, TransInv
  <2> QED
    BY <1>3, <1>4, <1>8, <2>2, <2>3, <2>4, <2>5 DEF TransInv, MidsAreFresh
<1>10. CASE ~req[q].con
  <2>1. transactions' = transactions
    BY <1>1, <1>2, <1>6, <1>10, ConcatEmpty
  <2>2. Mids' = Mids
    BY <2>1 DEF Mids
  <2>3. ASSUME NEW m \in Mids'
        PROVE  m <= lastMid'
    <3>1. lastMid \in Nat /\ lastMid' = lastMid + 1
      BY <1>1, <1>3
    <3>2. \A n \in Mids : n <= lastMid /\ n \in Nat
      BY <1>2, <1>7
    <3>3. m \in Mids \/ m = lastMid + 1
      BY <2>2, <2>3
    <3> QED
      BY <3>1, <3>2, <3>3
  <2>4. StillTrying'
    BY <1>1, <1>2, <1>4, <1>10, <2>2 DEF StillTrying, TransInv
  <2> QED
    BY <1>2, <1>3, <1>4, <1>8, <2>1, <2>3, <2>4 DEF TransInv, MidsAreFresh
<1> QED
  BY <1>9, <1>10

\* A message that carries the ID of a transaction clears it.
LEMMA TransReceive ==
  ASSUME TransInv, NEW m, NEW piggybacked \in BOOLEAN, NEW rest,
         rest = IF piggybacked THEN TransactionsWithout(m) ELSE transactions
  PROVE  /\ rest \in Seq(Transaction) /\ DistinctMids(rest)
         /\ MidsOf(rest) \subseteq Mids
         /\ Mids \ MidsOf(rest) \subseteq IF piggybacked THEN {m} ELSE {}
<1>1. transactions \in Seq(Transaction) /\ DistinctMids(transactions)
      /\ MidsOf(transactions) = Mids
  BY DEF TransInv, MidsAreFresh, MidsOf, Mids
<1>2. CASE piggybacked
  BY <1>1, <1>2, MidsWithout, DistinctWithout
<1>3. CASE ~piggybacked
  BY <1>1, <1>3
<1> QED
  BY <1>2, <1>3

LEMMA TransStep ==
  ASSUME ClientInv, TransInv, [Next]_vars
  PROVE  TransInv'
<1>1. MidsOf(transactions) = Mids /\ MidsOf(transactions') = Mids'
      /\ transactions \in Seq(Transaction) /\ DistinctMids(transactions)
  BY DEF TransInv, MidsAreFresh, MidsOf, Mids
<1>2. CASE UNCHANGED <<req, mid, lastMid, cbs, transactions, heard, answered>>
  BY <1>1, <1>2, TransUpdate DEF Mids
<1>3. ASSUME NEW new \in News(Profile), DoRequest(new)
      PROVE  TransInv'
  <2> DEFINE none == {}
  <2>1. cbs \ none = cbs /\ none \in SUBSET cbs
    OBVIOUS
  <2>2. Issue(new, cbs \ none, transactions, lifetime, timeout)
    BY <1>3, <2>1 DEF DoRequest
  <2>3. answered' = answered /\ heard' = heard
    BY <1>3 DEF DoRequest
  <2> HIDE DEF none
  <2> QED
    BY <1>1, <2>1, <2>2, <2>3, TransIssue
<1>4. ASSUME NEW q \in cbs, StopObserve(q)
      PROVE  TransInv'
  BY <1>4, TransStopObserve
<1>5. ASSUME NEW s, ReceiveEmpty(s)
      PROVE  TransInv'
  <2>1. /\ transactions' = TransactionsWithout(s.mid)
        /\ heard' = heard \cup {s.mid}
        /\ UNCHANGED <<req, mid, lastMid, cbs, answered>>
    BY <1>5 DEF ReceiveEmpty
  <2>2. /\ transactions' \in Seq(Transaction) /\ DistinctMids(transactions')
        /\ MidsOf(transactions') = Mids \ {s.mid}
    BY <1>1, <2>1, MidsWithout, DistinctWithout
  <2> QED
    BY <1>1, <2>1, <2>2, TransUpdate
<1>6. ASSUME NEW s, NEW piggybacked \in BOOLEAN, ReceiveLate(s, piggybacked)
      PROVE  TransInv'
  <2>1. /\ transactions' = IF piggybacked THEN TransactionsWithout(s.mid)
                           ELSE transactions
        /\ heard' = IF piggybacked THEN heard \cup {s.mid} ELSE heard
        /\ UNCHANGED <<req, mid, lastMid, cbs, answered>>
    BY <1>6 DEF ReceiveLate
  <2>2. /\ transactions' \in Seq(Transaction) /\ DistinctMids(transactions')
        /\ MidsOf(transactions') \subseteq Mids
        /\ Mids \ MidsOf(transactions') \subseteq
             IF piggybacked THEN {s.mid} ELSE {}
    BY <2>1, TransReceive
  <2> QED
    BY <1>1, <2>1, <2>2, TransUpdate
<1>7. ASSUME NEW s, NEW piggybacked \in BOOLEAN, NEW parsed \in BOOLEAN,
             NEW observe \in BOOLEAN,
             NEW new \in News(HandlerProfile),
             ReceiveResponse(s, piggybacked, parsed, observe, new)
      PROVE  TransInv'
  <2> DEFINE ended == IF Keeps(s.q, observe) THEN {} ELSE {s.q}
             rest  == IF piggybacked THEN TransactionsWithout(s.mid)
                      ELSE transactions
             n     == IF parsed THEN new ELSE << >>
  <2>1. n \in News(HandlerProfile)
    BY DEF News
  <2>2. ended \in SUBSET cbs
    BY <1>7 DEF ReceiveResponse
  <2>3. Issue(n, cbs \ ended, rest, lifetime \ ended, timeout \ ended)
    BY <1>7 DEF ReceiveResponse
  <2>4. /\ answered \subseteq answered' /\ heard \subseteq heard'
        /\ piggybacked => s.mid \in heard'
    BY <1>7 DEF ReceiveResponse
  <2>5. /\ rest \in Seq(Transaction) /\ DistinctMids(rest)
        /\ MidsOf(rest) \subseteq Mids
        /\ Mids \ MidsOf(rest) \subseteq IF piggybacked THEN {s.mid} ELSE {}
    BY TransReceive
  <2>6. HandlerProfile \subseteq Profile \cup HandlerProfile
    OBVIOUS
  <2> HIDE DEF ended, rest, n
  <2>7. Mids \ MidsOf(rest) \subseteq heard'
    BY <2>4, <2>5
  <2> QED
    BY <2>1, <2>2, <2>3, <2>4, <2>5, <2>6, <2>7, TransIssue
<1>8. ASSUME NEW q \in cbs, LifetimeEnds(q)
      PROVE  TransInv'
  <2>1. cbs' \subseteq cbs
        /\ UNCHANGED <<req, mid, lastMid, transactions, heard, answered>>
    BY <1>8 DEF LifetimeEnds
  <2> QED
    BY <1>1, <2>1, TransUpdate DEF Mids
<1>9. ASSUME NEW q \in cbs, NEW new \in News(HandlerProfile),
             RequestTimeout(q, new)
      PROVE  TransInv'
  <2>1. {q} \in SUBSET cbs /\ Notify({q}, new, transactions)
        /\ UNCHANGED <<heard, answered>>
    BY <1>9 DEF RequestTimeout
  <2> QED
    BY <1>1, <2>1, TransNotify
<1>10. ASSUME NEW k \in DOMAIN transactions, Expire(k)
       PROVE  TransInv'
  <2> DEFINE t == [transactions[k] EXCEPT !.armed = FALSE]
  <2>1. transactions' = [transactions EXCEPT ![k] = t]
        /\ UNCHANGED <<req, mid, lastMid, cbs, heard, answered>>
    BY <1>10 DEF Expire
  <2>2. t \in Transaction /\ t.mid = transactions[k].mid
    <3>1. transactions[k] \in Transaction
      BY <1>1
    <3> QED
      BY <3>1, CountedIs
  <2> HIDE DEF t
  <2>3. /\ transactions' \in Seq(Transaction) /\ DistinctMids(transactions')
        /\ MidsOf(transactions') = Mids
    BY <2>1, <2>2, TransExcept
  <2> QED
    BY <1>1, <2>1, <2>3, TransUpdate
<1>11. CASE CheckOne
  <2> DEFINE k == At(pc.t)
             t == [transactions[k] EXCEPT !.counter = Counted(transactions[k]),
                                          !.armed = TRUE]
  <2>1. /\ k \in DOMAIN transactions
        /\ transactions' = transactions
             \/ transactions' = [transactions EXCEPT ![k] = t]
        /\ UNCHANGED <<req, mid, lastMid, cbs, heard, answered>>
    BY <1>11, AtIs DEF CheckOne
  <2>2. t \in Transaction /\ t.mid = transactions[k].mid
    <3>1. transactions[k] \in Transaction
      BY <1>1, <2>1
    <3> QED
      BY <3>1, CountedIs
  <2> HIDE DEF t, k
  <2>3. /\ transactions' \in Seq(Transaction) /\ DistinctMids(transactions')
        /\ MidsOf(transactions') = Mids
    BY <1>1, <2>1, <2>2, TransExcept
  <2> QED
    BY <1>1, <2>1, <2>3, TransUpdate
<1>12. ASSUME NEW new \in News(HandlerProfile), CheckTimeout(new)
       PROVE  TransInv'
  BY <1>12, TransCleared DEF CheckTimeout, TimedOut
<1>13. ASSUME NEW new \in News(HandlerProfile),
              CheckTimeoutSecured(new) \/ CheckTimeoutNoPeer(new)
       PROVE  TransInv'
  BY <1>13, TransKept DEF CheckTimeoutSecured, CheckTimeoutNoPeer
<1>14. ASSUME NEW new \in News(HandlerProfile), CloseTransaction(new)
       PROVE  TransInv'
  <2>1. CASE transactions[At(pc.t)].ep = pc.ep
    BY <1>14, <2>1, TransCleared DEF CloseTransaction
  <2>2. CASE transactions[At(pc.t)].ep # pc.ep
    BY <1>2, <1>14, <2>2 DEF CloseTransaction
  <2> QED
    BY <2>1, <2>2
<1>15. ASSUME NEW new \in News(HandlerProfile), CloseCb(new)
       PROVE  TransInv'
  <2> DEFINE S == OfEndpoint(pc.ep)
  <2>1. S \in SUBSET cbs /\ S \in SUBSET Nat /\ S # {}
    BY <1>15 DEF CloseCb, OfEndpoint, ClientInv, ClientType
  <2>2. {Min(S)} \in SUBSET cbs /\ Notify({Min(S)}, new, transactions)
    <3> HIDE DEF S
    <3>1. Min(S) \in S
      BY <2>1, FirstInList
    <3> QED
      BY <1>15, <2>1, <3>1 DEF CloseCb, S
  <2>3. UNCHANGED <<heard, answered>>
    BY <1>15 DEF CloseCb
  <2> QED
    BY <1>1, <2>2, <2>3, TransNotify
<1>16. CASE CheckStart \/ CheckEnd \/ CloseTransactionsEnd \/ CloseEnd
  BY <1>2, <1>16 DEF CheckStart, CheckEnd, CloseTransactionsEnd, CloseEnd
<1>17. CASE Sessions
  BY <1>2, <1>17 DEF Sessions, PeerConnects, PeerCloses
<1>18. CASE UNCHANGED vars
  BY <1>2, <1>18 DEF vars
<1> QED
  BY <1>3, <1>4, <1>5, <1>6, <1>7, <1>8, <1>9, <1>10, <1>11, <1>12, <1>13,
     <1>14, <1>15, <1>16, <1>17, <1>18
     DEF Next, Application, Network, Timers, Walk

-----------------------------------------------------------------------------
(* Types.                                                                   *)

\* Where a walk may be.
Pc == [at : {"idle", "check", "close_transactions", "close_cbs"},
       t : Nat, next : Nat, removed : Nat, ep : Endpoint \cup {"none"},
       caller : {"idle", "check"}]

\* What the invariants above say nothing about.
OtherTypes ==
  /\ timerEvent \in BOOLEAN
  /\ peers \subseteq Secured
  /\ pc \in Pc
  /\ calls \in [Id -> 0..2]

LEMMA CalledType ==
  ASSUME calls \in [Id -> 0..2], NEW S
  PROVE  Called(S) \in [Id -> 0..2]
BY DEF Called

\* The places a walk goes to.
LEMMA FirstIs ==
  ASSUME transactions \in Seq(Transaction)
  PROVE  First(transactions) \in Nat /\ First(transactions) \in Mids \cup {0}
<1>1. CASE transactions = << >>
  BY <1>1 DEF First
<1>2. CASE transactions # << >>
  <2>1. Head(transactions) = transactions[1] /\ 1 \in DOMAIN transactions
    BY <1>2
  <2>2. Head(transactions).mid \in Mids
    BY <2>1 DEF Mids
  <2> QED
    BY <1>2, <2>2, MidsAreNumbers DEF First
<1> QED
  BY <1>1, <1>2

LEMMA AfterIs ==
  ASSUME transactions \in Seq(Transaction), NEW m \in Mids
  PROVE  /\ After(m) \in Nat
         /\ At(m) = Len(transactions) => After(m) = 0
         /\ At(m) # Len(transactions) =>
              At(m) + 1 \in DOMAIN transactions
                /\ After(m) = transactions[At(m) + 1].mid
<1>1. At(m) \in 1..Len(transactions) /\ Len(transactions) \in Nat
  BY AtIs
<1>2. CASE At(m) = Len(transactions)
  BY <1>2 DEF After
<1>3. CASE At(m) # Len(transactions)
  <2>1. At(m) + 1 \in DOMAIN transactions
    BY <1>1, <1>3
  <2>2. transactions[At(m) + 1].mid \in Mids
    BY <2>1 DEF Mids
  <2> QED
    BY <1>3, <2>1, <2>2, MidsAreNumbers DEF After
<1> QED
  BY <1>2, <1>3

LEMMA IdleIs ==
  /\ Idle \in Pc
  /\ Idle.at = "idle" /\ Idle.caller = "idle" /\ Idle.t = 0
BY DEF Idle, Pc

LEMMA PcMoves ==
  ASSUME NEW p \in Pc, NEW n \in Nat
  PROVE  /\ [p EXCEPT !.t = n] \in Pc
         /\ [p EXCEPT !.t = n].t = n /\ [p EXCEPT !.t = n].at = p.at
         /\ [p EXCEPT !.t = n].ep = p.ep
         /\ [p EXCEPT !.t = n].next = p.next
         /\ [p EXCEPT !.t = n].removed = p.removed
         /\ [p EXCEPT !.t = n].caller = p.caller
         /\ [p EXCEPT !.at = "close_cbs"] \in Pc
         /\ [p EXCEPT !.at = "close_cbs"].at = "close_cbs"
         /\ [p EXCEPT !.at = "close_cbs"].t = p.t
         /\ [p EXCEPT !.at = "close_cbs"].ep = p.ep
         /\ [p EXCEPT !.at = "close_cbs"].next = p.next
         /\ [p EXCEPT !.at = "close_cbs"].removed = p.removed
         /\ [p EXCEPT !.at = "close_cbs"].caller = p.caller
BY DEF Pc

LEMMA PcStarts ==
  ASSUME NEW n \in Nat, NEW e \in Endpoint
  PROVE  /\ [Idle EXCEPT !.at = "check", !.t = n] \in Pc
         /\ [Idle EXCEPT !.at = "check", !.t = n].at = "check"
         /\ [Idle EXCEPT !.at = "check", !.t = n].t = n
         /\ [Idle EXCEPT !.at = "close_transactions", !.t = n, !.ep = e] \in Pc
         /\ [Idle EXCEPT !.at = "close_transactions", !.t = n, !.ep = e].at
              = "close_transactions"
         /\ [Idle EXCEPT !.at = "close_transactions", !.t = n, !.ep = e].t = n
         /\ [Idle EXCEPT !.at = "close_transactions", !.t = n, !.ep = e].caller
              = "idle"
BY DEF Idle, Pc

LEMMA OtherTypesStep ==
  ASSUME TransInv, OtherTypes, [Next]_vars
  PROVE  OtherTypes'
<1>1. ASSUME NEW S, calls' = Called(S) \/ calls' = calls
      PROVE  calls' \in [Id -> 0..2]
  BY <1>1, CalledType DEF OtherTypes
<1>2. CASE Application
  BY <1>2 DEF Application, DoRequest, StopObserve, OtherTypes
<1>3. CASE Network
  BY <1>1, <1>3
     DEF Network, ReceiveEmpty, ReceiveLate, ReceiveResponse, OtherTypes
<1>4. CASE Timers
  BY <1>1, <1>4
     DEF Timers, LifetimeEnds, RequestTimeout, Expire, Notify, OtherTypes
<1>5. /\ pc \in Pc /\ pc.t \in Nat /\ pc.next \in Nat
      /\ transactions \in Seq(Transaction) /\ Secured \subseteq Endpoint
  BY ClientAssumption DEF OtherTypes, Pc, TransInv
<1>6. pc.t \in Mids => [pc EXCEPT !.t = After(pc.t)] \in Pc
  BY <1>5, AfterIs, PcMoves
<1>7. CASE CheckStart
  <2>1. pc' = [Idle EXCEPT !.at = "check", !.t = First(transactions)]
        /\ UNCHANGED <<peers, calls>> /\ timerEvent' \in BOOLEAN
    BY <1>7 DEF CheckStart
  <2>2. pc' \in Pc
    BY <1>5, <2>1, FirstIs DEF Idle, Pc
  <2> QED
    BY <2>1, <2>2 DEF OtherTypes
<1>8. CASE CheckEnd \/ CloseTransactionsEnd
  <2>1. pc' \in Pc
    BY <1>5, <1>8, PcMoves, IdleIs DEF CheckEnd, CloseTransactionsEnd
  <2> QED
    BY <1>8, <2>1 DEF CheckEnd, CloseTransactionsEnd, OtherTypes
<1>9. CASE CheckOne
  <2>1. pc' \in Pc
    BY <1>6, <1>9 DEF CheckOne
  <2> QED
    BY <1>9, <2>1 DEF CheckOne, OtherTypes
<1>10. CASE CloseEnd
  <2>1. ResumedAt(pc) \in Nat
    BY <1>5, FirstIs DEF ResumedAt
  <2>2. pc' \in Pc
    BY <1>10, <2>1 DEF CloseEnd, Idle, Pc
  <2> QED
    BY <1>10, <2>2 DEF CloseEnd, OtherTypes
<1>11. ASSUME NEW new, CheckTimeout(new) \/ CheckTimeoutNoPeer(new)
       PROVE  OtherTypes'
  <2>1. pc' \in Pc
    BY <1>6, <1>11 DEF CheckTimeout, CheckTimeoutNoPeer
  <2>2. UNCHANGED <<timerEvent, peers>> /\ calls' = Called(TimedOut(pc.t))
    BY <1>11 DEF CheckTimeout, CheckTimeoutNoPeer, Notify
  <2> QED
    BY <1>1, <2>1, <2>2 DEF OtherTypes
<1>12. ASSUME NEW new, CheckTimeoutSecured(new)
       PROVE  OtherTypes'
  <2> DEFINE e == transactions[At(pc.t)].ep
  <2>1. /\ pc.t \in Mids /\ e \in peers /\ peers' = peers \ {e}
        /\ pc' = [at |-> "close_transactions", t |-> First(transactions),
                  next |-> After(pc.t), removed |-> Len(transactions),
                  ep |-> e, caller |-> "check"]
        /\ UNCHANGED timerEvent /\ calls' = Called(TimedOut(pc.t))
    BY <1>12 DEF CheckTimeoutSecured, Notify
  <2>2. First(transactions) \in Nat /\ After(pc.t) \in Nat
        /\ Len(transactions) \in Nat /\ e \in Endpoint
    BY <1>5, <2>1, FirstIs, AfterIs DEF OtherTypes
  <2> HIDE DEF e
  <2>3. pc' \in Pc
    BY <2>1, <2>2 DEF Pc
  <2> QED
    BY <1>1, <2>1, <2>3 DEF OtherTypes
<1>13. ASSUME NEW new, CloseTransaction(new) \/ CloseCb(new)
       PROVE  OtherTypes'
  <2>1. pc' \in Pc
    BY <1>5, <1>6, <1>13 DEF CloseTransaction, CloseCb
  <2>2. UNCHANGED <<timerEvent, peers>>
        /\ \E S : calls' = Called(S) \/ calls' = calls
    BY <1>13 DEF CloseTransaction, CloseCb, Notify
  <2> QED
    BY <1>1, <2>1, <2>2 DEF OtherTypes
<1>14. CASE Sessions
  <2>1. PICK e \in Secured : PeerConnects(e) \/ PeerCloses(e)
    BY <1>14 DEF Sessions
  <2>2. pc' \in Pc
    <3>1. e \in Endpoint /\ First(transactions) \in Nat
      BY <1>5, FirstIs
    <3>2. [Idle EXCEPT !.at = "close_transactions", !.t = First(transactions),
                       !.ep = e] \in Pc
      BY <3>1, PcStarts
    <3> QED
      BY <1>5, <2>1, <3>2 DEF PeerConnects, PeerCloses
  <2> QED
    BY <2>1, <2>2 DEF PeerConnects, PeerCloses, OtherTypes
<1>15. CASE UNCHANGED vars
  BY <1>15 DEF vars, OtherTypes
<1> QED
  BY <1>2, <1>3, <1>4, <1>7, <1>8, <1>9, <1>10, <1>11, <1>12, <1>13, <1>14,
     <1>15 DEF Next, Walk

TypedInv == TransInv /\ OtherTypes

LEMMA TransInvariant == Spec => []TypedInv
<1>1. Init => TransInv
  <2>1. ASSUME Init
        PROVE  TransInv
    BY <2>1, ClientAssumption
       DEF Init, TransInv, MidsAreFresh, Mids, DistinctMids, IsAsked,
           StillTrying
  <2> QED
    BY <2>1
<1>2. Init => OtherTypes
  <2>1. [q \in Id |-> 0] \in [Id -> 0..2]
    OBVIOUS
  <2> QED
    BY <2>1, IdleIs DEF Init, OtherTypes
<1>3. ClientInv /\ TypedInv /\ [Next]_vars => TypedInv'
  BY TransStep, OtherTypesStep DEF TypedInv
<1>4. Init => TypedInv
  BY <1>1, <1>2 DEF TypedInv
<1> QED
  BY <1>3, <1>4, ClientInvariant, PTL DEF Spec

\* The lists, the message IDs and the counters of the client keep their types,
\* only issued requests are listed, and the message IDs of the transactions
\* differ, also those of an observation and of the request that stops it.
THEOREM ClientTypeCorrect == Spec => []TypeOK
<1>1. ClientInv /\ TypedInv => TypeOK
  BY ClientAssumption
     DEF ClientInv, ClientType, NoDanglingTimer, TypedInv, TransInv,
         MidsAreFresh, DistinctMids, OtherTypes, Pc, TypeOK, Id
<1> QED
  BY <1>1, ClientInvariant, TransInvariant, PTL

\* Whatever ends the other requests, closes sessions or clears transactions by
\* message ID, a confirmable request that waits and of which nothing was heard
\* has its transaction in transactions_list.
THEOREM NeverGivenUpSilently == Spec => []StillTrying
<1>1. TypedInv => StillTrying
  BY DEF TypedInv, TransInv
<1> QED
  BY <1>1, TransInvariant, PTL

-----------------------------------------------------------------------------
(* The walks over the transactions.                                         *)

\* Sessions are closed only if there are any, and the callbacks of a session
\* when its transactions are done.
ClosePlace ==
  /\ pc.at \in {"close_transactions", "close_cbs"} => Secured # {}
  /\ pc.at = "close_cbs" => pc.t = 0

\* The transactions of the session that the walk has yet to come to.
Ahead ==
  {k \in DOMAIN transactions :
     pc.t # 0 /\ At(pc.t) <= k /\ transactions[k].ep = pc.ep}

\* The message ID of the transaction after the k-th.
Following(list, k) == IF k = Len(list) THEN 0 ELSE list[k + 1].mid

\* While coap_send_transaction closes the session of the transaction that
\* coap_check_transactions stands on: either the remembered successor is still
\* in the list, or the length tells that it may not be, or there are
\* transactions left that will make it tell.
Resumable ==
  pc.at \in {"close_transactions", "close_cbs"} /\ pc.caller = "check" =>
    \/ Len(transactions) + 1 < pc.removed
    \/ Len(transactions) + 1 = pc.removed /\ pc.next \in Mids \cup {0}
    \/ Len(transactions) + 1 = pc.removed /\ Ahead # {}
    \/ /\ Len(transactions) = pc.removed
       /\ \E k \in Ahead : Following(transactions, k) = pc.next

WalkInv == ClosePlace /\ WalkIsSafe /\ Resumable

\* No handler issues a confirmable request, or there is no DTLS.  A request that
\* a handler issues while a session is closed would hide a removal from the
\* test on the length of the list.
QuietHandlers == Secured = {} \/ \A p \in HandlerProfile : ~p.con

LEMMA AtUnique ==
  ASSUME NEW list, DistinctMids(list), NEW k \in DOMAIN list
  PROVE  (CHOOSE j \in DOMAIN list : list[j].mid = list[k].mid) = k
BY DEF DistinctMids

\* What the transactions are after a handler was called.
LEMMA NotifyLeaves ==
  ASSUME ClientInv, TypedInv, NEW new \in News(HandlerProfile), NEW S,
         NEW rest \in Seq(Transaction), Notify(S, new, rest)
  PROVE  /\ MidsOf(rest) \subseteq Mids'
         /\ QuietHandlers /\ Secured # {} => transactions' = rest
<1> DEFINE n == IF S = {} THEN << >> ELSE new
<1>1. n \in News(HandlerProfile) /\ HandlerProfile \subseteq Ask
  BY ClientAssumption DEF News
<1>2. transactions' = rest \o NewTransaction(n)
  BY DEF Notify, Issue
<1> HIDE DEF n
<1>3. /\ NewTransaction(n) \in Seq(Transaction)
      /\ \/ NewTransaction(n) = << >>
         \/ Head(n) \in HandlerProfile /\ Head(n).con
  BY <1>1, NewTransactionIs DEF ClientInv, TypedInv, TransInv
<1>4. MidsOf(rest) \subseteq MidsOf(transactions')
  BY <1>2, <1>3, MidsOfConcat
<1>5. MidsOf(transactions') = Mids'
  BY DEF MidsOf, Mids
<1>6. QuietHandlers /\ Secured # {} => NewTransaction(n) = << >>
  BY <1>3 DEF QuietHandlers
<1> QED
  BY <1>2, <1>4, <1>5, <1>6, ConcatEmpty

\* The next transaction is in the list, and another one.
LEMMA AfterIsOther ==
  ASSUME TypedInv, NEW m \in Mids
  PROVE  After(m) = 0 \/ After(m) \in Mids \ {m}
<1>1. transactions \in Seq(Transaction) /\ DistinctMids(transactions)
  BY DEF TypedInv, TransInv, MidsAreFresh
<1>2. CASE At(m) = Len(transactions)
  BY <1>1, <1>2, AfterIs
<1>3. CASE At(m) # Len(transactions)
  <2> DEFINE i == At(m)
  <2>1. /\ i \in DOMAIN transactions /\ transactions[i].mid = m
        /\ i + 1 \in DOMAIN transactions /\ After(m) = transactions[i + 1].mid
    BY <1>1, <1>3, AtIs, AfterIs
  <2> HIDE DEF i
  <2>2. i # i + 1
    BY <1>1, <2>1
  <2> QED
    BY <1>1, <2>1, <2>2 DEF DistinctMids, Mids
<1> QED
  BY <1>2, <1>3

\* coap_check_transactions goes on to the next transaction.
LEMMA CheckGoesOn ==
  ASSUME TypedInv, WalkInv, pc.at = "check", pc.t \in Mids,
         pc' = [pc EXCEPT !.t = After(pc.t)], Mids \ {pc.t} \subseteq Mids'
  PROVE  WalkInv'
<1>1. transactions \in Seq(Transaction) /\ pc \in Pc
  BY DEF TypedInv, TransInv, OtherTypes
<1>2. After(pc.t) \in Nat /\ After(pc.t) \in Mids' \cup {0}
  BY <1>1, AfterIs, AfterIsOther
<1>3. pc'.at = "check" /\ pc'.t = After(pc.t)
  BY <1>1, <1>2, PcMoves
<1> QED
  BY <1>2, <1>3 DEF WalkInv, ClosePlace, WalkIsSafe, Resumable

\* The session of the transaction at hand is closed first.
LEMMA CheckCloses ==
  ASSUME ClientInv, TypedInv, WalkInv, QuietHandlers,
         NEW new \in News(HandlerProfile), CheckTimeoutSecured(new)
  PROVE  WalkInv'
<1> DEFINE k == At(pc.t)
           t == [transactions[k] EXCEPT !.counter = Counted(transactions[k])]
           list == [transactions EXCEPT ![k] = t]
           e == transactions[k].ep
<1>1. /\ pc.t \in Mids /\ e \in peers
      /\ Notify(TimedOut(pc.t), new, list)
      /\ pc'.at = "close_transactions" /\ pc'.t = First(transactions)
      /\ pc'.next = After(pc.t) /\ pc'.removed = Len(transactions)
      /\ pc'.ep = e /\ pc'.caller = "check"
  BY DEF CheckTimeoutSecured
<1>2. Secured # {} /\ transactions \in Seq(Transaction)
  BY <1>1 DEF TypedInv, OtherTypes, TransInv
<1>3. k \in DOMAIN transactions /\ transactions[k].mid = pc.t
  BY <1>1, AtIs
<1>4. t \in Transaction /\ t.mid = transactions[k].mid /\ t.ep = e
  <2>1. transactions[k] \in Transaction
    BY <1>2, <1>3
  <2> QED
    BY <2>1, CountedIs
<1>5. /\ pc.t \in Mids
      /\ After(pc.t) = Following(transactions, k)
  BY <1>1 DEF After, Following
<1> HIDE DEF k, t, e
<1>6. /\ list \in Seq(Transaction) /\ MidsOf(list) = Mids
      /\ DistinctMids(list) /\ Len(list) = Len(transactions)
  BY <1>3, <1>4, TransExcept DEF TypedInv
<1>7. /\ DOMAIN list = DOMAIN transactions
      /\ \A i \in DOMAIN transactions :
           list[i].mid = transactions[i].mid
      /\ list[k].ep = e
  BY <1>2, <1>3, <1>4
<1> HIDE DEF list
<1>8. transactions' = list
  BY <1>1, <1>2, <1>6, NotifyLeaves
<1>9. First(transactions) = transactions[1].mid /\ 1 \in DOMAIN transactions
      /\ k >= 1 /\ k \in 1..Len(transactions)
  <2>1. transactions # << >> /\ DOMAIN transactions = 1..Len(transactions)
    BY <1>2, <1>3
  <2> QED
    BY <1>2, <1>3, <2>1 DEF First
<1>10. First(transactions) \in Mids /\ First(transactions) # 0
  <2>1. transactions[1] \in Transaction
    BY <1>2, <1>9
  <2>2. transactions[1].mid # 0
    BY <2>1 DEF Transaction, Mid
  <2> QED
    BY <1>9, <2>2 DEF Mids
<1>11. Mids' = Mids /\ Len(transactions') = Len(transactions)
  BY <1>6, <1>8 DEF Mids, MidsOf
<1>12. At(pc.t)' = 1
  <2>1. pc'.t = list[1].mid
    BY <1>1, <1>7, <1>9
  <2>2. (CHOOSE j \in DOMAIN list : list[j].mid = list[1].mid) = 1
    BY <1>6, <1>7, <1>9, AtUnique
  <2> QED
    BY <1>8, <2>1, <2>2 DEF At
<1>13. k \in Ahead'
  <2>1. /\ k \in DOMAIN transactions' /\ transactions'[k].ep = pc'.ep
        /\ pc'.t # 0 /\ At(pc.t)' <= k
    BY <1>1, <1>3, <1>7, <1>8, <1>9, <1>10, <1>12
  <2> QED
    BY <2>1 DEF Ahead
<1>14. Following(transactions', k) = pc'.next
  <2>1. k # Len(transactions) => k + 1 \in DOMAIN transactions
    BY <1>2, <1>9
  <2> QED
    BY <1>1, <1>5, <1>6, <1>7, <1>8, <2>1 DEF Following
<1>15. Resumable'
  BY <1>1, <1>11, <1>13, <1>14 DEF Resumable
<1> QED
  BY <1>1, <1>2, <1>10, <1>11, <1>15 DEF WalkInv, ClosePlace, WalkIsSafe

\* coap_free_transactions_by_endpoint passes over a transaction of another peer.
LEMMA ClosePasses ==
  ASSUME TypedInv, WalkInv, pc.at = "close_transactions", pc.t \in Mids,
         transactions[At(pc.t)].ep # pc.ep, UNCHANGED transactions,
         pc' = [pc EXCEPT !.t = After(pc.t)]
  PROVE  WalkInv'
<1> DEFINE i == At(pc.t)
           n == After(pc.t)
<1>1. transactions \in Seq(Transaction) /\ DistinctMids(transactions) /\ pc \in Pc
  BY DEF TypedInv, TransInv, MidsAreFresh, OtherTypes
<1>2. /\ n \in Nat
      /\ i = Len(transactions) => n = 0
      /\ i # Len(transactions) =>
           i + 1 \in DOMAIN transactions /\ n = transactions[i + 1].mid
  BY <1>1, AfterIs
<1>3. /\ pc'.t = n /\ pc'.at = pc.at /\ pc'.ep = pc.ep /\ pc'.next = pc.next
      /\ pc'.removed = pc.removed /\ pc'.caller = pc.caller
  BY <1>1, <1>2, PcMoves
<1>4. Mids' = Mids /\ n \in Mids \cup {0}
  BY AfterIsOther DEF Mids
<1>5. i \in 1..Len(transactions) /\ Len(transactions) \in Nat
  BY <1>1, AtIs
<1>6. i # Len(transactions) => At(pc.t)' = i + 1
  <2>1. i # Len(transactions) =>
          (CHOOSE j \in DOMAIN transactions :
             transactions[j].mid = transactions[i + 1].mid) = i + 1
    <3> HIDE DEF i
    <3> QED
      BY <1>1, <1>2, AtUnique
  <2> HIDE DEF i, n
  <2> QED
    BY <1>2, <1>3, <2>1 DEF At
<1>7. i # Len(transactions) => n # 0
  <2>1. i # Len(transactions) => transactions[i + 1] \in Transaction
    BY <1>1, <1>2
  <2> HIDE DEF i, n
  <2> QED
    BY <1>2, <2>1 DEF Transaction, Mid
<1>8. Ahead \subseteq Ahead'
  <2> SUFFICES ASSUME NEW k \in Ahead
               PROVE  k \in Ahead'
    OBVIOUS
  <2>1. k \in 1..Len(transactions) /\ i <= k /\ transactions[k].ep = pc.ep
    BY <1>1 DEF Ahead
  <2>2. i # k
    BY <2>1
  <2>3. i # Len(transactions) /\ i + 1 <= k
    BY <1>5, <2>1, <2>2
  <2>4. /\ k \in DOMAIN transactions' /\ transactions'[k].ep = pc'.ep
        /\ pc'.t # 0 /\ At(pc.t)' <= k
    BY <1>1, <1>3, <1>6, <1>7, <2>1, <2>3
  <2> QED
    BY <2>4 DEF Ahead
<1> HIDE DEF i, n
<1>9. Resumable'
  BY <1>3, <1>4, <1>8 DEF WalkInv, Resumable
<1> QED
  BY <1>3, <1>4, <1>9 DEF WalkInv, ClosePlace, WalkIsSafe

\* And it clears one of the peer whose session is closed.
LEMMA CloseClears ==
  ASSUME TypedInv, WalkInv, pc.at = "close_transactions", pc.t \in Mids,
         transactions' = TransactionsWithout(pc.t),
         pc' = [pc EXCEPT !.t = After(pc.t)]
  PROVE  WalkInv'
<1> DEFINE i == At(pc.t)
           n == After(pc.t)
           L == Len(transactions)
<1>1. transactions \in Seq(Transaction) /\ DistinctMids(transactions) /\ pc \in Pc
  BY DEF TypedInv, TransInv, MidsAreFresh, OtherTypes
<1>2. /\ n \in Nat
      /\ i = L => n = 0
      /\ i # L => i + 1 \in DOMAIN transactions /\ n = transactions[i + 1].mid
  BY <1>1, AfterIs
<1>3. /\ pc'.t = n /\ pc'.at = pc.at /\ pc'.ep = pc.ep /\ pc'.next = pc.next
      /\ pc'.removed = pc.removed /\ pc'.caller = pc.caller
  BY <1>1, <1>2, PcMoves
<1>4. i \in 1..L /\ L \in Nat
  BY <1>1, AtIs
<1>5. /\ Len(transactions') = L - 1
      /\ \A k \in 1 .. L - 1 :
           transactions'[k] = IF k < i THEN transactions[k]
                              ELSE transactions[k + 1]
  BY <1>1, Removed
<1>6. /\ transactions' \in Seq(Transaction) /\ DistinctMids(transactions')
      /\ Mids' = Mids \ {pc.t}
  <2>1. /\ transactions' \in Seq(Transaction)
        /\ MidsOf(transactions') = Mids \ {pc.t}
        /\ DistinctMids(transactions')
    BY <1>1, MidsWithout, DistinctWithout
  <2> QED
    BY <2>1 DEF Mids, MidsOf
<1>7. n \in Mids' \cup {0}
  BY <1>6, AfterIsOther
<1>8. n = Following(transactions, i)
  BY DEF After, Following
<1>9. i # L => n # 0
  <2>1. i # L => transactions[i + 1] \in Transaction
    BY <1>1, <1>2
  <2> HIDE DEF i, n, L
  <2> QED
    BY <1>2, <2>1 DEF Transaction, Mid
<1>10. i # L => At(pc.t)' = i
  <2> SUFFICES ASSUME i # L
               PROVE  At(pc.t)' = i
    OBVIOUS
  <2> HIDE DEF i, n, L
  <2>1. i \in 1 .. L - 1
    BY <1>4
  <2>2. i \in DOMAIN transactions' /\ transactions'[i] = transactions[i + 1]
    BY <1>5, <1>6, <2>1
  <2>3. (CHOOSE j \in DOMAIN transactions' :
           transactions'[j].mid = transactions'[i].mid) = i
    BY <1>6, <2>2, AtUnique
  <2> QED
    BY <1>2, <1>3, <2>2, <2>3 DEF At
<1>11. ASSUME NEW k \in Ahead, k # i
       PROVE  k - 1 \in Ahead'
  <2>1. k \in 1..L /\ i <= k /\ transactions[k].ep = pc.ep
    BY <1>1 DEF Ahead
  <2> HIDE DEF i, n, L
  <2>2. i # L /\ i <= k - 1 /\ k - 1 \in 1 .. L - 1 /\ (k - 1) + 1 = k
    BY <1>4, <1>11, <2>1
  <2>3. transactions'[k - 1] = transactions[k] /\ k - 1 \in DOMAIN transactions'
    BY <1>4, <1>5, <1>6, <2>1, <2>2
  <2>4. /\ transactions'[k - 1].ep = pc'.ep
        /\ pc'.t # 0 /\ At(pc.t)' <= k - 1
    BY <1>3, <1>9, <1>10, <2>1, <2>2, <2>3
  <2> QED
    BY <2>3, <2>4 DEF Ahead
<1> HIDE DEF i, n, L
<1>12. Resumable'
  <2> SUFFICES ASSUME pc.caller = "check"
               PROVE  Resumable'
    BY <1>3 DEF Resumable
  <2>1. pc.removed \in Nat /\ Len(transactions') + 1 = L
    BY <1>1, <1>4, <1>5 DEF Pc
  <2>2. CASE L < pc.removed
    BY <1>3, <2>1, <2>2 DEF Resumable
  <2>3. CASE ~(L < pc.removed)
    <3>1. L = pc.removed /\ \E k \in Ahead : Following(transactions, k) = pc.next
      BY <1>4, <2>1, <2>3 DEF WalkInv, Resumable, L
    <3>2. PICK k \in Ahead : Following(transactions, k) = pc.next
      BY <3>1
    <3>3. CASE k = i
      <4>1. pc'.next \in Mids' \cup {0} /\ Len(transactions') + 1 = pc'.removed
        BY <1>3, <1>7, <1>8, <2>1, <3>1, <3>2, <3>3
      <4> QED
        BY <4>1 DEF Resumable
    <3>4. CASE k # i
      <4>1. Ahead' # {} /\ Len(transactions') + 1 = pc'.removed
        BY <1>3, <1>11, <2>1, <3>1, <3>4
      <4> QED
        BY <4>1 DEF Resumable
    <3> QED
      BY <3>3, <3>4
  <2> QED
    BY <2>2, <2>3
<1> QED
  BY <1>3, <1>7, <1>12 DEF WalkInv, ClosePlace, WalkIsSafe

LEMMA NothingAhead ==
  ASSUME pc.t = 0
  PROVE  Ahead = {}
BY DEF Ahead

LEMMA WalkStep ==
  ASSUME ClientInv, TypedInv, WalkInv, QuietHandlers, [Next]_vars
  PROVE  WalkInv'
<1>1. /\ transactions \in Seq(Transaction) /\ DistinctMids(transactions)
      /\ pc \in Pc /\ MidsOf(transactions) = Mids
  BY DEF TypedInv, TransInv, MidsAreFresh, OtherTypes, MidsOf, Mids
<1>2. CASE pc.at = "idle" /\ UNCHANGED pc
  BY <1>2 DEF WalkInv, ClosePlace, WalkIsSafe, Resumable
<1>3. CASE UNCHANGED vars
  BY <1>3 DEF vars, WalkInv, ClosePlace, WalkIsSafe, Resumable, Mids, Ahead, At
<1>4. CASE Application \/ Network \/ Timers
  BY <1>2, <1>4
     DEF Application, DoRequest, StopObserve, Network, ReceiveEmpty,
         ReceiveLate, ReceiveResponse, Timers, LifetimeEnds, RequestTimeout,
         Expire
<1>5. CASE CheckStart
  <2>1. pc' = [Idle EXCEPT !.at = "check", !.t = First(transactions)]
        /\ Mids' = Mids
    BY <1>5 DEF CheckStart, Mids
  <2>2. pc'.at = "check" /\ pc'.t = First(transactions)
    BY <2>1 DEF Idle
  <2> QED
    BY <1>1, <2>1, <2>2, FirstIs DEF WalkInv, ClosePlace, WalkIsSafe, Resumable
<1>6. CASE CheckEnd
  BY <1>6, IdleIs DEF CheckEnd, WalkInv, ClosePlace, WalkIsSafe, Resumable
<1>7. CASE CheckOne
  <2> DEFINE k == At(pc.t)
             t == [transactions[k] EXCEPT !.counter = Counted(transactions[k]),
                                          !.armed = TRUE]
  <2>1. /\ k \in DOMAIN transactions /\ pc.at = "check" /\ pc.t \in Mids
        /\ transactions' = transactions
             \/ transactions' = [transactions EXCEPT ![k] = t]
        /\ pc' = [pc EXCEPT !.t = After(pc.t)]
    BY <1>7, AtIs DEF CheckOne
  <2>2. t \in Transaction /\ t.mid = transactions[k].mid
    <3>1. transactions[k] \in Transaction
      BY <1>1, <2>1
    <3> QED
      BY <3>1, CountedIs
  <2> HIDE DEF t, k
  <2>3. MidsOf(transactions') = Mids
    BY <1>1, <2>1, <2>2, TransExcept DEF TypedInv
  <2>4. Mids' = Mids
    BY <2>3 DEF Mids, MidsOf
  <2> QED
    BY <2>1, <2>4, CheckGoesOn
<1>8. ASSUME NEW new \in News(HandlerProfile), CheckTimeout(new)
      PROVE  WalkInv'
  <2>1. /\ pc.at = "check" /\ pc.t \in Mids
        /\ Notify(TimedOut(pc.t), new, TransactionsWithout(pc.t))
        /\ pc' = [pc EXCEPT !.t = After(pc.t)]
    BY <1>8 DEF CheckTimeout
  <2>2. /\ TransactionsWithout(pc.t) \in Seq(Transaction)
        /\ MidsOf(TransactionsWithout(pc.t)) = Mids \ {pc.t}
    BY <1>1, MidsWithout
  <2>3. Mids \ {pc.t} \subseteq Mids'
    BY <2>1, <2>2, NotifyLeaves
  <2> QED
    BY <2>1, <2>3, CheckGoesOn
<1>9. ASSUME NEW new \in News(HandlerProfile), CheckTimeoutSecured(new)
      PROVE  WalkInv'
  BY <1>9, CheckCloses
<1>10. ASSUME NEW new \in News(HandlerProfile), CheckTimeoutNoPeer(new)
       PROVE  WalkInv'
  <2> DEFINE k == At(pc.t)
             t == [transactions[k] EXCEPT !.counter = Counted(transactions[k])]
             list == [transactions EXCEPT ![k] = t]
  <2>1. /\ pc.at = "check" /\ pc.t \in Mids
        /\ Notify(TimedOut(pc.t), new, list)
        /\ pc' = [pc EXCEPT !.t = After(pc.t)]
    BY <1>10 DEF CheckTimeoutNoPeer
  <2>2. k \in DOMAIN transactions
    BY <2>1, AtIs
  <2>3. t \in Transaction /\ t.mid = transactions[k].mid
    <3>1. transactions[k] \in Transaction
      BY <1>1, <2>2
    <3> QED
      BY <3>1, CountedIs
  <2> HIDE DEF t, k
  <2>4. list \in Seq(Transaction) /\ MidsOf(list) = Mids
    BY <2>2, <2>3, TransExcept DEF TypedInv
  <2> HIDE DEF list
  <2>5. Mids \subseteq Mids'
    BY <2>1, <2>4, NotifyLeaves
  <2> QED
    BY <2>1, <2>5, CheckGoesOn
<1>11. ASSUME NEW new \in News(HandlerProfile), CloseTransaction(new)
       PROVE  WalkInv'
  <2>1. /\ pc.at = "close_transactions" /\ pc.t \in Mids /\ Secured # {}
        /\ pc' = [pc EXCEPT !.t = After(pc.t)]
    BY <1>11 DEF CloseTransaction, WalkInv, ClosePlace
  <2>2. CASE transactions[At(pc.t)].ep = pc.ep
    <3>1. Notify(WaitingFor(pc.t), new, TransactionsWithout(pc.t))
      BY <1>11, <2>2 DEF CloseTransaction
    <3>2. TransactionsWithout(pc.t) \in Seq(Transaction)
      BY <1>1, MidsWithout
    <3>3. transactions' = TransactionsWithout(pc.t)
      BY <2>1, <3>1, <3>2, NotifyLeaves
    <3> QED
      BY <2>1, <3>3, CloseClears
  <2>3. CASE transactions[At(pc.t)].ep # pc.ep
    <3>1. UNCHANGED transactions
      BY <1>11, <2>3 DEF CloseTransaction
    <3> QED
      BY <2>1, <2>3, <3>1, ClosePasses
  <2> QED
    BY <2>2, <2>3
<1>12. CASE CloseTransactionsEnd
  <2>1. /\ pc.at = "close_transactions" /\ pc.t = 0
        /\ pc' = [pc EXCEPT !.at = "close_cbs"]
        /\ transactions' = transactions /\ Mids' = Mids
    BY <1>12 DEF CloseTransactionsEnd, Mids
  <2>2. /\ pc'.at = "close_cbs" /\ pc'.t = 0 /\ pc'.next = pc.next
        /\ pc'.removed = pc.removed /\ pc'.caller = pc.caller
    <3>1. 0 \in Nat
      OBVIOUS
    <3> QED
      BY <1>1, <2>1, <3>1, PcMoves
  <2>3. Resumable'
    BY <2>1, <2>2, NothingAhead DEF WalkInv, Resumable
  <2> QED
    BY <2>1, <2>2, <2>3 DEF WalkInv, ClosePlace, WalkIsSafe
<1>13. ASSUME NEW new \in News(HandlerProfile), CloseCb(new)
       PROVE  WalkInv'
  <2>1. /\ pc.at = "close_cbs" /\ pc.t = 0 /\ Secured # {} /\ pc' = pc
        /\ \E S : Notify(S, new, transactions)
    BY <1>13 DEF CloseCb, WalkInv, ClosePlace
  <2>2. transactions' = transactions
    BY <1>1, <2>1, NotifyLeaves
  <2>3. Mids' = Mids
    BY <2>2 DEF Mids
  <2>4. Resumable'
    BY <2>1, <2>2, <2>3, NothingAhead DEF WalkInv, Resumable
  <2> QED
    BY <2>1, <2>4 DEF WalkInv, ClosePlace, WalkIsSafe
<1>14. CASE CloseEnd
  <2>1. /\ pc.at = "close_cbs" /\ pc.t = 0 /\ Mids' = Mids
        /\ pc' = IF pc.caller = "idle" THEN Idle
                 ELSE [Idle EXCEPT !.at = "check", !.t = ResumedAt(pc)]
    BY <1>14 DEF CloseEnd, WalkInv, ClosePlace, Mids
  <2>2. CASE pc.caller = "idle"
    BY <2>1, <2>2, IdleIs DEF WalkInv, ClosePlace, WalkIsSafe, Resumable
  <2>3. CASE pc.caller # "idle"
    <3>1. pc.caller = "check" /\ pc.removed \in Nat /\ Len(transactions) \in Nat
      BY <1>1, <2>3 DEF Pc
    <3>2. \/ Len(transactions) + 1 < pc.removed
          \/ Len(transactions) + 1 = pc.removed /\ pc.next \in Mids \cup {0}
      BY <2>1, <3>1, NothingAhead DEF WalkInv, Resumable
    <3>3. ResumedAt(pc) \in Mids \cup {0}
      BY <1>1, <3>1, <3>2, FirstIs DEF ResumedAt
    <3>4. pc'.at = "check" /\ pc'.t = ResumedAt(pc)
      BY <2>1, <2>3 DEF Idle
    <3> QED
      BY <2>1, <3>3, <3>4 DEF WalkInv, ClosePlace, WalkIsSafe, Resumable
  <2> QED
    BY <2>2, <2>3
<1>15. CASE Sessions
  <2>1. PICK e \in Secured : PeerConnects(e) \/ PeerCloses(e)
    BY <1>15 DEF Sessions
  <2>2. CASE PeerConnects(e)
    BY <1>2, <2>2 DEF PeerConnects
  <2>3. CASE PeerCloses(e)
    <3>1. /\ Mids' = Mids
          /\ pc' = [Idle EXCEPT !.at = "close_transactions",
                                !.t = First(transactions), !.ep = e]
      BY <2>3 DEF PeerCloses, Mids
    <3>2. /\ pc'.at = "close_transactions" /\ pc'.t = First(transactions)
          /\ pc'.caller = "idle"
      BY <3>1 DEF Idle
    <3> QED
      BY <1>1, <3>1, <3>2, FirstIs
         DEF WalkInv, ClosePlace, WalkIsSafe, Resumable
  <2> QED
    BY <2>1, <2>2, <2>3
<1> QED
  BY <1>3, <1>4, <1>5, <1>6, <1>7, <1>8, <1>9, <1>10, <1>11, <1>12, <1>13,
     <1>14, <1>15 DEF Next, Walk

\* coap_check_transactions and coap_free_transactions_by_endpoint never stand on
\* a transaction that was freed under them, for any number of transactions and
\* peers: the length of the list tells the first of the two when the successor
\* it has remembered may be gone, unless a handler issues a confirmable request
\* while a session is closed (QuietHandlers).
THEOREM WalksAreSafe ==
  ASSUME QuietHandlers
  PROVE  Spec => []WalkIsSafe
<1>1. Init => WalkInv
  BY IdleIs DEF Init, WalkInv, ClosePlace, WalkIsSafe, Resumable
<1>2. ClientInv /\ TypedInv /\ WalkInv /\ [Next]_vars => WalkInv'
  BY QuietHandlers, WalkStep
<1>3. WalkInv => WalkIsSafe
  BY DEF WalkInv
<1> QED
  BY <1>1, <1>2, <1>3, ClientInvariant, TransInvariant, PTL DEF Spec
=============================================================================
