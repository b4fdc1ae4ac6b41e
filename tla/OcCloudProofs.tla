---------------------------- MODULE OcCloudProofs ----------------------------
(***************************************************************************)
(* The cloud client, for any number of servers, attempts, calls, faults    *)
(* and crashes.  Closing a session calls handlers in the middle of the     *)
(* operation that closes it, so the invariant (Good) allows for handlers   *)
(* that are yet to be called and sessions about to end, and is shown of    *)
(* every operation and of every handler; the steps follow from these.      *)
(***************************************************************************)
EXTENDS OcCloud, OcListProofs

-----------------------------------------------------------------------------
(* Lists of delayed callbacks *)

Names(list) == {list[i].cb : i \in 1..Len(list)}
OnceIn(list) ==
  \A i, j \in 1..Len(list) :
    list[i].cb = list[j].cb /\ i # j => list[i].cb \in DeregisterTimer

LEMMA UnsetTimers ==
  ASSUME NEW list \in Seq(Callback), OnceIn(list), NEW S
  PROVE  LET new == Without(list, [cb : S, due : BOOLEAN])
         IN  /\ new \in Seq(Callback)
             /\ OnceIn(new)
             /\ Names(new) = Names(list) \ S
<1> DEFINE removed == [cb : S, due : BOOLEAN]
           new == Without(list, removed)
<1>1. new \in Seq(Callback)
  BY WithoutSelects, Zenon
<1>2. PICK h : Enumerates(h, new, list, removed, Len(list))
  BY WithoutSelects, Zenon
<1>3. \A i \in 1..Len(list) : list[i] \in removed <=> list[i].cb \in S
  <2>1. \A t \in Callback : t \in removed <=> t.cb \in S
    BY DEF Callback
  <2> QED
    BY <2>1
<1> HIDE DEF new, removed
<1>4. \A k \in 1..Len(new) : /\ h[k] \in 1..Len(list) /\ new[k] = list[h[k]]
                             /\ list[h[k]] \notin removed
  BY <1>2 DEF Enumerates, Left
<1>5. \A k, l \in 1..Len(new) : k # l => h[k] # h[l]
  <2>1. \A k \in 1..Len(new) : h[k] \in Int
    BY <1>4
  <2>2. \A k, l \in 1..Len(new) : k < l => h[k] < h[l]
    BY <1>2 DEF Enumerates
  <2>3. \A k, l \in 1..Len(new) : k # l => k < l \/ l < k
    OBVIOUS
  <2> QED
    BY <2>1, <2>2, <2>3
<1>6. OnceIn(new)
  BY <1>4, <1>5 DEF OnceIn
<1>7. Names(new) \subseteq Names(list) \ S
  BY <1>3, <1>4 DEF Names
<1>8. Names(list) \ S \subseteq Names(new)
  <2> SUFFICES ASSUME NEW i \in 1..Len(list), list[i].cb \notin S
               PROVE  \E k \in 1..Len(new) : new[k] = list[i]
    BY DEF Names
  <2>1. i \in Left(list, removed) /\ i <= Len(list)
    BY <1>3 DEF Left
  <2> QED
    BY <1>2, <2>1 DEF Enumerates
<1> QED
  BY <1>1, <1>6, <1>7, <1>8 DEF new, removed

LEMMA SetTimers ==
  ASSUME NEW list \in Seq(Callback), OnceIn(list),
         NEW cb \in Timer, NEW due \in BOOLEAN,
         cb \notin Names(list) \/ cb \in DeregisterTimer
  PROVE  LET new == Append(list, [cb |-> cb, due |-> due])
         IN  /\ new \in Seq(Callback)
             /\ OnceIn(new)
             /\ Names(new) = Names(list) \cup {cb}
<1> DEFINE t == [cb |-> cb, due |-> due]
           new == Append(list, t)
<1>1. t \in Callback /\ t.cb = cb
  BY DEF Callback
<1> HIDE DEF t
<1>2. /\ new \in Seq(Callback)
      /\ Len(new) = Len(list) + 1 /\ Len(list) \in Nat
      /\ \A i \in 1..Len(list) : new[i] = list[i]
      /\ new[Len(list) + 1] = t
  BY <1>1
<1> HIDE DEF new
<1>3. \A i \in 1..Len(new) : i \in 1..Len(list) \/ i = Len(list) + 1
  BY <1>2
<1>4. \A i \in 1..Len(list) : i \in 1..Len(new)
  BY <1>2
<1>5. Len(list) + 1 \in 1..Len(new)
  BY <1>2
<1>6. OnceIn(new)
  BY <1>1, <1>2, <1>3 DEF OnceIn, Names
<1>7. Names(new) = Names(list) \cup {cb}
  BY <1>1, <1>2, <1>3, <1>4, <1>5 DEF Names
<1> QED
  BY <1>2, <1>6, <1>7 DEF new, t

\* What is left when the item at i is taken out.
LEMMA RemoveAtIs ==
  ASSUME NEW X, NEW list \in Seq(X), NEW i \in 1..Len(list)
  PROVE  /\ RemoveAt(list, i) \in Seq(X)
         /\ Len(RemoveAt(list, i)) = Len(list) - 1
         /\ \A k \in 1..Len(list) - 1 :
              RemoveAt(list, i)[k] = IF k < i THEN list[k] ELSE list[k + 1]
<1> DEFINE a == SubSeq(list, 1, i - 1)
           b == SubSeq(list, i + 1, Len(list))
<1>1. /\ a \in Seq(X) /\ Len(a) = i - 1
      /\ \A k \in 1..i - 1 : a[k] = list[k]
  OBVIOUS
<1>2. /\ b \in Seq(X) /\ Len(b) = Len(list) - i
      /\ \A k \in 1..Len(list) - i : b[k] = list[k + i]
  OBVIOUS
<1>3. RemoveAt(list, i) = a \o b
  BY DEF RemoveAt
<1> HIDE DEF a, b
<1>a. a \in Seq(X) /\ b \in Seq(X)
  BY <1>1, <1>2
<1>b. Len(list) \in Nat
  OBVIOUS
<1>4. a \o b \in Seq(X) /\ Len(a \o b) = Len(list) - 1
  <2>1. a \o b \in Seq(X)
    BY <1>a
  <2>2. Len(a \o b) = Len(a) + Len(b)
    BY <1>a
  <2>3. Len(a) = i - 1 /\ Len(b) = Len(list) - i
    BY <1>1, <1>2
  <2>4. (i - 1) + (Len(list) - i) = Len(list) - 1
    BY <1>b
  <2> QED
    BY <2>1, <2>2, <2>3, <2>4
<1>5. ASSUME NEW k \in 1..Len(list) - 1
      PROVE  (a \o b)[k] = IF k < i THEN list[k] ELSE list[k + 1]
  <2>0. k \in 1..(Len(a) + Len(b))
    BY <1>1, <1>2, <1>b
  <2>1. (a \o b)[k] = IF k <= Len(a) THEN a[k] ELSE b[k - Len(a)]
    BY <1>a, <2>0
  <2>2. CASE k < i
    BY <1>1, <2>1, <2>2
  <2>3. CASE ~(k < i)
    <3>1. k - (i - 1) \in 1..Len(list) - i
      BY <2>3
    <3>2. b[k - (i - 1)] = list[k - (i - 1) + i]
      BY <1>2, <3>1
    <3>3. k - (i - 1) + i = k + 1
      OBVIOUS
    <3> QED
      BY <1>1, <2>1, <2>3, <3>2, <3>3
  <2> QED
    BY <2>2, <2>3
<1> QED
  BY <1>3, <1>4, <1>5

LEMMA RemoveTimer ==
  ASSUME NEW list \in Seq(Callback), OnceIn(list), NEW i \in 1..Len(list)
  PROVE  /\ RemoveAt(list, i) \in Seq(Callback)
         /\ OnceIn(RemoveAt(list, i))
         /\ Names(RemoveAt(list, i)) \subseteq Names(list)
         /\ Names(list) \subseteq Names(RemoveAt(list, i)) \cup {list[i].cb}
<1> DEFINE new == RemoveAt(list, i)
           At(k) == IF k < i THEN k ELSE k + 1
<1>1. /\ new \in Seq(Callback) /\ Len(new) = Len(list) - 1
      /\ \A k \in 1..Len(list) - 1 :
           new[k] = IF k < i THEN list[k] ELSE list[k + 1]
  BY RemoveAtIs
<1> HIDE DEF new
<1>2. ASSUME NEW k \in 1..Len(new)
      PROVE  At(k) \in 1..Len(list) /\ new[k] = list[At(k)]
  <2>1. k \in 1..Len(list) - 1
    BY <1>1
  <2> QED
    BY <1>1, <2>1
<1>3. \A k, l \in 1..Len(new) : k # l => At(k) # At(l)
  OBVIOUS
<1>4. OnceIn(new)
  <2> HIDE DEF At
  <2> QED
    BY <1>2, <1>3 DEF OnceIn
<1>5. Names(new) \subseteq Names(list)
  <2> HIDE DEF At
  <2> QED
    BY <1>2 DEF Names
<1>6. \A j \in 1..Len(list) :
        j # i => \E k \in 1..Len(new) : new[k] = list[j]
  <2> SUFFICES ASSUME NEW j \in 1..Len(list), j # i
               PROVE  \E k \in 1..Len(new) : new[k] = list[j]
    OBVIOUS
  <2>1. CASE j < i
    <3>1. j \in 1..Len(new) /\ new[j] = list[j]
      BY <1>1, <2>1
    <3> QED
      BY <3>1
  <2>2. CASE i < j
    <3>1. j - 1 \in 1..Len(new) /\ new[j - 1] = list[j]
      BY <1>1, <2>2
    <3> QED
      BY <3>1
  <2> QED
    BY <2>1, <2>2
<1>7. Names(list) \subseteq Names(new) \cup {list[i].cb}
  BY <1>6 DEF Names
<1> QED
  BY <1>1, <1>4, <1>5, <1>7 DEF new

-----------------------------------------------------------------------------
(* The fields of a context *)

Field == {"manager", "hears", "status", "cps", "access", "refresh", "sel",
          "num", "ep", "up", "peer", "retry", "begun", "left", "changed",
          "timers", "reqs"}

\* d is c but for some fields.
Same(c, d, fields) == \A f \in Field \ fields : d[f] = c[f]

Cbs(c) == Names(c.timers)
Kinds(c) == {c.reqs[i].kind : i \in 1..Len(c.reqs)}

Formed(c) == c \in Context /\ OnceIn(c.timers)

LEMMA SameChain ==
  ASSUME NEW c, NEW d, NEW e, NEW F, NEW G, Same(c, d, F), Same(d, e, G)
  PROVE  Same(c, e, F \cup G)
  BY DEF Same

LEMMA TimersOf ==
  ASSUME NEW c, Formed(c)
  PROVE  c.timers \in Seq(Callback) /\ OnceIn(c.timers)
  BY DEF Formed, Context

LEMMA PutTimers ==
  ASSUME NEW c, Formed(c), NEW list \in Seq(Callback), OnceIn(list)
  PROVE  LET d == [c EXCEPT !.timers = list]
         IN  Formed(d) /\ Same(c, d, {"timers"}) /\ Cbs(d) = Names(list)
<1>1. [c EXCEPT !.timers = list] \in Context
  BY DEF Formed, Context
<1>2. [c EXCEPT !.timers = list].timers = list
  BY DEF Formed, Context
<1>3. Same(c, [c EXCEPT !.timers = list], {"timers"})
  BY DEF Formed, Context, Same, Field
<1> QED
  BY <1>1, <1>2, <1>3 DEF Formed, Cbs

LEMMA UnsetIs ==
  ASSUME NEW c, Formed(c), NEW S
  PROVE  LET d == Unset(c, S)
         IN  Formed(d) /\ Same(c, d, {"timers"}) /\ Cbs(d) = Cbs(c) \ S
<1> DEFINE list == Without(c.timers, [cb : S, due : BOOLEAN])
<1>1. /\ list \in Seq(Callback) /\ OnceIn(list)
      /\ Names(list) = Names(c.timers) \ S
  BY TimersOf, UnsetTimers, Zenon
<1>2. Unset(c, S) = [c EXCEPT !.timers = list]
  BY DEF Unset
<1> HIDE DEF list
<1> QED
  BY <1>1, <1>2, PutTimers DEF Cbs

LEMMA SetIs ==
  ASSUME NEW c, Formed(c), NEW cb \in Timer, NEW due \in BOOLEAN,
         cb \notin Cbs(c) \/ cb \in DeregisterTimer
  PROVE  LET d == Set(c, cb, due)
         IN  Formed(d) /\ Same(c, d, {"timers"}) /\ Cbs(d) = Cbs(c) \cup {cb}
<1> DEFINE list == Append(c.timers, [cb |-> cb, due |-> due])
<1>1. /\ list \in Seq(Callback) /\ OnceIn(list)
      /\ Names(list) = Names(c.timers) \cup {cb}
  BY TimersOf, SetTimers, Zenon DEF Cbs
<1>2. Set(c, cb, due) = [c EXCEPT !.timers = list]
  BY DEF Set
<1> HIDE DEF list
<1> QED
  BY <1>1, <1>2, PutTimers DEF Cbs

LEMMA SoonIs ==
  ASSUME NEW c, Formed(c), NEW cb \in Timer
  PROVE  LET d == Soon(c, cb)
         IN  Formed(d) /\ Same(c, d, {"timers"}) /\ Cbs(d) = Cbs(c) \cup {cb}
<1> DEFINE e == Unset(c, {cb})
           d == Set(e, cb, TRUE)
<1>1. Formed(e) /\ Same(c, e, {"timers"}) /\ Cbs(e) = Cbs(c) \ {cb}
  BY UnsetIs
<1> HIDE DEF e
<1>2. Formed(d) /\ Same(e, d, {"timers"}) /\ Cbs(d) = Cbs(e) \cup {cb}
  BY <1>1, SetIs
<1>3. d = Soon(c, cb)
  BY DEF Soon, e
<1> HIDE DEF d
<1>4. Same(c, d, {"timers"})
  BY <1>1, <1>2 DEF Same
<1> QED
  BY <1>1, <1>2, <1>3, <1>4

LEMMA LaterIs ==
  ASSUME NEW c, Formed(c), NEW cb \in Timer
  PROVE  LET d == Later(c, cb)
         IN  Formed(d) /\ Same(c, d, {"timers"}) /\ Cbs(d) = Cbs(c) \cup {cb}
<1> DEFINE e == Unset(c, {cb})
           d == Set(e, cb, FALSE)
<1>1. Formed(e) /\ Same(c, e, {"timers"}) /\ Cbs(e) = Cbs(c) \ {cb}
  BY UnsetIs
<1> HIDE DEF e
<1>2. Formed(d) /\ Same(e, d, {"timers"}) /\ Cbs(d) = Cbs(e) \cup {cb}
  BY <1>1, SetIs
<1>3. d = Later(c, cb)
  BY DEF Later, e
<1> HIDE DEF d
<1>4. Same(c, d, {"timers"})
  BY <1>1, <1>2 DEF Same
<1> QED
  BY <1>1, <1>2, <1>3, <1>4

LEMMA ManagerRestartIs ==
  ASSUME NEW c, Formed(c)
  PROVE  LET d == ManagerRestart(c)
         IN  /\ Formed(d) /\ Same(c, d, {"timers"})
             /\ Cbs(d) = (Cbs(c) \ (ManagerTimer \cup DeregisterTimer))
                           \cup {"start"}
<1> DEFINE d1 == Unset(c, ManagerTimer)
           d2 == Unset(d1, DeregisterTimer)
           d3 == Soon(d2, "start")
<1>1. Formed(d1) /\ Same(c, d1, {"timers"}) /\ Cbs(d1) = Cbs(c) \ ManagerTimer
  BY UnsetIs
<1> HIDE DEF d1
<1>2. /\ Formed(d2) /\ Same(d1, d2, {"timers"})
      /\ Cbs(d2) = Cbs(d1) \ DeregisterTimer
  BY <1>1, UnsetIs
<1> HIDE DEF d2
<1>3. Formed(d3) /\ Same(d2, d3, {"timers"}) /\ Cbs(d3) = Cbs(d2) \cup {"start"}
  BY <1>2, SoonIs DEF Timer
<1>4. ManagerRestart(c) = d3
  BY DEF ManagerRestart, cloud_manager_stop, oc_cloud_deregister_stop, d1, d2
<1> HIDE DEF d3
<1>5. Same(c, d3, {"timers"})
  BY <1>1, <1>2, <1>3 DEF Same
<1> QED
  BY <1>1, <1>2, <1>3, <1>4, <1>5

-----------------------------------------------------------------------------
(* Sound contexts *)

\* What no operation changes: whether the manager is started and hears the
\* events of sessions; nor does a device become registered, but by an answer.
Frame(c) == [manager |-> c.manager, hears |-> c.hears, registered |-> TRUE]

Kept(c, m) ==
  /\ c.manager = m.manager /\ c.hears = m.hears
  /\ Registered(c) => m.registered

\* A registered device has a refresh token.
Signs(c) == Registered(c) => c.refresh

\* What a crash would lose of c if st was stored is about to be saved.
Saved(c, st) ==
  \/ "dump" \in Cbs(c)
  \/ c.access = "none"
  \/ /\ c.access = st.access /\ c.refresh = st.refresh
     /\ c.sel = st.sel /\ c.num = st.num

\* The session that c takes for connected is gone, or about to be closed: one
\* of those in X.
Excused(c, X) ==
  c.up /\ c.ep # NoServer /\ (c.peer[c.ep] = "none" \/ c.ep \in X)

\* The device keeps trying, and a deregistration goes on, when the handlers of
\* the requests in owed, which are no more in the list, will yet be called.
Tries(c, owed, X) ==
  c.hears /\ Registered(c) /\ ~LoggedIn(c) =>
    \/ Cbs(c) \cap Step # {}
    \/ (Kinds(c) \cup owed) \cap Answered # {}
    \/ Excused(c, X)

Deregisters(c, owed) ==
  c.cps = "deregistering" =>
    \/ Cbs(c) \cap {"refreshed", "start"} # {}
    \/ (Kinds(c) \cup owed) \cap DeregisterRequest # {}

Base(c, m, st) == Formed(c) /\ Kept(c, m) /\ Signs(c) /\ Saved(c, st)

Good(c, m, st, owed, X) ==
  Base(c, m, st) /\ Tries(c, owed, X) /\ Deregisters(c, owed)

\* A session is closed by a function that keeps contexts sound.
Closes(close) ==
  \A c \in Context, s \in Endpoint : \A m, st, owed, X :
    Good(c, m, st, owed, X) => Good(close[c][s], m, st, owed, X)

LEMMA GoodMonotone ==
  ASSUME NEW c, NEW m, NEW st, NEW owed, NEW X, NEW more, NEW Y,
         Good(c, m, st, owed, X)
  PROVE  Good(c, m, st, owed \cup more, X \cup Y)
  BY DEF Good, Tries, Deregisters, Excused

LEMMA BaseIsGood ==
  ASSUME NEW c, NEW m, NEW st, NEW owed, NEW X, Base(c, m, st),
         owed \cap DeregisterRequest # {}
  PROVE  Good(c, m, st, owed, X)
  BY DEF Good, Tries, Deregisters, Answered, DeregisterRequest, ManagerRequest

\* Callbacks are set, some that do not matter are removed, and fields that do
\* not matter change.
Bookkeeping == {"timers", "retry", "begun", "left", "changed"}

LEMMA BaseMore ==
  ASSUME NEW c, NEW d, NEW m, NEW st, NEW S,
         Base(c, m, st), Formed(d), Same(c, d, Bookkeeping),
         Cbs(c) \subseteq Cbs(d) \cup S, "dump" \notin S
  PROVE  Base(d, m, st)
<1>1. /\ d.manager = c.manager /\ d.hears = c.hears /\ d.status = c.status
      /\ d.access = c.access /\ d.refresh = c.refresh /\ d.sel = c.sel
      /\ d.num = c.num
  BY DEF Same, Field, Bookkeeping
<1> QED
  BY <1>1 DEF Base, Kept, Signs, Saved, Registered

LEMMA GoodMore ==
  ASSUME NEW c, NEW d, NEW m, NEW st, NEW owed, NEW X, NEW S,
         Good(c, m, st, owed, X), Formed(d), Same(c, d, Bookkeeping),
         Cbs(c) \subseteq Cbs(d) \cup S, S \cap {"dump", "refreshed", "start"} = {},
         \/ S \cap Step = {} \/ owed \cap Answered # {}
         \/ Cbs(d) \cap Step # {}
  PROVE  Good(d, m, st, owed, X)
<1>1. /\ d.manager = c.manager /\ d.hears = c.hears /\ d.status = c.status
      /\ d.cps = c.cps /\ d.ep = c.ep /\ d.up = c.up /\ d.peer = c.peer
      /\ d.reqs = c.reqs
  BY DEF Same, Field, Bookkeeping
<1>2. Base(d, m, st)
  BY BaseMore DEF Good
<1>3. Kinds(d) = Kinds(c) /\ (Excused(d, X) <=> Excused(c, X))
  BY <1>1 DEF Kinds, Excused
<1>4. Tries(d, owed, X)
  BY <1>1, <1>3 DEF Good, Tries, Registered, LoggedIn
<1>5. Deregisters(d, owed)
  BY <1>1, <1>3 DEF Good, Deregisters
<1> QED
  BY <1>2, <1>4, <1>5 DEF Good

LEMMA GoodGrows ==
  ASSUME NEW c, NEW d, NEW m, NEW st, NEW owed, NEW X,
         Good(c, m, st, owed, X), Formed(d), Same(c, d, Bookkeeping),
         Cbs(c) \subseteq Cbs(d)
  PROVE  Good(d, m, st, owed, X)
<1> DEFINE S == {}
<1>1. /\ Cbs(c) \subseteq Cbs(d) \cup S /\ S \cap Step = {}
      /\ S \cap {"dump", "refreshed", "start"} = {}
  OBVIOUS
<1> HIDE DEF S
<1> QED
  BY <1>1, GoodMore

\* The answer of the manager was dealt with.
LEMMA Discharge ==
  ASSUME NEW c, NEW m, NEW st, NEW owed, NEW X, NEW kind,
         Good(c, m, st, owed \cup {kind}, X), kind \notin DeregisterRequest,
         \/ Cbs(c) \cap Step # {} \/ kind \notin Answered
         \/ ~Registered(c) \/ LoggedIn(c)
  PROVE  Good(c, m, st, owed, X)
  BY DEF Good, Tries, Deregisters

-----------------------------------------------------------------------------
(* Operations on the callbacks keep a context sound. *)

LEMMA SoonGood ==
  ASSUME NEW c, NEW m, NEW st, NEW owed, NEW X, NEW cb \in Timer,
         Good(c, m, st, owed, X)
  PROVE  Good(Soon(c, cb), m, st, owed, X)
<1>1. Formed(c)
  BY DEF Good, Base
<1>2. /\ Formed(Soon(c, cb)) /\ Same(c, Soon(c, cb), {"timers"})
      /\ Cbs(Soon(c, cb)) = Cbs(c) \cup {cb}
  BY <1>1, SoonIs
<1>3. Same(c, Soon(c, cb), Bookkeeping)
  BY <1>2 DEF Same, Bookkeeping
<1>4. Cbs(c) \subseteq Cbs(Soon(c, cb))
  BY <1>2
<1> QED
  BY <1>2, <1>3, <1>4, GoodGrows

LEMMA LaterGood ==
  ASSUME NEW c, NEW m, NEW st, NEW owed, NEW X, NEW cb \in Timer,
         Good(c, m, st, owed, X)
  PROVE  Good(Later(c, cb), m, st, owed, X)
<1>1. Formed(c)
  BY DEF Good, Base
<1>2. /\ Formed(Later(c, cb)) /\ Same(c, Later(c, cb), {"timers"})
      /\ Cbs(Later(c, cb)) = Cbs(c) \cup {cb}
  BY <1>1, LaterIs
<1>3. Same(c, Later(c, cb), Bookkeeping)
  BY <1>2 DEF Same, Bookkeeping
<1>4. Cbs(c) \subseteq Cbs(Later(c, cb))
  BY <1>2
<1> QED
  BY <1>2, <1>3, <1>4, GoodGrows

LEMMA UnsetGood ==
  ASSUME NEW c, NEW m, NEW st, NEW owed, NEW X, NEW S,
         Good(c, m, st, owed, X), S \cap {"dump", "refreshed", "start"} = {},
         S \cap Step = {} \/ owed \cap Answered # {}
  PROVE  Good(Unset(c, S), m, st, owed, X)
<1>1. Formed(c)
  BY DEF Good, Base
<1>2. /\ Formed(Unset(c, S)) /\ Same(c, Unset(c, S), {"timers"})
      /\ Cbs(Unset(c, S)) = Cbs(c) \ S
  BY <1>1, UnsetIs
<1>3. Same(c, Unset(c, S), Bookkeeping)
  BY <1>2 DEF Same, Bookkeeping
<1>4. Cbs(c) \subseteq Cbs(Unset(c, S)) \cup S
  BY <1>2
<1> QED
  BY <1>2, <1>3, <1>4, GoodMore

LEMMA UnsetBase ==
  ASSUME NEW c, NEW m, NEW st, NEW S, Base(c, m, st), "dump" \notin S
  PROVE  Base(Unset(c, S), m, st)
<1>1. Formed(c)
  BY DEF Base
<1>2. /\ Formed(Unset(c, S)) /\ Same(c, Unset(c, S), {"timers"})
      /\ Cbs(Unset(c, S)) = Cbs(c) \ S
  BY <1>1, UnsetIs
<1>3. Same(c, Unset(c, S), Bookkeeping)
  BY <1>2 DEF Same, Bookkeeping
<1>4. Cbs(c) \subseteq Cbs(Unset(c, S)) \cup S
  BY <1>2
<1> QED
  BY <1>2, <1>3, <1>4, BaseMore

\* Whatever else was going on, a restart goes on.
LEMMA ManagerRestartGood ==
  ASSUME NEW c, NEW m, NEW st, Base(c, m, st)
  PROVE  Good(ManagerRestart(c), m, st, {}, {})
<1> DEFINE d == ManagerRestart(c)
           S == ManagerTimer \cup DeregisterTimer
<1>1. /\ Formed(d) /\ Same(c, d, {"timers"})
      /\ Cbs(d) = (Cbs(c) \ S) \cup {"start"}
  BY ManagerRestartIs DEF Base
<1> HIDE DEF d
<1>2. Same(c, d, Bookkeeping)
  BY <1>1 DEF Same, Bookkeeping
<1>3. Cbs(c) \subseteq Cbs(d) \cup S
  BY <1>1
<1>4. "dump" \notin S
  BY DEF ManagerTimer, DeregisterTimer
<1>5. Base(d, m, st)
  BY <1>1, <1>2, <1>3, <1>4, BaseMore
<1>6. "start" \in Step
  BY DEF Step, Timer
<1>7. Good(d, m, st, {}, {})
  BY <1>1, <1>5, <1>6 DEF Good, Tries, Deregisters
<1> QED
  BY <1>7 DEF d

-----------------------------------------------------------------------------
(* Servers and retries *)

LEMMA PutBookkeeping ==
  ASSUME NEW c, Formed(c), NEW retry \in [conn : Nat, token : Nat],
         NEW begun \in BOOLEAN, NEW left \in 0..NumServers - 1,
         NEW changed \in BOOLEAN
  PROVE  /\ LET d == [c EXCEPT !.retry = retry]
            IN  Formed(d) /\ Same(c, d, {"retry"})
         /\ LET d == [c EXCEPT !.begun = begun, !.changed = changed,
                               !.left = left]
            IN  Formed(d) /\ Same(c, d, {"begun", "left", "changed"})
         /\ LET d == [c EXCEPT !.left = left, !.changed = changed]
            IN  Formed(d) /\ Same(c, d, {"left", "changed"})
         /\ LET d == [c EXCEPT !.changed = changed]
            IN  Formed(d) /\ Same(c, d, {"changed"})
<1>1. LET d == [c EXCEPT !.retry = retry]
      IN  Formed(d) /\ Same(c, d, {"retry"})
  BY DEF Formed, Context, Same, Field
<1>2. LET d == [c EXCEPT !.begun = begun, !.changed = changed, !.left = left]
      IN  Formed(d) /\ Same(c, d, {"begun", "left", "changed"})
  BY DEF Formed, Context, Same, Field
<1>3. LET d == [c EXCEPT !.left = left, !.changed = changed]
      IN  Formed(d) /\ Same(c, d, {"left", "changed"})
  BY DEF Formed, Context, Same, Field
<1>4. LET d == [c EXCEPT !.changed = changed]
      IN  Formed(d) /\ Same(c, d, {"changed"})
  BY DEF Formed, Context, Same, Field
<1> QED
  BY <1>1, <1>2, <1>3, <1>4

\* A context in which only counters change.
LEMMA CountersGood ==
  ASSUME NEW c, NEW d, NEW m, NEW st, NEW owed, NEW X, Good(c, m, st, owed, X),
         Formed(d), Same(c, d, Bookkeeping \ {"timers"})
  PROVE  Good(d, m, st, owed, X) /\ Cbs(d) = Cbs(c)
<1>1. Same(c, d, Bookkeeping)
  BY DEF Same, Bookkeeping
<1>2. d.timers = c.timers
  BY DEF Same, Bookkeeping, Field
<1>3. Cbs(d) = Cbs(c)
  BY <1>2 DEF Cbs
<1>4. Cbs(c) \subseteq Cbs(d)
  BY <1>3
<1>5. Good(d, m, st, owed, X)
  BY <1>1, <1>4, GoodGrows
<1> QED
  BY <1>3, <1>5

LEMMA RegistrationGood ==
  ASSUME NEW c, NEW m, NEW st, NEW owed, NEW X, Good(c, m, st, owed, X)
  PROVE  /\ Good(RegistrationInit(c), m, st, owed, X)
         /\ Same(c, RegistrationInit(c), {"begun", "left", "changed"})
         /\ Good(RegistrationDeinit(c), m, st, owed, X)
         /\ Same(c, RegistrationDeinit(c), {"begun", "left", "changed"})
<1>1. Formed(c)
  BY DEF Good, Base
<1>2. c.num \in 1..NumServers /\ NumServers \in Nat
  BY <1>1, ServersAssumption DEF Formed, Context
<1>3. c.num - 1 \in 0..NumServers - 1 /\ 0 \in 0..NumServers - 1
  BY <1>2
<1>4. [conn |-> 0, token |-> 0] \in [conn : Nat, token : Nat]
  OBVIOUS
<1>5. /\ Formed(RegistrationInit(c))
      /\ Same(c, RegistrationInit(c), {"begun", "left", "changed"})
  BY <1>1, <1>3, <1>4, PutBookkeeping DEF RegistrationInit
<1>6. /\ Formed(RegistrationDeinit(c))
      /\ Same(c, RegistrationDeinit(c), {"begun", "left", "changed"})
  BY <1>1, <1>3, <1>4, PutBookkeeping DEF RegistrationDeinit
<1>7. ASSUME NEW d, Same(c, d, {"begun", "left", "changed"})
      PROVE  Same(c, d, Bookkeeping \ {"timers"})
  BY <1>7 DEF Same, Bookkeeping
<1> QED
  BY <1>5, <1>6, <1>7, CountersGood

\* What is known of the device changes.
Knowledge == {"status", "cps", "access", "refresh", "sel", "num"}

LEMMA GoodUpdates ==
  ASSUME NEW c, NEW d, NEW m, NEW st, NEW owed, NEW X,
         Good(c, m, st, owed, X), Formed(d), Signs(d), Saved(d, st),
         Same(c, d, Bookkeeping \cup Knowledge), Cbs(c) \subseteq Cbs(d),
         Registered(d) => m.registered,
         Registered(d) /\ ~LoggedIn(d) =>
           \/ Registered(c) /\ ~LoggedIn(c)
           \/ owed \cap Answered # {} \/ Cbs(d) \cap Step # {},
         d.cps = "deregistering" => c.cps = "deregistering"
  PROVE  Good(d, m, st, owed, X)
<1>1. /\ d.manager = c.manager /\ d.hears = c.hears /\ d.ep = c.ep
      /\ d.up = c.up /\ d.peer = c.peer /\ d.reqs = c.reqs
  BY DEF Same, Field, Bookkeeping, Knowledge
<1>2. Base(d, m, st)
  BY <1>1 DEF Good, Base, Kept
<1>3. Kinds(d) = Kinds(c) /\ (Excused(d, X) <=> Excused(c, X))
  BY <1>1 DEF Kinds, Excused
<1>4. Tries(d, owed, X)
  BY <1>1, <1>3 DEF Good, Tries
<1>5. Deregisters(d, owed)
  BY <1>1, <1>3 DEF Good, Deregisters
<1> QED
  BY <1>2, <1>4, <1>5 DEF Good

LEMMA PutKnowledge ==
  ASSUME NEW c, Formed(c), NEW access \in Token, NEW refresh \in BOOLEAN
  PROVE  /\ LET d == [c EXCEPT !.access = access]
            IN  Formed(d) /\ Same(c, d, {"access"}) /\ d.access = access
         /\ LET d == [c EXCEPT !.refresh = refresh]
            IN  Formed(d) /\ Same(c, d, {"refresh"}) /\ d.refresh = refresh
  BY DEF Formed, Context, Same, Field

LEMMA SetCpsIs ==
  ASSUME NEW c, Formed(c), NEW cps \in Cps
  PROVE  LET d == SetCps(c, cps)
         IN  Formed(d) /\ Same(c, d, {"cps"}) /\ d.cps = cps
  BY DEF SetCps, Formed, Context, Same, Field

LEMMA AddIs ==
  ASSUME NEW c, Formed(c), NEW bits \in SUBSET Status
  PROVE  LET d == Add(c, bits)
         IN  /\ Formed(d) /\ Same(c, d, {"status"})
             /\ d.status = c.status \cup bits
<1> DEFINE status == c.status \cup bits
           d == [c EXCEPT !.status = status]
<1>1. c.status \in SUBSET Status
  BY DEF Formed, Context
<1>2. status \in SUBSET Status
  BY <1>1
<1>3. Add(c, bits) = d
  BY DEF Add
<1> HIDE DEF status
<1>4. Formed(d) /\ Same(c, d, {"status"}) /\ d.status = status
  BY <1>2 DEF Formed, Context, Same, Field
<1> HIDE DEF d
<1> QED
  BY <1>3, <1>4 DEF status

LEMMA DropIs ==
  ASSUME NEW c, Formed(c), NEW bits
  PROVE  LET d == Drop(c, bits)
         IN  /\ Formed(d) /\ Same(c, d, {"status"})
             /\ d.status = c.status \ bits
<1> DEFINE status == c.status \ bits
           d == [c EXCEPT !.status = status]
<1>1. c.status \in SUBSET Status
  BY DEF Formed, Context
<1>2. status \in SUBSET Status
  BY <1>1
<1>3. Drop(c, bits) = d
  BY DEF Drop
<1> HIDE DEF status
<1>4. Formed(d) /\ Same(c, d, {"status"}) /\ d.status = status
  BY <1>2 DEF Formed, Context, Same, Field
<1> HIDE DEF d
<1> QED
  BY <1>3, <1>4 DEF status

LEMMA CounterIs ==
  ASSUME NEW c, Formed(c), NEW k \in {"conn", "token"}, NEW n \in Nat
  PROVE  LET d == [c EXCEPT !.retry[k] = n]
         IN  Formed(d) /\ Same(c, d, {"retry"})
<1> DEFINE retry == [c.retry EXCEPT ![k] = n]
           d == [c EXCEPT !.retry = retry]
<1>1. c.retry \in [conn : Nat, token : Nat]
  BY DEF Formed, Context
<1>2. retry \in [conn : Nat, token : Nat]
  BY <1>1
<1>3. d = [c EXCEPT !.retry[k] = n]
  OBVIOUS
<1> HIDE DEF retry
<1>4. Formed(d) /\ Same(c, d, {"retry"})
  BY <1>2 DEF Formed, Context, Same, Field
<1> HIDE DEF d
<1> QED
  BY <1>3, <1>4

LEMMA ResetIs ==
  ASSUME NEW c, Formed(c)
  PROVE  LET d == cloud_retry_reset(c)
         IN  Formed(d) /\ Same(c, d, {"retry"})
<1> DEFINE retry == [conn |-> 0, token |-> 0]
<1>1. retry \in [conn : Nat, token : Nat]
  OBVIOUS
<1>2. cloud_retry_reset(c) = [c EXCEPT !.retry = retry]
  BY DEF cloud_retry_reset
<1> HIDE DEF retry
<1> QED
  BY <1>1, <1>2 DEF Formed, Context, Same, Field

Action == {"register", "login", "refresh"}

LEMMA FirstIs ==
  ASSUME NEW c, Formed(c), NEW action \in Action
  PROVE  LET d == First(c, action)
         IN  /\ Formed(d) /\ Same(c, d, {"retry", "timers"})
             /\ Cbs(d) = Cbs(c) \cup {action}
<1> DEFINE k == Counter(action)
           e == [c EXCEPT !.retry[k] = 0]
           d == Later(e, action)
<1>1. k \in {"conn", "token"} /\ action \in Timer
  BY DEF Counter, Action, Timer, ManagerTimer
<1>2. d = First(c, action)
  BY DEF First
<1> HIDE DEF k
<1>3. Formed(e) /\ Same(c, e, {"retry"})
  BY <1>1, CounterIs
<1> HIDE DEF e
<1>4. Formed(d) /\ Same(e, d, {"timers"}) /\ Cbs(d) = Cbs(e) \cup {action}
  BY <1>1, <1>3, LaterIs
<1> HIDE DEF d
<1>5. Same(c, d, {"retry", "timers"}) /\ Cbs(e) = Cbs(c)
  BY <1>3, <1>4 DEF Same, Cbs, Field
<1> QED
  BY <1>2, <1>4, <1>5

LEMMA DumpIs ==
  ASSUME NEW c, Formed(c)
  PROVE  LET d == Dump(c)
         IN  /\ Formed(d) /\ Same(c, d, {"timers"})
             /\ Cbs(d) = Cbs(c) \cup {"dump"}
  BY SoonIs DEF Dump, Timer

LEMMA ServerChangedIs ==
  ASSUME NEW c, Formed(c)
  PROVE  LET d == ServerChanged(c)
         IN  /\ Formed(d) /\ Same(c, d, {"changed", "timers"})
             /\ Cbs(d) = Cbs(c) \cup {"dump"}
<1> DEFINE changed == c.changed \/ c.manager
           e == [c EXCEPT !.changed = changed]
           d == Dump(e)
<1>1. changed \in BOOLEAN
  OBVIOUS
<1>2. d = ServerChanged(c)
  BY DEF ServerChanged
<1> HIDE DEF changed
<1>3. Formed(e) /\ Same(c, e, {"changed"})
  BY <1>1 DEF Formed, Context, Same, Field
<1> HIDE DEF e
<1>4. Formed(d) /\ Same(e, d, {"timers"}) /\ Cbs(d) = Cbs(e) \cup {"dump"}
  BY <1>3, DumpIs
<1> HIDE DEF d
<1>5. Same(c, d, {"changed", "timers"}) /\ Cbs(e) = Cbs(c)
  BY <1>3, <1>4 DEF Same, Cbs, Field
<1> QED
  BY <1>2, <1>4, <1>5

LEMMA SelectNextIs ==
  ASSUME NEW c, Formed(c)
  PROVE  LET d == SelectNext(c)
         IN  /\ Formed(d) /\ Same(c, d, {"sel", "changed", "timers"})
             /\ Cbs(c) \subseteq Cbs(d)
             /\ d.sel = c.sel \/ "dump" \in Cbs(d)
<1>1. CASE c.num = 1
  BY <1>1 DEF SelectNext, Same
<1>2. CASE c.num # 1
  <2> DEFINE sel == (c.sel % c.num) + 1
             e == [c EXCEPT !.sel = sel]
             d == ServerChanged(e)
  <2>1. c.num \in 1..NumServers /\ c.sel \in Nat /\ NumServers \in Nat
    BY ServersAssumption DEF Formed, Context, Server, Default
  <2>2. sel \in Server
    <3>1. c.sel % c.num \in 0..c.num - 1
      BY <2>1
    <3> QED
      BY <2>1, <3>1 DEF Server, Default
  <2>3. d = SelectNext(c)
    BY <1>2 DEF SelectNext
  <2> HIDE DEF sel
  <2>4. Formed(e) /\ Same(c, e, {"sel"})
    BY <2>2 DEF Formed, Context, Same, Field
  <2> HIDE DEF e
  <2>5. /\ Formed(d) /\ Same(e, d, {"changed", "timers"})
        /\ Cbs(d) = Cbs(e) \cup {"dump"}
    BY <2>4, ServerChangedIs
  <2> HIDE DEF d
  <2>6. Same(c, d, {"sel", "changed", "timers"}) /\ Cbs(e) = Cbs(c)
    BY <2>4, <2>5 DEF Same, Cbs, Field
  <2> QED
    BY <2>3, <2>5, <2>6
<1> QED
  BY <1>1, <1>2

LEMMA RetryIs ==
  ASSUME NEW c, Formed(c), NEW action \in Action
  PROVE  LET d == Retry(c, action)
         IN  /\ Formed(d) /\ Same(c, d, {"retry", "sel", "changed", "timers"})
             /\ Cbs(c) \subseteq Cbs(d)
             /\ d.sel = c.sel \/ "dump" \in Cbs(d)
             /\ Exhausted(c, action) \/ action \in Cbs(d)
<1> DEFINE k == Counter(action)
           n == c.retry[k] + 1
           e == [c EXCEPT !.retry[k] = n]
<1>1. k \in {"conn", "token"} /\ action \in Timer
  BY DEF Counter, Action, Timer, ManagerTimer
<1>2. Retry(c, action) =
        IF Exhausted(c, action) THEN SelectNext(e) ELSE Later(e, action)
  BY DEF Retry
<1> HIDE DEF k
<1>3. n \in Nat
  <2>1. c.retry \in [conn : Nat, token : Nat]
    BY DEF Formed, Context
  <2> QED
    BY <1>1, <2>1
<1> HIDE DEF n
<1>4. Formed(e) /\ Same(c, e, {"retry"})
  BY <1>1, <1>3, CounterIs
<1> HIDE DEF e
<1>5. e.sel = c.sel /\ Cbs(e) = Cbs(c)
  BY <1>4 DEF Same, Cbs, Field
<1>6. CASE Exhausted(c, action)
  <2> DEFINE d == SelectNext(e)
  <2>1. /\ Formed(d) /\ Same(e, d, {"sel", "changed", "timers"})
        /\ Cbs(e) \subseteq Cbs(d) /\ (d.sel = e.sel \/ "dump" \in Cbs(d))
    BY <1>4, SelectNextIs
  <2> HIDE DEF d
  <2>2. Same(c, d, {"retry", "sel", "changed", "timers"})
    BY <1>4, <2>1 DEF Same
  <2>3. d = Retry(c, action)
    BY <1>2, <1>6 DEF d
  <2> QED
    BY <1>5, <1>6, <2>1, <2>2, <2>3
<1>7. CASE ~Exhausted(c, action)
  <2> DEFINE d == Later(e, action)
  <2>1. Formed(d) /\ Same(e, d, {"timers"}) /\ Cbs(d) = Cbs(e) \cup {action}
    BY <1>1, <1>4, LaterIs
  <2> HIDE DEF d
  <2>2. Same(c, d, {"retry", "sel", "changed", "timers"}) /\ d.sel = e.sel
    BY <1>4, <2>1 DEF Same, Field
  <2>3. d = Retry(c, action)
    BY <1>2, <1>7 DEF d
  <2> QED
    BY <1>5, <2>1, <2>2, <2>3
<1> QED
  BY <1>6, <1>7

LEMMA ReconnectIs ==
  ASSUME NEW c, Formed(c)
  PROVE  LET d == Reconnect(c)
         IN  /\ Formed(d) /\ Same(c, d, {"cps", "status", "timers"})
             /\ d.cps = "failed" /\ d.status = c.status \cup {"failure"}
             /\ Cbs(d) = Cbs(c) \cup {"reconnect"}
<1> DEFINE e == SetCps(c, "failed")
           f == Add(e, {"failure"})
           d == Soon(f, "reconnect")
<1>1. d = Reconnect(c)
  BY DEF Reconnect
<1>2. Formed(e) /\ Same(c, e, {"cps"}) /\ e.cps = "failed"
  BY SetCpsIs DEF Cps
<1> HIDE DEF e
<1>3. /\ Formed(f) /\ Same(e, f, {"status"})
      /\ f.status = e.status \cup {"failure"}
  BY <1>2, AddIs DEF Status
<1> HIDE DEF f
<1>4. Formed(d) /\ Same(f, d, {"timers"}) /\ Cbs(d) = Cbs(f) \cup {"reconnect"}
  BY <1>3, SoonIs DEF Timer, ManagerTimer
<1> HIDE DEF d
<1>5. /\ Same(c, d, {"cps", "status", "timers"})
      /\ d.cps = "failed" /\ d.status = c.status \cup {"failure"}
      /\ Cbs(f) = Cbs(c)
  BY <1>2, <1>3, <1>4 DEF Same, Cbs, Field
<1> QED
  BY <1>1, <1>4, <1>5

LEMMA GrantIs ==
  ASSUME NEW c, Formed(c), NEW token \in Issued, NEW bits \in SUBSET Status
  PROVE  LET d == Grant(c, token, bits)
         IN  /\ Formed(d)
             /\ Same(c, d, {"access", "status", "retry", "timers"})
             /\ d.access = token
             /\ c.status \cup bits \subseteq d.status
             /\ d.status \subseteq c.status \cup bits \cup {"expiry"}
             /\ Cbs(d) = Cbs(c) \cup {"dump"}
<1> DEFINE expiry == IF token = "expiring" THEN {"expiry"} ELSE {}
           d1 == [c EXCEPT !.access = token]
           d2 == Add(d1, bits \cup expiry)
           d3 == cloud_retry_reset(d2)
           d == Dump(d3)
<1>1. d = Grant(c, token, bits)
  BY DEF Grant
<1>2. expiry \subseteq {"expiry"} /\ bits \cup expiry \in SUBSET Status
  BY DEF Status
<1>3. Formed(d1) /\ Same(c, d1, {"access"}) /\ d1.access = token
  <2>1. token \in Token
    BY DEF Issued, Token
  <2> QED
    BY <2>1 DEF Formed, Context, Same, Field
<1> HIDE DEF d1, expiry
<1>4. /\ Formed(d2) /\ Same(d1, d2, {"status"})
      /\ d2.status = d1.status \cup (bits \cup expiry)
  BY <1>2, <1>3, AddIs
<1> HIDE DEF d2
<1>5. Formed(d3) /\ Same(d2, d3, {"retry"})
  BY <1>4, ResetIs
<1> HIDE DEF d3
<1>6. Formed(d) /\ Same(d3, d, {"timers"}) /\ Cbs(d) = Cbs(d3) \cup {"dump"}
  BY <1>5, DumpIs
<1> HIDE DEF d
<1>7. /\ Same(c, d, {"access", "status", "retry", "timers"})
      /\ d.access = token /\ Cbs(d3) = Cbs(c)
      /\ d.status = c.status \cup (bits \cup expiry)
  BY <1>3, <1>4, <1>5, <1>6 DEF Same, Cbs, Field
<1> QED
  BY <1>1, <1>2, <1>6, <1>7

-----------------------------------------------------------------------------
(* The context is cleared *)

LEMMA ReinitializeIs ==
  ASSUME NEW c, Formed(c)
  PROVE  LET d == Reinitialize(c)
         IN  /\ Formed(d)
             /\ Same(c, d, Knowledge \cup {"changed", "timers"})
             /\ d.status = {} /\ d.cps = "uninitialized" /\ d.access = "none"
             /\ Cbs(d) = Cbs(c) \cup {"dump"}
<1> DEFINE e == Unset(c, {"dump"})
           f == [e EXCEPT !.status = {}, !.cps = "uninitialized",
                          !.access = "none", !.refresh = FALSE,
                          !.sel = Default, !.num = 1]
           d == ServerChanged(f)
<1>1. d = Reinitialize(c)
  BY DEF Reinitialize
<1>2. Formed(e) /\ Same(c, e, {"timers"}) /\ Cbs(e) = Cbs(c) \ {"dump"}
  BY UnsetIs
<1> HIDE DEF e
<1>3. /\ Default \in Server /\ 1 \in 1..NumServers /\ {} \in SUBSET Status
      /\ "uninitialized" \in Cps /\ "none" \in Token
  BY ServersAssumption DEF Default, Server, Cps, Token
<1>4. /\ f \in Context /\ f.timers = e.timers /\ Same(e, f, Knowledge)
      /\ f.status = {} /\ f.cps = "uninitialized" /\ f.access = "none"
  BY <1>2, <1>3 DEF Formed, Context, Same, Field, Knowledge
<1>5. Formed(f) /\ Cbs(f) = Cbs(e)
  BY <1>2, <1>4 DEF Formed, Cbs
<1> HIDE DEF f
<1>6. /\ Formed(d) /\ Same(f, d, {"changed", "timers"})
      /\ Cbs(d) = Cbs(f) \cup {"dump"}
  BY <1>5, ServerChangedIs
<1> HIDE DEF d
<1>7. /\ Same(c, d, Knowledge \cup {"changed", "timers"})
      /\ d.status = {} /\ d.cps = "uninitialized" /\ d.access = "none"
  BY <1>2, <1>4, <1>6 DEF Same, Field, Knowledge
<1> QED
  BY <1>1, <1>2, <1>5, <1>6, <1>7

\* A context without registration is sound.
LEMMA ClearedIsGood ==
  ASSUME NEW d, NEW m, NEW st, Formed(d), Kept(d, m), ~Registered(d),
         d.cps # "deregistering", "dump" \in Cbs(d) \/ d.access = "none"
  PROVE  Good(d, m, st, {}, {})
  BY DEF Good, Base, Signs, Saved, Tries, Deregisters

LEMMA ReinitializeGood ==
  ASSUME NEW c, NEW m, NEW st, Formed(c), Kept(c, m)
  PROVE  Good(Reinitialize(c), m, st, {}, {})
<1> DEFINE d == Reinitialize(c)
<1>1. /\ Formed(d) /\ Same(c, d, Knowledge \cup {"changed", "timers"})
      /\ d.status = {} /\ d.cps = "uninitialized" /\ d.access = "none"
  BY ReinitializeIs
<1> HIDE DEF d
<1>2. d.manager = c.manager /\ d.hears = c.hears /\ ~Registered(d)
  BY <1>1 DEF Same, Field, Knowledge, Registered
<1>3. Kept(d, m)
  BY <1>2 DEF Kept
<1>4. Good(d, m, st, {}, {})
  BY <1>1, <1>2, <1>3, ClearedIsGood
<1> QED
  BY <1>4 DEF d

LEMMA ClosedBase ==
  ASSUME NEW c, NEW m, NEW st, NEW s \in Endpoint, NEW close, Closes(close),
         Base(c, m, st)
  PROVE  Base(close[c][s], m, st)
<1>1. c \in Context
  BY DEF Base, Formed
<1>2. Good(c, m, st, {"deregister"}, {})
  BY BaseIsGood DEF DeregisterRequest
<1>3. Good(close[c][s], m, st, {"deregister"}, {})
  BY <1>1, <1>2 DEF Closes
<1> QED
  BY <1>3 DEF Good

LEMMA ResetEndpointBase ==
  ASSUME NEW c, NEW m, NEW st, NEW close, Closes(close), Base(c, m, st)
  PROVE  Base(ResetEndpoint(c, close), m, st)
<1> DEFINE e == close[c][c.ep]
           d == [e EXCEPT !.ep = NoServer, !.up = FALSE]
<1>1. c.ep \in Endpoint
  BY DEF Base, Formed, Context
<1>2. Base(e, m, st)
  BY <1>1, ClosedBase
<1>3. d = ResetEndpoint(c, close)
  BY DEF ResetEndpoint
<1> HIDE DEF e
<1>4. /\ d \in Context /\ d.timers = e.timers /\ d.status = e.status
      /\ d.manager = e.manager /\ d.hears = e.hears /\ d.refresh = e.refresh
      /\ d.access = e.access /\ d.sel = e.sel /\ d.num = e.num
  BY <1>2 DEF Base, Formed, Context, Endpoint
<1> HIDE DEF d
<1>5. Base(d, m, st)
  BY <1>2, <1>4 DEF Base, Formed, Kept, Signs, Saved, Registered, Cbs
<1> QED
  BY <1>3, <1>5

LEMMA ClearGood ==
  ASSUME NEW c, NEW m, NEW st, NEW close, Closes(close), Base(c, m, st)
  PROVE  Good(cloud_context_clear(c, close), m, st, {}, {})
<1> DEFINE d1 == RegistrationDeinit(c)
           d2 == ResetEndpoint(d1, close)
           d3 == Unset(d2, ManagerTimer)
           d4 == Unset(d3, DeregisterTimer)
           d5 == Reinitialize(d4)
           d6 == Soon(d5, "dump")
<1>1. d6 = cloud_context_clear(c, close)
  BY DEF cloud_context_clear, cloud_manager_stop, oc_cloud_deregister_stop,
         Dump
<1>2. Base(d1, m, st)
  <2>1. Good(c, m, st, {"deregister"}, {})
    BY BaseIsGood DEF DeregisterRequest
  <2>2. Good(d1, m, st, {"deregister"}, {})
    BY <2>1, RegistrationGood
  <2> QED
    BY <2>2 DEF Good
<1> HIDE DEF d1
<1>3. Base(d2, m, st)
  BY <1>2, ResetEndpointBase
<1> HIDE DEF d2
<1>4. Base(d3, m, st)
  BY <1>3, UnsetBase DEF ManagerTimer
<1> HIDE DEF d3
<1>5. Base(d4, m, st)
  BY <1>4, UnsetBase DEF DeregisterTimer
<1> HIDE DEF d4
<1>6. Good(d5, m, st, {}, {})
  BY <1>5, ReinitializeGood DEF Base
<1> HIDE DEF d5
<1>7. Good(d6, m, st, {}, {})
  BY <1>6, SoonGood DEF Timer
<1> QED
  BY <1>1, <1>7

LEMMA ClearGoodFor ==
  ASSUME NEW c, NEW m, NEW st, NEW owed, NEW X, NEW close, Closes(close),
         Base(c, m, st)
  PROVE  Good(cloud_context_clear(c, close), m, st, owed, X)
<1>1. Good(cloud_context_clear(c, close), m, st, {}, {})
  BY ClearGood
<1>2. Good(cloud_context_clear(c, close), m, st, {} \cup owed, {} \cup X)
  BY <1>1, GoodMonotone
<1>3. {} \cup owed = owed /\ {} \cup X = X
  OBVIOUS
<1> QED
  BY <1>2, <1>3

-----------------------------------------------------------------------------
(* Requests *)

LEMMA SetEndpointGood ==
  ASSUME NEW c, NEW m, NEW st, NEW owed, NEW X, NEW resolved \in BOOLEAN,
         Good(c, m, st, owed, X)
  PROVE  LET d == SetEndpoint(c, resolved)
         IN  /\ Good(d, m, st, owed, X)
             /\ Same(c, d, {"ep"})
             /\ Cbs(d) = Cbs(c)
<1>1. CASE c.ep = NoServer /\ resolved
  <2> DEFINE d == [c EXCEPT !.ep = c.sel]
  <2>1. c \in Context /\ c.sel \in Endpoint
    BY DEF Good, Base, Formed, Context, Endpoint
  <2>2. /\ d \in Context /\ Same(c, d, {"ep"})
    BY <2>1 DEF Context, Same, Field
  <2>3. d = SetEndpoint(c, resolved)
    BY <1>1 DEF SetEndpoint
  <2> HIDE DEF d
  <2>4. /\ d.timers = c.timers /\ d.status = c.status /\ d.reqs = c.reqs
        /\ d.manager = c.manager /\ d.hears = c.hears /\ d.cps = c.cps
        /\ d.refresh = c.refresh /\ d.access = c.access /\ d.sel = c.sel
        /\ d.num = c.num
    BY <2>2 DEF Same, Field
  <2>5. Base(d, m, st)
    BY <2>2, <2>4 DEF Good, Base, Formed, Kept, Signs, Saved, Registered, Cbs
  <2>6. Kinds(d) = Kinds(c) /\ Cbs(d) = Cbs(c) /\ ~Excused(c, X)
    BY <1>1, <2>4 DEF Kinds, Cbs, Excused
  <2>7. Tries(d, owed, X)
    BY <2>4, <2>6 DEF Good, Tries, Registered, LoggedIn
  <2>8. Deregisters(d, owed)
    BY <2>4, <2>6 DEF Good, Deregisters
  <2> QED
    BY <2>2, <2>3, <2>5, <2>6, <2>7, <2>8 DEF Good
<1>2. CASE ~(c.ep = NoServer /\ resolved)
  <2>1. SetEndpoint(c, resolved) = c
    BY <1>2 DEF SetEndpoint
  <2> QED
    BY <2>1 DEF Same
<1> QED
  BY <1>1, <1>2

\* While a request will be added, a new session does not matter.
LEMMA AddPeerGood ==
  ASSUME NEW c0, NEW m, NEW st, NEW owed, NEW X, NEW close, Closes(close),
         Good(c0, m, st, owed, X), owed \cap Answered # {} \/ ~m.registered
  PROVE  Good(AddPeer(c0, close), m, st, owed, X)
<1> DEFINE c == IF c0.peer[c0.ep] = "handshake" THEN close[c0][c0.ep] ELSE c0
           d == [c EXCEPT !.peer[c.ep] = "handshake"]
<1>1. c0 \in Context /\ c0.ep \in Endpoint
  BY DEF Good, Base, Formed, Context
<1>2. Good(c, m, st, owed, X)
  BY <1>1 DEF Closes
<1>3. AddPeer(c0, close) =
        IF c.ep # NoServer /\ c.peer[c.ep] = "none" THEN d ELSE c
  BY DEF AddPeer
<1> HIDE DEF c
<1>4. CASE c.ep # NoServer /\ c.peer[c.ep] = "none"
  <2> DEFINE peer == [c.peer EXCEPT ![c.ep] = "handshake"]
  <2>1. /\ c \in Context /\ c.ep \in Server /\ c.peer \in [Server -> Session]
        /\ "handshake" \in Session
    BY <1>2, <1>4 DEF Good, Base, Formed, Context, Endpoint, Session
  <2>2. peer \in [Server -> Session]
    BY <2>1
  <2>3. d = [c EXCEPT !.peer = peer]
    OBVIOUS
  <2> HIDE DEF peer
  <2>4. [c EXCEPT !.peer = peer] \in Context /\ Same(c, [c EXCEPT !.peer = peer], {"peer"})
    BY <2>1, <2>2 DEF Context, Same, Field
  <2>5. d \in Context /\ Same(c, d, {"peer"})
    BY <2>3, <2>4
  <2> HIDE DEF d
  <2>6. /\ d.timers = c.timers /\ d.status = c.status /\ d.reqs = c.reqs
        /\ d.manager = c.manager /\ d.hears = c.hears /\ d.cps = c.cps
        /\ d.refresh = c.refresh /\ d.access = c.access /\ d.sel = c.sel
        /\ d.num = c.num
    BY <2>5 DEF Same, Field
  <2>7. Base(d, m, st)
    BY <1>2, <2>5, <2>6
    DEF Good, Base, Formed, Kept, Signs, Saved, Registered, Cbs
  <2>8. Kinds(d) = Kinds(c) /\ Cbs(d) = Cbs(c)
    BY <2>6 DEF Kinds, Cbs
  <2>9. Tries(d, owed, X)
    BY <2>7 DEF Base, Kept, Tries
  <2>10. Deregisters(d, owed)
    BY <1>2, <2>6, <2>8 DEF Good, Deregisters
  <2> QED
    BY <1>3, <1>4, <2>7, <2>9, <2>10 DEF Good
<1>5. CASE ~(c.ep # NoServer /\ c.peer[c.ep] = "none")
  BY <1>2, <1>3, <1>5
<1> QED
  BY <1>4, <1>5

Kind == ManagerRequest \cup DeregisterRequest

LEMMA AddRequestIs ==
  ASSUME NEW c, Formed(c), NEW kind \in Kind
  PROVE  LET d == AddRequest(c, kind)
         IN  /\ Formed(d) /\ Same(c, d, {"reqs"}) /\ Cbs(d) = Cbs(c)
             /\ Kinds(d) = Kinds(c) \cup {kind}
<1> DEFINE r == [kind |-> kind, server |-> c.ep]
           reqs == Append(c.reqs, r)
           d == [c EXCEPT !.reqs = reqs]
<1>1. d = AddRequest(c, kind)
  BY DEF AddRequest
<1>2. /\ c \in Context /\ c.ep \in Endpoint
      /\ c.reqs \in Seq(RequestsOf(Endpoint))
  BY DEF Formed, Context
<1>3. r \in RequestsOf(Endpoint) /\ r.kind = kind
  BY <1>2 DEF RequestsOf, Kind
<1> HIDE DEF r
<1>4. /\ reqs \in Seq(RequestsOf(Endpoint))
      /\ Len(reqs) = Len(c.reqs) + 1 /\ Len(c.reqs) \in Nat
      /\ \A i \in 1..Len(c.reqs) : reqs[i] = c.reqs[i]
      /\ reqs[Len(c.reqs) + 1] = r
  BY <1>2, <1>3
<1> HIDE DEF reqs
<1>5. d \in Context /\ Same(c, d, {"reqs"}) /\ d.reqs = reqs
  BY <1>2, <1>4 DEF Context, Same, Field
<1> HIDE DEF d
<1>6. d.timers = c.timers
  BY <1>5 DEF Same, Field
<1>7. \A i \in 1..Len(reqs) : i \in 1..Len(c.reqs) \/ i = Len(c.reqs) + 1
  BY <1>4
<1>8. \A i \in 1..Len(c.reqs) : i \in 1..Len(reqs)
  BY <1>4
<1>9. Len(c.reqs) + 1 \in 1..Len(reqs)
  BY <1>4
<1>10. Kinds(d) = Kinds(c) \cup {kind}
  BY <1>3, <1>4, <1>5, <1>7, <1>8, <1>9 DEF Kinds
<1> QED
  BY <1>1, <1>5, <1>6, <1>10 DEF Formed, Cbs

\* The request that was owed is in the list.
LEMMA AddRequestGood ==
  ASSUME NEW c, NEW m, NEW st, NEW owed, NEW X, NEW kind \in Kind,
         Good(c, m, st, owed \cup {kind}, X)
  PROVE  Good(AddRequest(c, kind), m, st, owed, X)
<1> DEFINE d == AddRequest(c, kind)
<1>1. /\ Formed(d) /\ Same(c, d, {"reqs"}) /\ Cbs(d) = Cbs(c)
      /\ Kinds(d) = Kinds(c) \cup {kind}
  BY AddRequestIs DEF Good, Base
<1> HIDE DEF d
<1>2. /\ d.timers = c.timers /\ d.status = c.status /\ d.up = c.up
      /\ d.manager = c.manager /\ d.hears = c.hears /\ d.cps = c.cps
      /\ d.refresh = c.refresh /\ d.access = c.access /\ d.sel = c.sel
      /\ d.num = c.num /\ d.ep = c.ep /\ d.peer = c.peer
  BY <1>1 DEF Same, Field
<1>3. Base(d, m, st)
  BY <1>1, <1>2 DEF Good, Base, Kept, Signs, Saved, Registered
<1>4. Kinds(d) \cup owed = Kinds(c) \cup (owed \cup {kind})
  BY <1>1
<1>5. Excused(d, X) <=> Excused(c, X)
  BY <1>2 DEF Excused
<1>6. Tries(d, owed, X)
  BY <1>1, <1>2, <1>4, <1>5 DEF Good, Tries, Registered, LoggedIn
<1>7. Deregisters(d, owed)
  BY <1>1, <1>2, <1>4 DEF Good, Deregisters
<1>8. Good(d, m, st, owed, X)
  BY <1>3, <1>6, <1>7 DEF Good
<1> QED
  BY <1>8 DEF d

LEMMA SendGood ==
  ASSUME NEW c, NEW m, NEW st, NEW owed, NEW X, NEW close, Closes(close),
         NEW kind \in Kind, Good(c, m, st, owed \cup {kind}, X),
         kind \in Answered \/ ~m.registered
  PROVE  Good(Send(c, kind, close), m, st, owed, X)
<1>1. (owed \cup {kind}) \cap Answered # {} \/ ~m.registered
  OBVIOUS
<1>2. Good(AddPeer(c, close), m, st, owed \cup {kind}, X)
  BY <1>1, AddPeerGood
<1>3. Good(AddRequest(AddPeer(c, close), kind), m, st, owed, X)
  BY <1>2, AddRequestGood
<1> QED
  BY <1>3 DEF Send

LEMMA SendOrClearGood ==
  ASSUME NEW c0, NEW m, NEW st, NEW owed, NEW X, NEW close, Closes(close),
         NEW kind \in DeregisterRequest, Base(c0, m, st)
  PROVE  Good(SendOrClear(c0, kind, close), m, st, owed, X)
<1> DEFINE c == SetEndpoint(c0, TRUE)
<1>1. Good(c0, m, st, owed \cup {kind}, X)
  BY BaseIsGood
<1>2. Good(c, m, st, owed \cup {kind}, X)
  BY <1>1, SetEndpointGood
<1>3. SendOrClear(c0, kind, close) =
        IF CanSend(c, kind) THEN Send(c, kind, close)
        ELSE cloud_context_clear(c, close)
  BY DEF SendOrClear
<1> HIDE DEF c
<1>4. kind \in Kind /\ kind \in Answered
  BY DEF Kind, Answered, DeregisterRequest, ManagerRequest
<1>5. Good(Send(c, kind, close), m, st, owed, X)
  BY <1>2, <1>4, SendGood
<1>6. Good(cloud_context_clear(c, close), m, st, owed, X)
  BY <1>2, ClearGoodFor DEF Good
<1> QED
  BY <1>3, <1>5, <1>6

LEMMA ByRequestGood ==
  ASSUME NEW c, NEW m, NEW st, NEW owed, NEW X, NEW close, Closes(close),
         Base(c, m, st)
  PROVE  Good(ByRequest(c, close), m, st, owed, X)
  BY SendOrClearGood DEF ByRequest, DeregisterRequest

-----------------------------------------------------------------------------
(* What the cloud grants and refuses *)

\* The status loses what only informs the application.
LEMMA DropGood ==
  ASSUME NEW c, NEW m, NEW st, NEW owed, NEW X, NEW bits,
         Good(c, m, st, owed, X),
         "registered" \notin bits, "logged_in" \notin bits
  PROVE  Good(Drop(c, bits), m, st, owed, X)
<1> DEFINE d == Drop(c, bits)
<1>1. Formed(d) /\ Same(c, d, {"status"}) /\ d.status = c.status \ bits
  BY DropIs DEF Good, Base
<1> HIDE DEF d
<1>2. /\ d.timers = c.timers /\ d.access = c.access /\ d.refresh = c.refresh
      /\ d.sel = c.sel /\ d.num = c.num /\ d.cps = c.cps
  BY <1>1 DEF Same, Field
<1>3. /\ Registered(d) <=> Registered(c)
      /\ LoggedIn(d) <=> LoggedIn(c)
  BY <1>1 DEF Registered, LoggedIn
<1>4. Signs(d) /\ Saved(d, st) /\ (Registered(d) => m.registered)
  BY <1>2, <1>3 DEF Good, Base, Kept, Signs, Saved, Cbs
<1>5. Same(c, d, Bookkeeping \cup Knowledge) /\ Cbs(d) = Cbs(c)
  BY <1>1, <1>2 DEF Same, Knowledge, Cbs
<1>6. Good(d, m, st, owed, X)
  BY <1>1, <1>2, <1>3, <1>4, <1>5, GoodUpdates
<1> QED
  BY <1>6 DEF d

LEMMA SetCpsGood ==
  ASSUME NEW c, NEW m, NEW st, NEW owed, NEW X, NEW cps \in Cps,
         Good(c, m, st, owed, X),
         cps = "deregistering" => c.cps = "deregistering"
  PROVE  Good(SetCps(c, cps), m, st, owed, X)
<1> DEFINE d == SetCps(c, cps)
<1>1. Formed(d) /\ Same(c, d, {"cps"}) /\ d.cps = cps
  BY SetCpsIs DEF Good, Base
<1> HIDE DEF d
<1>2. /\ d.timers = c.timers /\ d.access = c.access /\ d.refresh = c.refresh
      /\ d.sel = c.sel /\ d.num = c.num /\ d.status = c.status
  BY <1>1 DEF Same, Field
<1>3. Signs(d) /\ Saved(d, st) /\ (Registered(d) => m.registered)
  BY <1>2 DEF Good, Base, Kept, Signs, Saved, Cbs, Registered
<1>4. /\ Same(c, d, Bookkeeping \cup Knowledge) /\ Cbs(d) = Cbs(c)
      /\ (Registered(d) <=> Registered(c)) /\ (LoggedIn(d) <=> LoggedIn(c))
  BY <1>1, <1>2 DEF Same, Knowledge, Cbs, Registered, LoggedIn
<1>5. Good(d, m, st, owed, X)
  BY <1>1, <1>3, <1>4, GoodUpdates
<1> QED
  BY <1>5 DEF d

LEMMA SetCpsBase ==
  ASSUME NEW c, NEW m, NEW st, NEW cps \in Cps, Base(c, m, st)
  PROVE  Base(SetCps(c, cps), m, st)
<1> DEFINE d == SetCps(c, cps)
<1>1. Formed(d) /\ Same(c, d, {"cps"}) /\ d.cps = cps
  BY SetCpsIs DEF Base
<1> HIDE DEF d
<1>2. /\ d.timers = c.timers /\ d.access = c.access /\ d.refresh = c.refresh
      /\ d.sel = c.sel /\ d.num = c.num /\ d.status = c.status
      /\ d.manager = c.manager /\ d.hears = c.hears
  BY <1>1 DEF Same, Field
<1>3. Base(d, m, st)
  BY <1>1, <1>2 DEF Base, Kept, Signs, Saved, Cbs, Registered
<1> QED
  BY <1>3 DEF d

\* A failure is noted.
LEMMA FailureGood ==
  ASSUME NEW c, NEW m, NEW st, NEW owed, NEW X, Good(c, m, st, owed, X)
  PROVE  LET d == Add(c, {"failure"})
         IN  /\ Good(d, m, st, owed, X)
             /\ Same(c, d, {"status"}) /\ Cbs(d) = Cbs(c)
             /\ d.status = c.status \cup {"failure"}
             /\ (Registered(d) <=> Registered(c))
             /\ (LoggedIn(d) <=> LoggedIn(c))
<1> DEFINE d == Add(c, {"failure"})
<1>1. /\ Formed(d) /\ Same(c, d, {"status"})
      /\ d.status = c.status \cup {"failure"}
  BY AddIs DEF Good, Base, Status
<1> HIDE DEF d
<1>2. /\ d.timers = c.timers /\ d.access = c.access /\ d.refresh = c.refresh
      /\ d.sel = c.sel /\ d.num = c.num /\ d.cps = c.cps
  BY <1>1 DEF Same, Field
<1>3. /\ Registered(d) <=> Registered(c)
      /\ LoggedIn(d) <=> LoggedIn(c)
  BY <1>1 DEF Registered, LoggedIn
<1>4. Signs(d) /\ Saved(d, st) /\ (Registered(d) => m.registered)
  BY <1>2, <1>3 DEF Good, Base, Kept, Signs, Saved, Cbs
<1>5. Same(c, d, Bookkeeping \cup Knowledge) /\ Cbs(d) = Cbs(c)
  BY <1>1, <1>2 DEF Same, Knowledge, Cbs
<1>6. Good(d, m, st, owed, X)
  BY <1>1, <1>2, <1>3, <1>4, <1>5, GoodUpdates
<1> QED
  BY <1>1, <1>3, <1>5, <1>6 DEF d

LEMMA RetryGood ==
  ASSUME NEW c, NEW m, NEW st, NEW owed, NEW X, NEW action \in Action,
         Good(c, m, st, owed, X)
  PROVE  LET d == Retry(c, action)
         IN  /\ Good(d, m, st, owed, X)
             /\ Same(c, d, {"retry", "sel", "changed", "timers"})
             /\ Exhausted(c, action) \/ action \in Cbs(d)
             /\ (Registered(d) <=> Registered(c))
             /\ (LoggedIn(d) <=> LoggedIn(c))
<1> DEFINE d == Retry(c, action)
<1>1. /\ Formed(d) /\ Same(c, d, {"retry", "sel", "changed", "timers"})
      /\ Cbs(c) \subseteq Cbs(d) /\ (d.sel = c.sel \/ "dump" \in Cbs(d))
      /\ Exhausted(c, action) \/ action \in Cbs(d)
  BY RetryIs DEF Good, Base
<1> HIDE DEF d
<1>2. /\ d.access = c.access /\ d.refresh = c.refresh /\ d.num = c.num
      /\ d.cps = c.cps /\ d.status = c.status
  BY <1>1 DEF Same, Field
<1>3. /\ Registered(d) <=> Registered(c)
      /\ LoggedIn(d) <=> LoggedIn(c)
  BY <1>2 DEF Registered, LoggedIn
<1>4. Signs(d) /\ Saved(d, st) /\ (Registered(d) => m.registered)
  BY <1>1, <1>2, <1>3 DEF Good, Base, Kept, Signs, Saved
<1>5. Same(c, d, Bookkeeping \cup Knowledge)
  BY <1>1 DEF Same, Knowledge, Bookkeeping
<1>6. Good(d, m, st, owed, X)
  BY <1>1, <1>2, <1>3, <1>4, <1>5, GoodUpdates
<1> QED
  BY <1>1, <1>3, <1>6 DEF d

LEMMA ReconnectGood ==
  ASSUME NEW c, NEW m, NEW st, NEW owed, NEW X, Good(c, m, st, owed, X)
  PROVE  LET d == Reconnect(c)
         IN  Good(d, m, st, owed, X) /\ Cbs(d) \cap Step # {}
<1> DEFINE d == Reconnect(c)
<1>1. /\ Formed(d) /\ Same(c, d, {"cps", "status", "timers"})
      /\ d.cps = "failed" /\ d.status = c.status \cup {"failure"}
      /\ Cbs(d) = Cbs(c) \cup {"reconnect"}
  BY ReconnectIs DEF Good, Base
<1> HIDE DEF d
<1>2. /\ d.access = c.access /\ d.refresh = c.refresh /\ d.sel = c.sel
      /\ d.num = c.num
  BY <1>1 DEF Same, Field
<1>3. /\ Registered(d) <=> Registered(c)
      /\ LoggedIn(d) <=> LoggedIn(c)
  BY <1>1 DEF Registered, LoggedIn
<1>4. Signs(d) /\ Saved(d, st) /\ (Registered(d) => m.registered)
  BY <1>1, <1>2, <1>3 DEF Good, Base, Kept, Signs, Saved
<1>5. Same(c, d, Bookkeeping \cup Knowledge) /\ Cbs(c) \subseteq Cbs(d)
  BY <1>1 DEF Same, Knowledge, Bookkeeping
<1>6. Good(d, m, st, owed, X)
  BY <1>1, <1>3, <1>4, <1>5, GoodUpdates
<1>7. "reconnect" \in Step
  BY DEF Step, Timer, ManagerTimer
<1> QED
  BY <1>1, <1>6, <1>7 DEF d

LEMMA FirstGood ==
  ASSUME NEW c, NEW m, NEW st, NEW owed, NEW X, NEW action \in Action,
         Good(c, m, st, owed, X)
  PROVE  LET d == First(c, action)
         IN  /\ Good(d, m, st, owed, X) /\ Same(c, d, {"retry", "timers"})
             /\ Cbs(d) = Cbs(c) \cup {action}
<1> DEFINE d == First(c, action)
<1>1. /\ Formed(d) /\ Same(c, d, {"retry", "timers"})
      /\ Cbs(d) = Cbs(c) \cup {action}
  BY FirstIs DEF Good, Base
<1> HIDE DEF d
<1>2. Same(c, d, Bookkeeping) /\ Cbs(c) \subseteq Cbs(d)
  BY <1>1 DEF Same, Bookkeeping
<1>3. Good(d, m, st, owed, X)
  BY <1>1, <1>2, GoodGrows
<1> QED
  BY <1>1, <1>3 DEF d

LEMMA GrantGood ==
  ASSUME NEW c, NEW m, NEW st, NEW owed, NEW X, NEW token \in Issued,
         NEW bits \in SUBSET Status, Good(c, m, st, owed, X), Registered(c)
  PROVE  LET d == Grant(c, token, bits)
         IN  /\ Good(d, m, st, owed, X)
             /\ Same(c, d, {"access", "status", "retry", "timers"})
             /\ c.status \cup bits \subseteq d.status
             /\ Registered(d) /\ "dump" \in Cbs(d)
<1> DEFINE d == Grant(c, token, bits)
<1>1. /\ Formed(d) /\ Same(c, d, {"access", "status", "retry", "timers"})
      /\ c.status \cup bits \subseteq d.status
      /\ Cbs(d) = Cbs(c) \cup {"dump"}
  BY GrantIs DEF Good, Base
<1> HIDE DEF d
<1>2. d.refresh = c.refresh /\ d.cps = c.cps
  BY <1>1 DEF Same, Field
<1>3. Registered(d) /\ (LoggedIn(c) => LoggedIn(d))
  BY <1>1 DEF Registered, LoggedIn
<1>4. Signs(d) /\ Saved(d, st) /\ m.registered
  BY <1>1, <1>2, <1>3 DEF Good, Base, Kept, Signs, Saved
<1>5. Same(c, d, Bookkeeping \cup Knowledge) /\ Cbs(c) \subseteq Cbs(d)
  BY <1>1 DEF Same, Knowledge, Bookkeeping
<1>6. Good(d, m, st, owed, X)
  BY <1>1, <1>2, <1>3, <1>4, <1>5, GoodUpdates
<1> QED
  BY <1>1, <1>3, <1>6 DEF d

\* While the store is about to be dumped, the tokens may change.
LEMMA TokensGood ==
  ASSUME NEW c, NEW d, NEW m, NEW st, NEW owed, NEW X, Good(c, m, st, owed, X),
         Formed(d), Same(c, d, {"access", "refresh"}),
         c.refresh => d.refresh, "dump" \in Cbs(c) \/ d.access = "none"
  PROVE  Good(d, m, st, owed, X) /\ Cbs(d) = Cbs(c)
<1>1. d.status = c.status /\ d.cps = c.cps /\ d.timers = c.timers
  BY DEF Same, Field
<1>2. /\ (Registered(d) <=> Registered(c)) /\ (LoggedIn(d) <=> LoggedIn(c))
      /\ Cbs(d) = Cbs(c)
  BY <1>1 DEF Registered, LoggedIn, Cbs
<1>3. Signs(d) /\ Saved(d, st) /\ (Registered(d) => m.registered)
  BY <1>1, <1>2 DEF Good, Base, Kept, Signs, Saved
<1>4. Same(c, d, Bookkeeping \cup Knowledge)
  BY DEF Same, Knowledge, Bookkeeping
<1>5. Good(d, m, st, owed, X)
  BY <1>1, <1>2, <1>3, <1>4, GoodUpdates
<1> QED
  BY <1>2, <1>5

LEMMA LoggedInByGood ==
  ASSUME NEW c, NEW m, NEW st, NEW owed, NEW X, NEW token \in Issued,
         Good(c, m, st, owed, X), Registered(c)
  PROVE  LET d == LoggedInBy(c, token)
         IN  Good(d, m, st, owed, X) /\ LoggedIn(d)
<1> DEFINE access == IF c.access = "none" THEN "none" ELSE token
           e == Grant(c, token, {"logged_in"})
           f == [e EXCEPT !.access = access]
           d == SetCps(f, LoginCps(c))
<1>1. d = LoggedInBy(c, token)
  BY DEF LoggedInBy
<1>2. /\ Good(e, m, st, owed, X)
      /\ Same(c, e, {"access", "status", "retry", "timers"})
      /\ c.status \cup {"logged_in"} \subseteq e.status
      /\ Registered(e) /\ "dump" \in Cbs(e)
  BY GrantGood DEF Status
<1> HIDE DEF e
<1>3. access \in Token /\ Formed(e)
  BY <1>2 DEF Token, Issued, Good, Base
<1> HIDE DEF access
<1>4. Formed(f) /\ Same(e, f, {"access"})
  BY <1>3, PutKnowledge
<1> HIDE DEF f
<1>5. Same(e, f, {"access", "refresh"}) /\ (e.refresh => f.refresh)
  BY <1>4 DEF Same, Field
<1>6. Good(f, m, st, owed, X)
  BY <1>2, <1>4, <1>5, TokensGood
<1>7. f.cps = c.cps /\ f.status = e.status
  BY <1>2, <1>4 DEF Same, Field
<1>8. /\ LoginCps(c) \in Cps
      /\ LoginCps(c) = "deregistering" => f.cps = "deregistering"
  BY <1>7 DEF LoginCps, Cps
<1>9. Good(d, m, st, owed, X)
  BY <1>6, <1>8, SetCpsGood
<1>10. Same(f, d, {"cps"})
  BY <1>4, <1>8, SetCpsIs
<1> HIDE DEF d
<1>11. LoggedIn(d)
  BY <1>2, <1>7, <1>10 DEF LoggedIn, Same, Field
<1> QED
  BY <1>1, <1>9, <1>11

LEMMA RefreshedByGood ==
  ASSUME NEW c, NEW m, NEW st, NEW owed, NEW X, NEW token \in Issued,
         Good(c, m, st, owed, X), Registered(c)
  PROVE  LET d == RefreshedBy(c, token)
         IN  /\ Good(d, m, st, owed, X) /\ "refreshed" \in d.status
             /\ Registered(d)
<1> DEFINE e == [c EXCEPT !.refresh = TRUE]
           d == Grant(e, token, {"refreshed"})
<1>1. d = RefreshedBy(c, token)
  BY DEF RefreshedBy
<1>2. c.refresh /\ c \in Context
  BY DEF Good, Base, Signs, Formed
<1>3. e = c
  BY <1>2 DEF Context
<1>4. /\ Good(d, m, st, owed, X) /\ Registered(d)
      /\ c.status \cup {"refreshed"} \subseteq d.status
  BY <1>3, GrantGood DEF Status
<1> QED
  BY <1>1, <1>4

LEMMA RefreshFailedGood ==
  ASSUME NEW c, NEW m, NEW st, NEW owed, NEW X, NEW code,
         Good(c, m, st, owed, X), owed \cap Answered # {}
  PROVE  LET d == RefreshFailed(c, code)
         IN  /\ Good(d, m, st, owed, X)
             /\ Registered(d) => Registered(c)
             /\ Registered(d) => code \in NoConnection \cup {"unauthorized"}
<1> DEFINE e == Add(c, {"failure"})
           out == Drop(e, {"logged_in"})
           gone == Drop(e, {"logged_in", "registered"})
           d == RefreshFailed(c, code)
<1>1. /\ Good(e, m, st, owed, X) /\ Same(c, e, {"status"})
      /\ Registered(e) <=> Registered(c)
  BY FailureGood
<1>2. d = CASE code = "unauthorized" -> SetCps(e, "failed")
            [] code \in NoConnection -> out
            [] OTHER -> SetCps(gone, "failed")
  BY DEF RefreshFailed
<1> HIDE DEF e
<1>3. ASSUME NEW f, Formed(f), Same(e, f, {"status"}), f.status \subseteq e.status
      PROVE  Good(f, m, st, owed, X)
  <2>1. /\ f.timers = e.timers /\ f.access = e.access /\ f.refresh = e.refresh
        /\ f.sel = e.sel /\ f.num = e.num /\ f.cps = e.cps
    BY <1>3 DEF Same, Field
  <2>2. Registered(f) => Registered(e)
    BY <1>3 DEF Registered
  <2>3. Signs(f) /\ Saved(f, st) /\ (Registered(f) => m.registered)
    BY <1>1, <2>1, <2>2 DEF Good, Base, Kept, Signs, Saved, Cbs
  <2>4. Same(e, f, Bookkeeping \cup Knowledge) /\ Cbs(f) = Cbs(e)
    BY <1>3, <2>1 DEF Same, Knowledge, Cbs
  <2> QED
    BY <1>1, <1>3, <2>1, <2>3, <2>4, GoodUpdates
<1>4. /\ Formed(out) /\ Same(e, out, {"status"})
      /\ out.status = e.status \ {"logged_in"}
  BY <1>1, DropIs DEF Good, Base
<1>5. /\ Formed(gone) /\ Same(e, gone, {"status"})
      /\ gone.status = e.status \ {"logged_in", "registered"}
  BY <1>1, DropIs DEF Good, Base
<1> HIDE DEF out, gone
<1>6. Good(out, m, st, owed, X) /\ Good(gone, m, st, owed, X)
  BY <1>3, <1>4, <1>5
<1>7. /\ Good(SetCps(gone, "failed"), m, st, owed, X)
      /\ Good(SetCps(e, "failed"), m, st, owed, X)
  BY <1>1, <1>6, SetCpsGood DEF Cps
<1>8. /\ Same(gone, SetCps(gone, "failed"), {"cps"})
      /\ Same(e, SetCps(e, "failed"), {"cps"})
  BY <1>1, <1>5, SetCpsIs DEF Cps, Good, Base
<1>9. /\ Registered(out) => Registered(c)
      /\ ~Registered(SetCps(gone, "failed"))
      /\ Registered(SetCps(e, "failed")) => Registered(c)
  BY <1>1, <1>4, <1>5, <1>8 DEF Registered, Same, Field
<1> HIDE DEF d
<1>10. CASE code = "unauthorized"
  <2>1. d = SetCps(e, "failed")
    BY <1>2, <1>10 DEF NoConnection, ConnectionError
  <2> QED
    BY <1>7, <1>9, <1>10, <2>1 DEF d
<1>11. CASE code # "unauthorized" /\ code \in NoConnection
  <2>1. d = out
    BY <1>2, <1>11
  <2> QED
    BY <1>6, <1>9, <1>11, <2>1 DEF d
<1>12. CASE code # "unauthorized" /\ code \notin NoConnection
  <2>1. d = SetCps(gone, "failed")
    BY <1>2, <1>12
  <2> QED
    BY <1>7, <1>9, <2>1 DEF d
<1> QED
  BY <1>10, <1>11, <1>12

-----------------------------------------------------------------------------
(* Handlers: each takes over what was owed with its request. *)

LEMMA RegisteredGood ==
  ASSUME NEW c, NEW m, NEW st, NEW owed, NEW X, NEW token \in Issued,
         Good(c, m, st, owed, X), m.registered
  PROVE  LET d == Grant([c EXCEPT !.refresh = TRUE], token, {"registered"})
         IN  Good(SetCps(Soon(First(d, "login"), "callback"), "registered"),
                  m, st, owed, X)
<1> DEFINE refresh == TRUE
           d1 == [c EXCEPT !.refresh = refresh]
           d2 == Grant(d1, token, {"registered"})
           d3 == First(d2, "login")
           d4 == Soon(d3, "callback")
           d == SetCps(d4, "registered")
<1>1. Formed(c) /\ refresh \in BOOLEAN /\ c.access \in Token
  BY DEF Good, Base, Formed, Context
<1> HIDE DEF refresh
<1>2. Formed(d1) /\ Same(c, d1, {"refresh"}) /\ d1.refresh = refresh
  BY <1>1, PutKnowledge
<1> HIDE DEF d1
<1>3. /\ Formed(d2) /\ Same(d1, d2, {"access", "status", "retry", "timers"})
      /\ Cbs(d2) = Cbs(d1) \cup {"dump"}
  BY <1>2, GrantIs DEF Status
<1> HIDE DEF d2
<1>4. /\ Formed(d3) /\ Same(d2, d3, {"retry", "timers"})
      /\ Cbs(d3) = Cbs(d2) \cup {"login"}
  BY <1>3, FirstIs DEF Action
<1> HIDE DEF d3
<1>5. /\ Formed(d4) /\ Same(d3, d4, {"timers"})
      /\ Cbs(d4) = Cbs(d3) \cup {"callback"}
  BY <1>4, SoonIs DEF Timer, ManagerTimer
<1> HIDE DEF d4
<1>6. Formed(d) /\ Same(d4, d, {"cps"}) /\ d.cps = "registered"
  BY <1>5, SetCpsIs DEF Cps
<1> HIDE DEF d
<1>7. d.refresh /\ Cbs(d1) = Cbs(c) /\ Cbs(d) = Cbs(d4)
  BY <1>2, <1>3, <1>4, <1>5, <1>6 DEF Same, Field, Cbs, refresh
<1>8. Same(c, d, Bookkeeping \cup Knowledge)
  BY <1>2, <1>3, <1>4, <1>5, <1>6 DEF Same, Bookkeeping, Knowledge
<1>9. Cbs(c) \subseteq Cbs(d) /\ "dump" \in Cbs(d) /\ "login" \in Cbs(d)
  BY <1>3, <1>4, <1>5, <1>7
<1>10. Signs(d) /\ Saved(d, st) /\ Cbs(d) \cap Step # {}
  <2>1. Signs(d) /\ Saved(d, st)
    BY <1>7, <1>9, Zenon DEF Signs, Saved
  <2>2. "login" \in Step
    BY DEF Step, Timer, ManagerTimer
  <2> QED
    BY <1>9, <2>1, <2>2
<1>11. Good(d, m, st, owed, X)
  BY <1>6, <1>8, <1>9, <1>10, GoodUpdates
<1> QED
  BY <1>11 DEF d, d4, d3, d2, d1, refresh

LEMMA RegisterOtherwiseGood ==
  ASSUME NEW d, NEW m, NEW st, NEW owed, NEW X, Good(d, m, st, owed, X)
  PROVE  /\ d.left > 0 =>
              Good(SetCps(Soon([d EXCEPT !.left = @ - 1, !.changed = FALSE],
                               "reconnect"), "registering"), m, st, owed, X)
         /\ Good(SetCps(d, "failed"), m, st, owed, X)
         /\ Good(SetCps(d, "registering"), m, st, owed, X)
<1>1. ASSUME d.left > 0
      PROVE  Good(SetCps(Soon([d EXCEPT !.left = @ - 1, !.changed = FALSE],
                              "reconnect"), "registering"), m, st, owed, X)
  <2> DEFINE left == d.left - 1
             changed == FALSE
             retry == [conn |-> 0, token |-> 0]
             e == [d EXCEPT !.left = left, !.changed = changed]
  <2>1. Formed(d) /\ d.left \in 0..NumServers - 1 /\ NumServers \in Nat
    BY ServersAssumption DEF Good, Base, Formed, Context
  <2>2. left \in 0..NumServers - 1 /\ changed \in BOOLEAN
    BY <1>1, <2>1
  <2>3. e = [d EXCEPT !.left = @ - 1, !.changed = FALSE]
    OBVIOUS
  <2>4. retry \in [conn : Nat, token : Nat]
    OBVIOUS
  <2> HIDE DEF left, changed, retry
  <2>5. Formed(e) /\ Same(d, e, {"left", "changed"})
    BY <2>1, <2>2, <2>4, PutBookkeeping
  <2> HIDE DEF e
  <2>6. Same(d, e, Bookkeeping \ {"timers"})
    BY <2>5 DEF Same, Bookkeeping
  <2>7. Good(e, m, st, owed, X)
    BY <2>5, <2>6, CountersGood
  <2>8. Good(Soon(e, "reconnect"), m, st, owed, X)
    BY <2>7, SoonGood DEF Timer, ManagerTimer
  <2>9. Good(SetCps(Soon(e, "reconnect"), "registering"), m, st, owed, X)
    BY <2>8, SetCpsGood DEF Cps
  <2> QED
    BY <2>3, <2>9
<1> QED
  BY <1>1, SetCpsGood DEF Cps

LEMMA RegisterGood ==
  ASSUME NEW c0, NEW m, NEW st, NEW owed, NEW X, NEW code, NEW token,
         code = "ok" => token \in Issued /\ m.registered,
         Good(c0, m, st, owed \cup {"register"}, X)
  PROVE  Good(cloud_manager_register_handler(c0, code, token),
              m, st, owed, X)
<1> DEFINE c == Unset(c0, {"register"})
           f == Add(c, {"failure"})
           failed == Soon(f, "callback")
           d == Retry(failed, "register")
           granted == Grant([c EXCEPT !.refresh = TRUE], token, {"registered"})
           ok == SetCps(Soon(First(granted, "login"), "callback"), "registered")
           next == SetCps(Soon([d EXCEPT !.left = @ - 1, !.changed = FALSE],
                               "reconnect"), "registering")
           e == cloud_manager_register_handler(c0, code, token)
<1>1. Good(c0, m, st, owed, X)
  BY Discharge DEF Answered, DeregisterRequest
<1>2. Good(c, m, st, owed, X)
  <2>1. {"register"} \cap Step = {}
    BY DEF Step
  <2> QED
    BY <1>1, <2>1, UnsetGood
<1>3. e = CASE code = "ok" /\ c.status = {} -> ok
            [] code \in NoConnection /\ c.status \ {"failure"} = {} ->
                 IF Exhausted(failed, "register")
                 THEN IF d.left > 0 /\ d.changed THEN next
                      ELSE SetCps(d, "failed")
                 ELSE SetCps(d, "registering")
            [] OTHER -> SetCps(failed, "failed")
  BY DEF cloud_manager_register_handler
<1> HIDE DEF c, e
<1>4. code = "ok" => Good(ok, m, st, owed, X)
  BY <1>2, RegisteredGood
<1> HIDE DEF ok, granted
<1>5. Good(f, m, st, owed, X)
  BY <1>2, FailureGood
<1> HIDE DEF f
<1>6. Good(failed, m, st, owed, X)
  BY <1>5, SoonGood DEF Timer, ManagerTimer
<1> HIDE DEF failed
<1>7. Good(d, m, st, owed, X)
  BY <1>6, RetryGood DEF Action
<1> HIDE DEF d
<1>8. d.left > 0 => Good(next, m, st, owed, X)
  BY <1>7, RegisterOtherwiseGood
<1> HIDE DEF next
<1>9. /\ Good(SetCps(d, "failed"), m, st, owed, X)
      /\ Good(SetCps(d, "registering"), m, st, owed, X)
      /\ Good(SetCps(failed, "failed"), m, st, owed, X)
  BY <1>6, <1>7, RegisterOtherwiseGood
<1>10. Good(e, m, st, owed, X)
  <2>1. CASE code = "ok" /\ c.status = {}
    <3>1. e = ok
      BY <1>3, <2>1 DEF NoConnection, ConnectionError
    <3> QED
      BY <1>4, <2>1, <3>1
  <2>2. CASE /\ ~(code = "ok" /\ c.status = {})
             /\ code \in NoConnection /\ c.status \ {"failure"} = {}
    <3>1. e = IF Exhausted(failed, "register")
              THEN IF d.left > 0 /\ d.changed THEN next
                   ELSE SetCps(d, "failed")
              ELSE SetCps(d, "registering")
      BY <1>3, <2>2
    <3> QED
      BY <1>8, <1>9, <3>1
  <2>3. CASE /\ ~(code = "ok" /\ c.status = {})
             /\ ~(code \in NoConnection /\ c.status \ {"failure"} = {})
    BY <1>3, <1>9, <2>3
  <2> QED
    BY <2>1, <2>2, <2>3
<1> QED
  BY <1>10 DEF e

LEMMA LoginGood ==
  ASSUME NEW c0, NEW m, NEW st, NEW owed, NEW X, NEW code, NEW token,
         NEW close, Closes(close), code = "ok" => token \in Issued,
         Good(c0, m, st, owed \cup {"login"}, X)
  PROVE  Good(cloud_manager_login_handler(c0, code, token, close),
              m, st, owed, X)
<1> DEFINE c == Unset(c0, {"login"})
           failed == Add(c, {"failure"})
           in == LoggedInBy(c, token)
           ping == Later(in, "ping")
           both == IF token = "expiring" THEN Later(ping, "refresh") ELSE ping
           again == Retry(failed, "login")
           none == [failed EXCEPT !.access = "none"]
           refused == SetCps(none, "failed")
           renew == IF c.refresh THEN First(refused, "refresh")
                    ELSE cloud_context_clear(refused, close)
           O == owed \cup {"login"}
           e == cloud_manager_login_handler(c0, code, token, close)
<1>1. e = CASE ~Registered(c) -> Soon(SetCps(c, "failed"), "callback")
            [] Registered(c) /\ code = "ok" -> Soon(both, "callback")
            [] Registered(c) /\ code \in NoConnection ->
                 IF Exhausted(failed, "login") THEN Reconnect(again)
                 ELSE Soon(SetCps(again, LoginCps(c)), "callback")
            [] Registered(c) /\ code = "unauthorized" -> Soon(renew, "callback")
            [] OTHER -> Reconnect(failed)
  BY DEF cloud_manager_login_handler
<1>2. /\ "callback" \in Timer /\ "ping" \in Timer /\ "refresh" \in Timer
      /\ "login" \in Step /\ "refresh" \in Step /\ "login" \in Action
      /\ "refresh" \in Action /\ "failed" \in Cps
  BY DEF Timer, ManagerTimer, Step, Action, Cps
<1>3. O \cap Answered # {} /\ "login" \notin DeregisterRequest
  BY DEF Answered, ManagerRequest, DeregisterRequest
<1>4. Good(c, m, st, O, X)
  BY <1>3, UnsetGood
<1>5. ASSUME NEW d, Good(d, m, st, O, X),
             Cbs(d) \cap Step # {} \/ ~Registered(d) \/ LoggedIn(d)
      PROVE  Good(d, m, st, owed, X)
  BY <1>3, <1>5, Discharge
<1> HIDE DEF c, e
<1>6. CASE ~Registered(c)
  <2>1. e = Soon(SetCps(c, "failed"), "callback")
    BY <1>1, <1>6
  <2>2. Good(c, m, st, owed, X)
    BY <1>4, <1>5, <1>6
  <2>3. Good(SetCps(c, "failed"), m, st, owed, X)
    BY <1>2, <2>2, SetCpsGood
  <2> QED
    BY <1>2, <2>1, <2>3, SoonGood DEF e
<1>7. CASE Registered(c) /\ code = "ok"
  <2>1. e = Soon(both, "callback")
    BY <1>1, <1>7 DEF NoConnection, ConnectionError
  <2>2. Good(in, m, st, O, X) /\ LoggedIn(in)
    BY <1>4, <1>7, LoggedInByGood
  <2> HIDE DEF in
  <2>3. Good(in, m, st, owed, X)
    BY <1>5, <2>2
  <2>4. Good(ping, m, st, owed, X)
    BY <1>2, <2>3, LaterGood
  <2> HIDE DEF ping
  <2>5. Good(both, m, st, owed, X)
    BY <1>2, <2>4, LaterGood
  <2> HIDE DEF both
  <2> QED
    BY <1>2, <2>1, <2>5, SoonGood DEF e
<1>8. /\ Good(failed, m, st, O, X) /\ Same(c, failed, {"status"})
      /\ Registered(failed) <=> Registered(c)
  BY <1>4, FailureGood
<1> HIDE DEF failed
<1>9. CASE Registered(c) /\ code \in NoConnection
  <2>1. e = IF Exhausted(failed, "login") THEN Reconnect(again)
            ELSE Soon(SetCps(again, LoginCps(c)), "callback")
    BY <1>1, <1>9 DEF NoConnection, ConnectionError
  <2>2. /\ Good(again, m, st, O, X)
        /\ Same(failed, again, {"retry", "sel", "changed", "timers"})
        /\ Exhausted(failed, "login") \/ "login" \in Cbs(again)
    BY <1>2, <1>8, RetryGood
  <2> HIDE DEF again
  <2>3. CASE Exhausted(failed, "login")
    <3>1. /\ Good(Reconnect(again), m, st, O, X)
          /\ Cbs(Reconnect(again)) \cap Step # {}
      BY <2>2, ReconnectGood
    <3> QED
      BY <1>5, <2>1, <2>3, <3>1 DEF e
  <2>4. CASE ~Exhausted(failed, "login")
    <3>1. Good(again, m, st, owed, X)
      BY <1>2, <1>5, <2>2, <2>4
    <3>2. again.cps = c.cps
      BY <1>8, <2>2 DEF Same, Field
    <3>3. /\ LoginCps(c) \in Cps
          /\ LoginCps(c) = "deregistering" => again.cps = "deregistering"
      BY <3>2 DEF LoginCps, Cps
    <3>4. Good(SetCps(again, LoginCps(c)), m, st, owed, X)
      BY <3>1, <3>3, SetCpsGood
    <3> QED
      BY <1>2, <2>1, <2>4, <3>4, SoonGood DEF e
  <2> QED
    BY <2>3, <2>4
<1>10. CASE Registered(c) /\ code = "unauthorized"
  <2>1. e = Soon(renew, "callback")
    BY <1>1, <1>10 DEF NoConnection, ConnectionError
  <2>2. Formed(failed) /\ "none" \in Token /\ failed.refresh \in BOOLEAN
    BY <1>8 DEF Good, Base, Token, Formed, Context
  <2>3. Formed(none) /\ Same(failed, none, {"access"}) /\ none.access = "none"
    BY <2>2, PutKnowledge
  <2> HIDE DEF none
  <2>4. Same(failed, none, {"access", "refresh"}) /\ (failed.refresh => none.refresh)
    BY <2>3 DEF Same, Field
  <2>5. Good(none, m, st, O, X)
    BY <1>8, <2>3, <2>4, TokensGood
  <2>6. Good(refused, m, st, O, X)
    BY <1>2, <2>5, SetCpsGood
  <2> HIDE DEF refused
  <2>7. Good(First(refused, "refresh"), m, st, owed, X)
    <3>1. /\ Good(First(refused, "refresh"), m, st, O, X)
          /\ Cbs(First(refused, "refresh")) = Cbs(refused) \cup {"refresh"}
      BY <1>2, <2>6, FirstGood
    <3> QED
      BY <1>2, <1>5, <3>1
  <2>8. Good(cloud_context_clear(refused, close), m, st, owed, X)
    BY <2>6, ClearGoodFor DEF Good
  <2>9. Good(renew, m, st, owed, X)
    BY <2>7, <2>8
  <2> HIDE DEF renew
  <2> QED
    BY <1>2, <2>1, <2>9, SoonGood DEF e
<1>11. CASE Registered(c) /\ code \notin NoConnection \cup {"ok", "unauthorized"}
  <2>1. e = Reconnect(failed)
    BY <1>1, <1>11
  <2>2. /\ Good(Reconnect(failed), m, st, O, X)
        /\ Cbs(Reconnect(failed)) \cap Step # {}
    BY <1>8, ReconnectGood
  <2> QED
    BY <1>5, <2>1, <2>2 DEF e
<1> QED
  BY <1>6, <1>7, <1>9, <1>10, <1>11

LEMMA RefreshGood ==
  ASSUME NEW c0, NEW m, NEW st, NEW owed, NEW X, NEW code, NEW token,
         NEW close, Closes(close), code = "ok" => token \in Issued,
         Good(c0, m, st, owed \cup {"refresh"}, X)
  PROVE  Good(cloud_manager_refresh_token_handler(c0, code, token, close),
              m, st, owed, X)
<1> DEFINE c == Unset(c0, {"refresh"})
           failed == RefreshFailed(c, code)
           new == RefreshedBy(c, token)
           login == First(new, "login")
           cleared == cloud_context_clear(failed, close)
           again == Retry(failed, "refresh")
           O == owed \cup {"refresh"}
           e == cloud_manager_refresh_token_handler(c0, code, token, close)
<1>1. e = CASE code = "ok" /\ Registered(c) -> Soon(login, "callback")
            [] code = "unauthorized" -> Soon(cleared, "callback")
            [] code \in NoConnection /\ Registered(c) ->
                 IF Exhausted(failed, "refresh") THEN Reconnect(again)
                 ELSE Soon(again, "callback")
            [] OTHER -> Soon(failed, "callback")
  BY DEF cloud_manager_refresh_token_handler
<1>2. /\ "callback" \in Timer /\ "login" \in Step /\ "refresh" \in Step
      /\ "login" \in Action /\ "refresh" \in Action
  BY DEF Timer, ManagerTimer, Step, Action
<1>3. O \cap Answered # {} /\ "refresh" \notin DeregisterRequest
  BY DEF Answered, ManagerRequest, DeregisterRequest
<1>4. Good(c, m, st, O, X)
  BY <1>3, UnsetGood
<1>5. ASSUME NEW d, Good(d, m, st, O, X),
             Cbs(d) \cap Step # {} \/ ~Registered(d) \/ LoggedIn(d)
      PROVE  Good(d, m, st, owed, X)
  BY <1>3, <1>5, Discharge
<1> HIDE DEF c, e
<1>6. CASE code = "ok" /\ Registered(c)
  <2>1. e = Soon(login, "callback")
    BY <1>1, <1>6 DEF NoConnection, ConnectionError
  <2>2. Good(new, m, st, O, X)
    BY <1>4, <1>6, RefreshedByGood
  <2> HIDE DEF new
  <2> HIDE DEF O
  <2>3. Good(login, m, st, O, X) /\ Cbs(login) = Cbs(new) \cup {"login"}
    BY <1>2, <2>2, FirstGood
  <2> HIDE DEF login
  <2>4. Good(login, m, st, owed, X)
    BY <1>2, <1>5, <2>3
  <2> QED
    BY <1>2, <2>1, <2>4, SoonGood DEF e
<1>7. /\ Good(failed, m, st, O, X)
      /\ Registered(failed) => Registered(c)
      /\ Registered(failed) => code \in NoConnection \cup {"unauthorized"}
  BY <1>3, <1>4, RefreshFailedGood
<1> HIDE DEF failed
<1>8. CASE code = "unauthorized"
  <2>1. e = Soon(cleared, "callback")
    BY <1>1, <1>8 DEF NoConnection, ConnectionError
  <2>2. Good(cleared, m, st, owed, X)
    BY <1>7, ClearGoodFor DEF Good
  <2> HIDE DEF cleared
  <2> QED
    BY <1>2, <2>1, <2>2, SoonGood DEF e
<1>9. CASE code \in NoConnection /\ Registered(c)
  <2>1. e = IF Exhausted(failed, "refresh") THEN Reconnect(again)
            ELSE Soon(again, "callback")
    BY <1>1, <1>9 DEF NoConnection, ConnectionError
  <2>2. /\ Good(again, m, st, O, X)
        /\ Exhausted(failed, "refresh") \/ "refresh" \in Cbs(again)
    BY <1>2, <1>7, RetryGood
  <2> HIDE DEF again
  <2>3. CASE Exhausted(failed, "refresh")
    <3>1. /\ Good(Reconnect(again), m, st, O, X)
          /\ Cbs(Reconnect(again)) \cap Step # {}
      BY <2>2, ReconnectGood
    <3> QED
      BY <1>5, <2>1, <2>3, <3>1 DEF e
  <2>4. CASE ~Exhausted(failed, "refresh")
    <3>1. Good(again, m, st, owed, X)
      BY <1>2, <1>5, <2>2, <2>4
    <3> QED
      BY <1>2, <2>1, <2>4, <3>1, SoonGood DEF e
  <2> QED
    BY <2>3, <2>4
<1>10. CASE /\ ~(code = "ok" /\ Registered(c)) /\ code # "unauthorized"
            /\ ~(code \in NoConnection /\ Registered(c))
  <2>1. e = Soon(failed, "callback")
    BY <1>1, <1>10
  <2>2. ~Registered(failed)
    BY <1>7, <1>10
  <2>3. Good(failed, m, st, owed, X)
    BY <1>5, <1>7, <2>2
  <2> QED
    BY <1>2, <2>1, <2>3, SoonGood DEF e
<1> QED
  BY <1>6, <1>8, <1>9, <1>10

LEMMA PingGood ==
  ASSUME NEW c, NEW m, NEW st, NEW owed, NEW X, NEW code,
         Good(c, m, st, owed \cup {"ping"}, X)
  PROVE  Good(cloud_manager_send_ping_handler(c, code), m, st, owed, X)
<1> DEFINE missed == code \in {"timeout", "unavailable"}
           n == IF missed THEN c.retry.conn + 1 ELSE 0
           d == [c EXCEPT !.retry["conn"] = n]
           e == cloud_manager_send_ping_handler(c, code)
<1>1. Good(c, m, st, owed, X)
  BY Discharge DEF Answered, DeregisterRequest
<1>2. e = CASE ~LoggedIn(c) -> c
            [] LoggedIn(c) /\ d.retry.conn < MaxRetry -> Later(d, "ping")
            [] OTHER -> Soon(d, "reconnect")
  BY DEF cloud_manager_send_ping_handler
<1>3. n \in Nat /\ Formed(c)
  <2>1. c.retry \in [conn : Nat, token : Nat] /\ Formed(c)
    BY <1>1 DEF Good, Base, Formed, Context
  <2> QED
    BY <2>1
<1> HIDE DEF n
<1>4. Formed(d) /\ Same(c, d, {"retry"})
  BY <1>3, CounterIs
<1> HIDE DEF d, e
<1>5. Same(c, d, Bookkeeping \ {"timers"})
  BY <1>4 DEF Same, Bookkeeping
<1>6. Good(d, m, st, owed, X)
  BY <1>1, <1>4, <1>5, CountersGood
<1>7. /\ Good(Later(d, "ping"), m, st, owed, X)
      /\ Good(Soon(d, "reconnect"), m, st, owed, X)
  BY <1>6, LaterGood, SoonGood DEF Timer, ManagerTimer
<1>8. e = c \/ e = Later(d, "ping") \/ e = Soon(d, "reconnect")
  BY <1>2
<1> QED
  BY <1>1, <1>7, <1>8 DEF e

\* A step is pending, and no deregistration under way.
LEMMA StepIsGood ==
  ASSUME NEW d, NEW m, NEW st, NEW owed, NEW X, Base(d, m, st),
         Cbs(d) \cap Step # {},
         d.cps = "deregistering" => Cbs(d) \cap {"refreshed", "start"} # {}
  PROVE  Good(d, m, st, owed, X)
  BY DEF Good, Tries, Deregisters

LEMMA ApiRefreshGood ==
  ASSUME NEW c, NEW m, NEW st, NEW owed, NEW X, NEW code, NEW token,
         NEW close, Closes(close), code = "ok" => token \in Issued,
         Base(c, m, st)
  PROVE  Good(ApiRefresh(c, code, token, close), m, st, owed, X)
<1> DEFINE d == IF code = "ok" /\ Registered(c) THEN RefreshedBy(c, token)
                ELSE RefreshFailed(c, code)
           set == Set(d, "refreshed", TRUE)
           e == IF "refreshed" \in d.status THEN set
                ELSE cloud_context_clear(d, close)
           bits == {"failure", "expiry", "refreshed"}
           O == {"api_refresh"}
<1>1. ApiRefresh(c, code, token, close) = Drop(e, bits)
  BY DEF ApiRefresh
<1>2. O \cap Answered # {} /\ O \cap DeregisterRequest # {}
  BY DEF Answered, ManagerRequest, DeregisterRequest
<1> HIDE DEF O
<1>3. Good(c, m, st, O, X)
  BY <1>2, BaseIsGood
<1>4. Good(RefreshFailed(c, code), m, st, O, X)
  BY <1>2, <1>3, RefreshFailedGood
<1>5. code = "ok" /\ Registered(c) => Good(RefreshedBy(c, token), m, st, O, X)
  BY <1>3, RefreshedByGood
<1>6. Base(d, m, st)
  BY <1>4, <1>5 DEF Good
<1> HIDE DEF d
<1>7. Good(set, m, st, owed, X)
  <2>1. /\ Formed(set) /\ Same(d, set, {"timers"})
        /\ Cbs(set) = Cbs(d) \cup {"refreshed"}
    BY <1>6, SetIs DEF Base, Timer, DeregisterTimer
  <2> HIDE DEF set
  <2> DEFINE S == {}
  <2>2. Same(d, set, Bookkeeping) /\ Cbs(d) \subseteq Cbs(set) \cup S
    BY <2>1 DEF Same, Bookkeeping
  <2>3. "dump" \notin S
    OBVIOUS
  <2> HIDE DEF S
  <2>4. Base(set, m, st)
    BY <1>6, <2>1, <2>2, <2>3, BaseMore
  <2>5. "refreshed" \in Step
    BY DEF Step, Timer, DeregisterTimer
  <2> QED
    BY <2>1, <2>4, <2>5, StepIsGood
<1>8. Good(cloud_context_clear(d, close), m, st, owed, X)
  BY <1>6, ClearGoodFor
<1> HIDE DEF set
<1>9. Good(e, m, st, owed, X)
  BY <1>7, <1>8
<1> HIDE DEF e
<1>10. "registered" \notin bits /\ "logged_in" \notin bits
  OBVIOUS
<1> HIDE DEF bits
<1> QED
  BY <1>1, <1>9, <1>10, DropGood

LEMMA ApiLoginGood ==
  ASSUME NEW c, NEW m, NEW st, NEW owed, NEW X, NEW code, NEW token,
         NEW close, Closes(close), code = "ok" => token \in Issued,
         Base(c, m, st)
  PROVE  Good(ApiLogin(c, code, token, close), m, st, owed, X)
<1> DEFINE f == Add(c, {"failure"})
           d == IF code = "ok" /\ Registered(c) THEN LoggedInBy(c, token)
                ELSE SetCps(f, "failed")
           e == IF LoggedIn(d) THEN ByRequest(d, close)
                ELSE cloud_context_clear(d, close)
           bits == {"failure", "expiry"}
           O == {"api_login"}
<1>1. ApiLogin(c, code, token, close) = Drop(e, bits)
  BY DEF ApiLogin
<1>2. O \cap DeregisterRequest # {} /\ "failed" \in Cps
  BY DEF DeregisterRequest, Cps
<1> HIDE DEF O
<1>3. Good(c, m, st, O, X)
  BY <1>2, BaseIsGood
<1>4. Good(f, m, st, O, X)
  BY <1>3, FailureGood
<1> HIDE DEF f
<1>5. Good(SetCps(f, "failed"), m, st, O, X)
  BY <1>2, <1>4, SetCpsGood
<1>6. code = "ok" /\ Registered(c) => Good(LoggedInBy(c, token), m, st, O, X)
  BY <1>3, LoggedInByGood
<1>7. Base(d, m, st)
  BY <1>5, <1>6 DEF Good
<1> HIDE DEF d
<1>8. /\ Good(ByRequest(d, close), m, st, owed, X)
      /\ Good(cloud_context_clear(d, close), m, st, owed, X)
  BY <1>7, ByRequestGood, ClearGoodFor
<1>9. Good(e, m, st, owed, X)
  BY <1>8
<1> HIDE DEF e
<1>10. "registered" \notin bits /\ "logged_in" \notin bits
  OBVIOUS
<1> HIDE DEF bits
<1> QED
  BY <1>1, <1>9, <1>10, DropGood

LEMMA DeregisteredGood ==
  ASSUME NEW c, NEW m, NEW st, NEW owed, NEW X, NEW code, Base(c, m, st)
  PROVE  Good(Deregistered(c, code), m, st, owed, X)
<1> DEFINE out == [c EXCEPT !.status = {}]
           kept == Drop(c, {"failure"})
           d == IF code \in {"ok"} \cup ConnectionError THEN out ELSE kept
           d1 == SetCps(d, "uninitialized")
           d2 == Soon(d1, "clear")
           d3 == Dump(d2)
<1>1. d3 = Deregistered(c, code)
  BY DEF Deregistered
<1>2. Formed(c)
  BY DEF Base
<1>3. Formed(out) /\ Same(c, out, {"status"}) /\ out.status = {}
  <2>1. {} \in SUBSET Status
    OBVIOUS
  <2> QED
    BY <1>2, <2>1 DEF Formed, Context, Same, Field
<1>4. /\ Formed(kept) /\ Same(c, kept, {"status"})
      /\ kept.status = c.status \ {"failure"}
  BY <1>2, DropIs
<1> HIDE DEF out, kept
<1>5. Formed(d) /\ Same(c, d, {"status"}) /\ d.status \subseteq c.status
  BY <1>3, <1>4
<1> HIDE DEF d
<1>6. Formed(d1) /\ Same(d, d1, {"cps"}) /\ d1.cps = "uninitialized"
  BY <1>5, SetCpsIs DEF Cps
<1> HIDE DEF d1
<1>7. Formed(d2) /\ Same(d1, d2, {"timers"}) /\ Cbs(d2) = Cbs(d1) \cup {"clear"}
  BY <1>6, SoonIs DEF Timer, DeregisterTimer
<1> HIDE DEF d2
<1>8. Formed(d3) /\ Same(d2, d3, {"timers"}) /\ Cbs(d3) = Cbs(d2) \cup {"dump"}
  BY <1>7, DumpIs
<1> HIDE DEF d3
<1>9. /\ d3.manager = c.manager /\ d3.hears = c.hears /\ d3.refresh = c.refresh
      /\ d3.status \subseteq c.status /\ d3.cps = "uninitialized"
  BY <1>5, <1>6, <1>7, <1>8 DEF Same, Field
<1>10. Registered(d3) => Registered(c)
  BY <1>9 DEF Registered
<1>11. Base(d3, m, st)
  BY <1>8, <1>9, <1>10 DEF Base, Kept, Signs, Saved
<1>12. Cbs(d3) \cap Step # {}
  BY <1>7, <1>8 DEF Step, Timer, DeregisterTimer
<1> QED
  BY <1>1, <1>9, <1>11, <1>12, StepIsGood

\* A handler is called on a context in which its request was owed.
LEMMA HandleGood ==
  ASSUME NEW c, NEW m, NEW st, NEW owed, NEW X, NEW kind \in Kind, NEW code,
         NEW token, NEW close, Closes(close),
         code = "ok" => token \in Issued /\ m.registered,
         Good(c, m, st, owed \cup {kind}, X)
  PROVE  Good(Handle(c, kind, code, token, close), m, st, owed, X)
<1>1. Base(c, m, st)
  BY DEF Good
<1>2. /\ kind = "api_refresh" =>
           Good(ApiRefresh(c, code, token, close), m, st, owed, X)
      /\ kind = "api_login" =>
           Good(ApiLogin(c, code, token, close), m, st, owed, X)
      /\ kind = "deregister" => Good(Deregistered(c, code), m, st, owed, X)
  BY <1>1, ApiRefreshGood, ApiLoginGood, DeregisteredGood
<1>3. /\ kind = "register" =>
           Good(cloud_manager_register_handler(c, code, token), m, st, owed, X)
      /\ kind = "ping" =>
           Good(cloud_manager_send_ping_handler(c, code), m, st, owed, X)
  BY RegisterGood, PingGood
<1>4. kind = "login" =>
        Good(cloud_manager_login_handler(c, code, token, close),
             m, st, owed, X)
  BY LoginGood
<1>5. kind = "refresh" =>
        Good(cloud_manager_refresh_token_handler(c, code, token, close),
             m, st, owed, X)
  BY RefreshGood
<1> QED
  BY <1>2, <1>3, <1>4, <1>5
  DEF Handle, Kind, ManagerRequest, DeregisterRequest

-----------------------------------------------------------------------------
(* A session is closed *)

\* Once a request is taken out of the list, its handler is owed.
LEMMA TakenGood ==
  ASSUME NEW c, NEW m, NEW st, NEW owed, NEW X, NEW i \in DOMAIN c.reqs,
         Good(c, m, st, owed, X)
  PROVE  LET d == [c EXCEPT !.reqs = RemoveAt(@, i)]
         IN  /\ c.reqs[i].kind \in Kind
             /\ Good(d, m, st, owed \cup {c.reqs[i].kind}, X)
<1> DEFINE list == c.reqs
           kind == list[i].kind
           new == RemoveAt(list, i)
           d == [c EXCEPT !.reqs = new]
<1>1. [c EXCEPT !.reqs = RemoveAt(@, i)] = d
  OBVIOUS
<1>2. c \in Context
  BY DEF Good, Base, Formed
<1>3. list \in Seq(RequestsOf(Endpoint))
  BY <1>2 DEF Context
<1>4. i \in 1..Len(list) /\ list[i] \in RequestsOf(Endpoint)
  BY <1>3
<1>5. kind \in Kind
  BY <1>4 DEF RequestsOf, Kind
<1> HIDE DEF list
<1>6. /\ new \in Seq(RequestsOf(Endpoint)) /\ Len(new) = Len(list) - 1
      /\ \A k \in 1..Len(list) - 1 :
           new[k] = IF k < i THEN list[k] ELSE list[k + 1]
  BY <1>3, <1>4, RemoveAtIs
<1> HIDE DEF new
<1>7. \A j \in 1..Len(list) :
        j # i => \E k \in 1..Len(new) : new[k] = list[j]
  <2> SUFFICES ASSUME NEW j \in 1..Len(list), j # i
               PROVE  \E k \in 1..Len(new) : new[k] = list[j]
    OBVIOUS
  <2>1. CASE j < i
    <3>1. j \in 1..Len(new) /\ new[j] = list[j]
      BY <1>3, <1>4, <1>6, <2>1
    <3> QED
      BY <3>1
  <2>2. CASE i < j
    <3>1. j - 1 \in 1..Len(new) /\ new[j - 1] = list[j]
      BY <1>3, <1>4, <1>6, <2>2
    <3> QED
      BY <3>1
  <2> QED
    BY <1>4, <2>1, <2>2
<1>8. d \in Context /\ Same(c, d, {"reqs"}) /\ d.reqs = new
  BY <1>2, <1>6 DEF Context, Same, Field
<1> HIDE DEF d
<1>9. /\ d.timers = c.timers /\ d.status = c.status /\ d.up = c.up
      /\ d.manager = c.manager /\ d.hears = c.hears /\ d.cps = c.cps
      /\ d.refresh = c.refresh /\ d.access = c.access /\ d.sel = c.sel
      /\ d.num = c.num /\ d.ep = c.ep /\ d.peer = c.peer
  BY <1>8 DEF Same, Field
<1>10. Base(d, m, st) /\ Cbs(d) = Cbs(c)
  BY <1>2, <1>8, <1>9
  DEF Good, Base, Formed, Kept, Signs, Saved, Registered, Cbs
<1>11. Kinds(c) \subseteq Kinds(d) \cup {kind}
  BY <1>7, <1>8 DEF Kinds, list
<1>12. Excused(d, X) <=> Excused(c, X)
  BY <1>9 DEF Excused
<1> HIDE DEF kind
<1>13. Tries(d, owed \cup {kind}, X)
  BY <1>9, <1>10, <1>11, <1>12 DEF Good, Tries, Registered, LoggedIn
<1>14. Deregisters(d, owed \cup {kind})
  BY <1>9, <1>10, <1>11 DEF Good, Deregisters
<1>15. Good(d, m, st, owed \cup {kind}, X)
  BY <1>10, <1>13, <1>14 DEF Good
<1> QED
  BY <1>1, <1>5, <1>15 DEF kind, list, d, new

\* The first request of the session is told, if there is one.
LEMMA TellFirstGood ==
  ASSUME NEW c, NEW m, NEW st, NEW owed, NEW X, NEW s, NEW close,
         Closes(close), Good(c, m, st, owed, X)
  PROVE  Good(TellFirst(c, s, close), m, st, owed, X)
<1> DEFINE S == OfSession(c, s)
           i == CHOOSE k \in S : \A j \in S : k <= j
           d == [c EXCEPT !.reqs = RemoveAt(@, i)]
<1>1. TellFirst(c, s, close) =
        IF S = {} THEN c
        ELSE Handle(d, c.reqs[i].kind, "closed", "none", close)
  BY DEF TellFirst
<1>2. S \subseteq DOMAIN c.reqs /\ S \subseteq Nat
  <2>1. c.reqs \in Seq(RequestsOf(Endpoint))
    BY DEF Good, Base, Formed, Context
  <2> QED
    BY <2>1 DEF OfSession
<1> HIDE DEF S
<1>3. CASE S = {}
  BY <1>1, <1>3
<1>4. CASE S # {}
  <2>1. \E k \in S : \A j \in S : k <= j
    BY <1>2, <1>4, LeastOf
  <2>2. i \in S
    BY <2>1
  <2>3. i \in DOMAIN c.reqs
    BY <1>2, <2>2
  <2> HIDE DEF i
  <2>4. /\ c.reqs[i].kind \in Kind
        /\ Good(d, m, st, owed \cup {c.reqs[i].kind}, X)
    BY <2>3, TakenGood
  <2> DEFINE kind == c.reqs[i].kind
  <2> HIDE DEF d, kind
  <2>5. Good(Handle(d, kind, "closed", "none", close), m, st, owed, X)
    BY <2>4, HandleGood DEF kind
  <2>6. TellFirst(c, s, close) = Handle(d, kind, "closed", "none", close)
    BY <1>1, <1>4 DEF kind
  <2> QED
    BY <2>5, <2>6
<1> QED
  BY <1>3, <1>4

LEMMA TellFirstBase ==
  ASSUME NEW c, NEW m, NEW st, NEW s, NEW close, Closes(close), Base(c, m, st)
  PROVE  Base(TellFirst(c, s, close), m, st)
<1> DEFINE owed == {"deregister"}
           X == {}
<1>1. owed \cap DeregisterRequest # {}
  BY DEF DeregisterRequest
<1> HIDE DEF owed, X
<1>2. Good(c, m, st, owed, X)
  BY <1>1, BaseIsGood
<1>3. Good(TellFirst(c, s, close), m, st, owed, X)
  BY <1>2, TellFirstGood
<1> QED
  BY <1>3 DEF Good

\* The requests of the session are told one after the other, in N turns.
Tells(f, gone, N, s, close) ==
  /\ f[0] = gone
  /\ \A n \in 1..N : f[n] = TellFirst(f[n - 1], s, close)

LEMMA ToldExists ==
  ASSUME NEW gone, NEW m, NEW st, NEW s, NEW close, Closes(close),
         NEW N \in Nat, Base(gone, m, st)
  PROVE  \E f : f = [n \in 0..N |-> f[n]] /\ Tells(f, gone, N, s, close)
<1> DEFINE W == {d \in Context : Base(d, m, st)}
           g == [n \in 1..N |-> [d \in W |-> TellFirst(d, s, close)]]
<1>2. \A d : d \in W <=> Base(d, m, st)
  BY DEF Base, Formed
<1>3. gone \in W
  BY <1>2
<1> HIDE DEF W
<1>4. g \in Steps(W, N)
  <2>1. ASSUME NEW d \in W
        PROVE  TellFirst(d, s, close) \in W
    BY <1>2, TellFirstBase
  <2> QED
    BY <2>1 DEF Steps
<1>5. PICK f : Walks(f, W, N, gone, g)
  <2> HIDE DEF g
  <2> QED
    BY <1>3, <1>4, WalkExists, Zenon
<1>6. ASSUME NEW n \in 1..N
      PROVE  f[n] = TellFirst(f[n - 1], s, close)
  <2>1. f[n - 1] \in W /\ f[n] = g[n][f[n - 1]]
    <3> HIDE DEF g
    <3> QED
      BY <1>5 DEF Walks
  <2> QED
    BY <2>1
<1> HIDE DEF g
<1>7. f = [n \in 0..N |-> f[n]] /\ f[0] = gone
  BY <1>5 DEF Walks
<1> QED
  BY <1>6, <1>7 DEF Tells

\* The function told in Close
Told(gone, N, s, close) ==
  CHOOSE f : f = [n \in 0..N |-> IF n = 0 THEN gone
                                 ELSE TellFirst(f[n - 1], s, close)]

LEMMA ToldIs ==
  ASSUME NEW gone, NEW m, NEW st, NEW s, NEW close, Closes(close),
         NEW N \in Nat, Base(gone, m, st)
  PROVE  Tells(Told(gone, N, s, close), gone, N, s, close)
<1> DEFINE Def(f) == [n \in 0..N |-> IF n = 0 THEN gone
                                     ELSE TellFirst(f[n - 1], s, close)]
           h == CHOOSE f : f = Def(f)
<1>1. PICK g : g = [n \in 0..N |-> g[n]] /\ Tells(g, gone, N, s, close)
  BY ToldExists
<1>2. g = Def(g)
  <2>1. ASSUME NEW n \in 0..N
        PROVE  g[n] = Def(g)[n]
    <3>1. CASE n = 0
      BY <1>1, <3>1 DEF Tells
    <3>2. CASE n # 0
      <4>1. n \in 1..N
        BY <3>2
      <4>2. g[n] = TellFirst(g[n - 1], s, close)
        BY <1>1, <4>1 DEF Tells
      <4> QED
        BY <3>2, <4>2
    <3> QED
      BY <3>1, <3>2
  <2> QED
    BY <1>1, <2>1
<1>3. h = Def(h)
  <2> HIDE DEF Def
  <2> QED
    BY <1>2
<1>4. ASSUME NEW n \in 1..N
      PROVE  h[n] = TellFirst(h[n - 1], s, close)
  <2>1. Def(h)[n] = TellFirst(h[n - 1], s, close)
    OBVIOUS
  <2> HIDE DEF Def, h
  <2> QED
    BY <1>3, <2>1
<1>5. h[0] = gone
  <2>1. Def(h)[0] = gone
    BY DEF Def
  <2> HIDE DEF Def, h
  <2> QED
    BY <1>3, <2>1
<1>6. Tells(h, gone, N, s, close)
  <2> HIDE DEF h
  <2> QED
    BY <1>4, <1>5 DEF Tells
<1>7. h = Told(gone, N, s, close)
  BY Zenon DEF Told
<1> HIDE DEF h
<1> QED
  BY <1>6, <1>7

LEMMA ToldGood ==
  ASSUME NEW gone, NEW m, NEW st, NEW owed, NEW X, NEW s, NEW close,
         Closes(close), NEW N \in Nat, NEW f, Tells(f, gone, N, s, close),
         Good(gone, m, st, owed, X)
  PROVE  Good(f[N], m, st, owed, X)
<1> DEFINE P == {n \in 0..N : Good(f[n], m, st, owed, X)}
<1>1. 0 \in P
  BY DEF Tells
<1>2. ASSUME NEW n \in 1..N, n - 1 \in P
      PROVE  n \in P
  <2>1. f[n] = TellFirst(f[n - 1], s, close)
    BY DEF Tells
  <2>2. Good(f[n - 1], m, st, owed, X) /\ n \in 0..N
    BY <1>2
  <2>3. Good(f[n], m, st, owed, X)
    BY <2>1, <2>2, TellFirstGood
  <2> QED
    BY <2>2, <2>3
<1>3. 0..N \subseteq P
  <2> HIDE DEF P
  <2> QED
    BY <1>1, <1>2, SetInduction
<1> QED
  BY <1>3

\* Once the session is gone, it excuses what is taken for connected.
LEMMA GoneGood ==
  ASSUME NEW c, NEW m, NEW st, NEW owed, NEW X, NEW s \in Server,
         Good(c, m, st, owed, X)
  PROVE  Good([c EXCEPT !.peer[s] = "none"], m, st, owed, X \cup {s})
<1> DEFINE gone == [c EXCEPT !.peer[s] = "none"]
           peer == [c.peer EXCEPT ![s] = "none"]
           d == [c EXCEPT !.peer = peer]
<1>1. /\ c \in Context
      /\ c.peer \in [Server -> Session] /\ "none" \in Session
  BY DEF Good, Base, Formed, Context, Session
<1>2. gone = d
  OBVIOUS
<1>3. /\ peer \in [Server -> Session] /\ peer[s] = "none"
      /\ \A t \in Server : t # s => peer[t] = c.peer[t]
  BY <1>1
<1> HIDE DEF peer
<1>4. d \in Context /\ Same(c, d, {"peer"}) /\ d.peer = peer
  BY <1>1, <1>3 DEF Context, Same, Field
<1> HIDE DEF d, gone
<1>5. /\ d.timers = c.timers /\ d.status = c.status /\ d.up = c.up
      /\ d.manager = c.manager /\ d.hears = c.hears /\ d.cps = c.cps
      /\ d.refresh = c.refresh /\ d.access = c.access /\ d.sel = c.sel
      /\ d.num = c.num /\ d.ep = c.ep /\ d.reqs = c.reqs
  BY <1>4 DEF Same, Field
<1>6. Base(d, m, st) /\ Cbs(d) = Cbs(c) /\ Kinds(d) = Kinds(c)
  BY <1>4, <1>5
  DEF Good, Base, Formed, Kept, Signs, Saved, Registered, Cbs, Kinds
<1>7. Excused(c, X) => Excused(d, X \cup {s})
  <2> SUFFICES ASSUME Excused(c, X)
               PROVE  Excused(d, X \cup {s})
    OBVIOUS
  <2>1. c.ep \in Server
    BY <1>1 DEF Excused, Context, Endpoint
  <2> QED
    BY <1>3, <1>4, <1>5, <2>1 DEF Excused
<1>8. Tries(d, owed, X \cup {s}) /\ Deregisters(d, owed)
  BY <1>5, <1>6, <1>7 DEF Good, Tries, Deregisters, Registered, LoggedIn
<1> QED
  BY <1>2, <1>6, <1>8 DEF Good, gone

LEMMA PutUp ==
  ASSUME NEW c, NEW m, NEW st, NEW up \in BOOLEAN, Base(c, m, st)
  PROVE  LET d == [c EXCEPT !.up = up]
         IN  /\ Base(d, m, st) /\ Same(c, d, {"up"}) /\ d.up = up
             /\ Cbs(d) = Cbs(c) /\ Kinds(d) = Kinds(c)
<1> DEFINE d == [c EXCEPT !.up = up]
<1>1. c \in Context
  BY DEF Base, Formed
<1>2. d \in Context /\ Same(c, d, {"up"}) /\ d.up = up
  BY <1>1 DEF Context, Same, Field
<1> HIDE DEF d
<1>3. /\ d.timers = c.timers /\ d.status = c.status /\ d.reqs = c.reqs
      /\ d.manager = c.manager /\ d.hears = c.hears /\ d.sel = c.sel
      /\ d.refresh = c.refresh /\ d.access = c.access /\ d.num = c.num
  BY <1>2 DEF Same, Field
<1>4. Base(d, m, st) /\ Cbs(d) = Cbs(c) /\ Kinds(d) = Kinds(c)
  BY <1>2, <1>3
  DEF Base, Formed, Kept, Signs, Saved, Registered, Cbs, Kinds
<1> QED
  BY <1>2, <1>4 DEF d

\* The session s is lost: from now on it excuses nothing.
LEMMA SessionLostGood ==
  ASSUME NEW c, NEW m, NEW st, NEW owed, NEW X, NEW s,
         Good(c, m, st, owed, X \cup {s})
  PROVE  Good(SessionEvent(c, s, FALSE), m, st, owed, X)
<1> DEFINE d == [c EXCEPT !.up = FALSE]
           e == SessionEvent(c, s, FALSE)
<1>1. c.up \in BOOLEAN /\ c.hears \in BOOLEAN /\ Base(c, m, st)
  BY DEF Good, Base, Formed, Context
<1>2. /\ Base(d, m, st) /\ Same(c, d, {"up"})
      /\ Cbs(d) = Cbs(c) /\ Kinds(d) = Kinds(c)
  BY <1>1, PutUp
<1>3. e = CASE ~c.hears \/ c.ep # s \/ c.up = FALSE -> c
            [] /\ c.hears /\ c.ep = s /\ ~FALSE /\ c.up /\ Registered(c) ->
                 ManagerRestart(d)
            [] OTHER -> d
  BY DEF SessionEvent
<1> HIDE DEF d, e
<1>4. CASE ~c.hears \/ c.ep # s \/ c.up = FALSE
  <2>1. e = c
    BY <1>1, <1>3, <1>4
  <2>2. Tries(c, owed, X)
    BY <1>4 DEF Good, Tries, Excused
  <2> QED
    BY <2>1, <2>2 DEF Good, e
<1>5. CASE c.hears /\ c.ep = s /\ c.up = TRUE /\ Registered(c)
  <2>1. e = ManagerRestart(d)
    BY <1>3, <1>5
  <2>2. Good(ManagerRestart(d), m, st, {}, {})
    BY <1>2, ManagerRestartGood
  <2>3. Good(ManagerRestart(d), m, st, {} \cup owed, {} \cup X)
    BY <2>2, GoodMonotone
  <2>4. {} \cup owed = owed /\ {} \cup X = X
    OBVIOUS
  <2> QED
    BY <2>1, <2>3, <2>4 DEF e
<1>6. CASE c.hears /\ c.ep = s /\ c.up = TRUE /\ ~Registered(c)
  <2>1. e = d
    BY <1>3, <1>6
  <2>2. d.status = c.status /\ d.cps = c.cps
    BY <1>2 DEF Same, Field
  <2>3. Tries(d, owed, X) /\ Deregisters(d, owed)
    BY <1>2, <1>6, <2>2 DEF Good, Tries, Deregisters, Registered
  <2> QED
    BY <1>2, <2>1, <2>3 DEF Good, e
<1> QED
  BY <1>1, <1>4, <1>5, <1>6

\* Closing a session, whose handlers close others by close.
LEMMA CloseGood ==
  ASSUME NEW c, NEW m, NEW st, NEW owed, NEW X, NEW close, Closes(close),
         NEW s \in Server, c.peer[s] # "none", Good(c, m, st, owed, X \cup {s})
  PROVE  Good(Close(c, s, close), m, st, owed, X)
<1> DEFINE its == OfSession(c, s)
           turns == Cardinality(its)
                      + Cardinality({i \in its : c.reqs[i].kind = "api_login"})
           gone == [c EXCEPT !.peer[s] = "none"]
           told == Told(gone, turns, s, close)
           Y == X \cup {s}
<1>1. Close(c, s, close) = SessionEvent(told[turns], s, FALSE)
  <2>1. s # NoServer
    BY ServersAssumption DEF Server, Default, NoServer
  <2>2. Close(c, s, close) = IF s = NoServer \/ c.peer[s] = "none" THEN c
                             ELSE SessionEvent(told[turns], s, FALSE)
    BY Zenon DEF Close, Told
  <2> HIDE DEF told, turns
  <2> QED
    BY <2>1, <2>2
<1>2. Y \cup {s} = Y
  OBVIOUS
<1>3. Good(c, m, st, owed, Y)
  OBVIOUS
<1> HIDE DEF Y
<1>4. turns \in Nat
  <2>1. c.reqs \in Seq(RequestsOf(Endpoint))
    BY DEF Good, Base, Formed, Context
  <2>2. Len(c.reqs) \in Nat /\ its \subseteq 1..Len(c.reqs)
    BY <2>1 DEF OfSession
  <2> DEFINE some == {i \in its : c.reqs[i].kind = "api_login"}
  <2>3. some \subseteq its
    OBVIOUS
  <2> HIDE DEF its, some
  <2>4. IsFiniteSet(1..Len(c.reqs))
    BY <2>2, FS_Interval
  <2>5. IsFiniteSet(its) /\ IsFiniteSet(some)
    BY <2>2, <2>3, <2>4, FS_Subset
  <2>6. Cardinality(its) \in Nat /\ Cardinality(some) \in Nat
    BY <2>5, FS_CardinalityType
  <2> QED
    BY <2>6 DEF some
<1> HIDE DEF turns
<1>5. Good(gone, m, st, owed, Y \cup {s})
  BY <1>3, GoneGood
<1> HIDE DEF gone
<1>6. Tells(told, gone, turns, s, close)
  <2>1. Base(gone, m, st)
    BY <1>5 DEF Good
  <2> QED
    BY <1>4, <2>1, ToldIs
<1> HIDE DEF told
<1>7. Good(told[turns], m, st, owed, Y)
  BY <1>2, <1>4, <1>5, <1>6, ToldGood
<1>8. Good(told[turns], m, st, owed, X \cup {s})
  BY <1>7 DEF Y
<1> QED
  BY <1>1, <1>8, SessionLostGood

LEMMA LevelCloses ==
  ASSUME NEW close, Closes(close)
  PROVE  Closes([c \in Context |-> [s \in Endpoint |-> Close(c, s, close)]])
<1> DEFINE f == [c \in Context |-> [s \in Endpoint |-> Close(c, s, close)]]
<1>1. \A c \in Context, s \in Endpoint : f[c][s] = Close(c, s, close)
  OBVIOUS
<1> HIDE DEF f
<1>2. ASSUME NEW c \in Context, NEW s \in Endpoint, NEW m, NEW st, NEW owed,
             NEW X, Good(c, m, st, owed, X)
      PROVE  Good(Close(c, s, close), m, st, owed, X)
  <2>1. CASE s = NoServer \/ c.peer[s] = "none"
    <3>1. Close(c, s, close) = c
      BY <2>1 DEF Close
    <3> QED
      BY <1>2, <3>1
  <2>2. CASE s # NoServer /\ c.peer[s] # "none"
    <3>1. s \in Server
      BY <2>2 DEF Endpoint
    <3>2. Good(c, m, st, owed \cup owed, X \cup {s})
      BY <1>2, GoodMonotone
    <3>3. owed \cup owed = owed
      OBVIOUS
    <3>4. Good(c, m, st, owed, X \cup {s})
      BY <3>2, <3>3
    <3> QED
      BY <2>2, <3>1, <3>4, CloseGood
  <2> QED
    BY <2>1, <2>2
<1>3. Closes(f)
  BY <1>1, <1>2 DEF Closes
<1> QED
  BY <1>3 DEF f

LEMMA AllClose == Closes(Second) /\ Closes(Closing)
<1>1. Closes(NotClosing)
  <2>1. \A c \in Context, s \in Endpoint : NotClosing[c][s] = c
    BY DEF NotClosing
  <2> QED
    BY <2>1 DEF Closes
<1>2. Closes(Third)
  BY <1>1, LevelCloses DEF Third
<1>3. Closes(Second)
  BY <1>2, LevelCloses DEF Second
<1>4. Closes(Closing)
  BY <1>3, LevelCloses DEF Closing
<1> QED
  BY <1>3, <1>4

-----------------------------------------------------------------------------
(* The delayed callbacks of the manager *)

\* Signing in was up to a callback that has just run.
LEMMA RestartGood ==
  ASSUME NEW c, NEW m, NEW st, Good(c, m, st, {"login"}, {}),
         c.manager = c.hears
  PROVE  Good(oc_cloud_manager_restart(c), m, st, {}, {})
<1> DEFINE e == oc_cloud_manager_restart(c)
<1>1. /\ c \in Context /\ c.manager \in BOOLEAN /\ c.up \in BOOLEAN
      /\ c.ep \in Endpoint /\ Base(c, m, st)
  BY DEF Good, Base, Formed, Context
<1>2. Deregisters(c, {})
  BY DEF Good, Deregisters, DeregisterRequest
<1>3. e = CASE ~c.manager -> c
            [] c.manager /\ c.up /\ c.ep # NoServer -> Closing[c][c.ep]
            [] OTHER -> Soon(c, "restart")
  BY DEF oc_cloud_manager_restart
<1> HIDE DEF e
<1>4. CASE ~c.manager
  <2>1. e = c
    BY <1>3, <1>4
  <2>2. Tries(c, {}, {})
    BY <1>4 DEF Tries
  <2> QED
    BY <1>1, <1>2, <2>1, <2>2 DEF Good, e
<1>5. CASE c.manager /\ c.up /\ c.ep # NoServer
  <2>1. e = Close(c, c.ep, Second)
    BY <1>1, <1>3, <1>5 DEF Closing
  <2>2. c.ep \in Server
    BY <1>1, <1>5 DEF Endpoint
  <2>3. CASE c.peer[c.ep] = "none"
    <3>1. e = c
      BY <2>1, <2>3 DEF Close
    <3>2. Tries(c, {}, {})
      BY <1>5, <2>3 DEF Tries, Excused
    <3> QED
      BY <1>1, <1>2, <3>1, <3>2 DEF Good, e
  <2>4. CASE c.peer[c.ep] # "none"
    <3> DEFINE X == {}
               owed == {}
               s == c.ep
    <3>1. Good(c, m, st, owed, X \cup {s})
      BY <1>1, <1>2, <1>5 DEF Good, Tries, Excused
    <3> HIDE DEF X, owed, s
    <3>2. Good(Close(c, s, Second), m, st, owed, X)
      BY <2>2, <2>4, <3>1, AllClose, CloseGood DEF s
    <3> QED
      BY <2>1, <3>2 DEF X, owed, s, e
  <2> QED
    BY <2>3, <2>4
<1>6. CASE c.manager /\ ~(c.up /\ c.ep # NoServer)
  <2>1. e = Soon(c, "restart")
    BY <1>3, <1>6
  <2>2. Good(e, m, st, {"login"}, {})
    BY <2>1, SoonGood DEF Timer
  <2>3. "restart" \in Cbs(e) /\ "restart" \in Step
    BY <1>1, <2>1, SoonIs DEF Base, Timer, Step
  <2> DEFINE owed == {}
             X == {}
  <2>4. owed \cup {"login"} = {"login"}
    OBVIOUS
  <2> HIDE DEF owed, X
  <2>5. Good(e, m, st, owed, {})
    BY <2>2, <2>3, <2>4, Discharge DEF DeregisterRequest
  <2> QED
    BY <2>5 DEF owed, e
<1> QED
  BY <1>1, <1>4, <1>5, <1>6

LEMMA ReconnectAsyncGood ==
  ASSUME NEW c, NEW m, NEW st, Good(c, m, st, {"login"}, {}),
         c.manager = c.hears
  PROVE  Good(cloud_manager_reconnect_async(c), m, st, {}, {})
<1> DEFINE d == Soon(c, "callback")
<1>1. Good(d, m, st, {"login"}, {})
  BY SoonGood DEF Timer, ManagerTimer
<1>2. Same(c, d, {"timers"})
  BY SoonIs DEF Timer, ManagerTimer, Good, Base
<1>3. cloud_manager_reconnect_async(c) = oc_cloud_manager_restart(d)
  BY DEF cloud_manager_reconnect_async
<1> HIDE DEF d
<1>4. d.manager = d.hears
  BY <1>2 DEF Same, Field
<1> QED
  BY <1>1, <1>3, <1>4, RestartGood

LEMMA RestartManagerGood ==
  ASSUME NEW c, NEW m, NEW st, Good(c, m, st, {"login"}, {}),
         c.manager = c.hears
  PROVE  Good(restart_manager(c), m, st, {}, {})
<1>1. Base(c, m, st) /\ c.manager \in BOOLEAN
  BY DEF Good, Base, Formed, Context
<1>2. CASE c.manager
  BY <1>1, <1>2, ManagerRestartGood DEF restart_manager
<1>3. CASE ~c.manager
  <2>1. restart_manager(c) = c
    BY <1>3 DEF restart_manager
  <2>2. Tries(c, {}, {}) /\ Deregisters(c, {})
    BY <1>3 DEF Good, Tries, Deregisters, DeregisterRequest
  <2> QED
    BY <1>1, <2>1, <2>2 DEF Good
<1> QED
  BY <1>1, <1>2, <1>3

LEMMA CallbackGood ==
  ASSUME NEW c, NEW m, NEW st, NEW owed, NEW X, Good(c, m, st, owed, X)
  PROVE  Good(cloud_manager_callback_handler_async(c), m, st, owed, X)
<1> DEFINE bits == {"failure", "refreshed", "expiry"}
<1>1. "registered" \notin bits /\ "logged_in" \notin bits
  OBVIOUS
<1> HIDE DEF bits
<1>2. Good(Drop(c, bits), m, st, owed, X)
  BY <1>1, DropGood
<1> QED
  BY <1>2 DEF bits, cloud_manager_callback_handler_async

LEMMA PingAsyncGood ==
  ASSUME NEW c, NEW m, NEW st, NEW owed, NEW X, Good(c, m, st, owed, X)
  PROVE  Good(cloud_manager_send_ping_async(c), m, st, owed, X)
<1>1. Good(c, m, st, owed \cup {"ping"}, X \cup X)
  BY GoodMonotone
<1>2. X \cup X = X
  OBVIOUS
<1>3. Good(AddRequest(c, "ping"), m, st, owed, X)
  BY <1>1, <1>2, AddRequestGood DEF Kind, ManagerRequest
<1> QED
  BY <1>3 DEF cloud_manager_send_ping_async

\* What a callback owes that is to bring the device back
LEMMA OwedLogin ==
  ASSUME NEW c, NEW m, NEW st, Base(c, m, st), Deregisters(c, {})
  PROVE  Good(c, m, st, {"login"}, {})
  BY DEF Good, Tries, Deregisters, Answered, ManagerRequest,
         DeregisterRequest

LEMMA Settled ==
  ASSUME NEW c, NEW m, NEW st, NEW kind \in {"login", "refresh"},
         Good(c, m, st, {kind}, {}),
         Cbs(c) \cap Step # {} \/ ~Registered(c) \/ LoggedIn(c) \/ ~c.hears
  PROVE  Good(c, m, st, {}, {})
  BY DEF Good, Tries, Deregisters, DeregisterRequest

LEMMA StartProcessGood ==
  ASSUME NEW c0, NEW m, NEW st, Base(c0, m, st), Deregisters(c0, {})
  PROVE  LET d == cloud_start_process(c0)
         IN  /\ Good(d, m, st, {}, {}) /\ Same(c0, d, {"retry", "timers"})
             /\ Registered(d) => Cbs(d) \cap Step # {}
<1> DEFINE c == cloud_retry_reset(c0)
           d == cloud_start_process(c0)
           O == {"login"}
           X == {}
<1>1. d = CASE c.status = {} /\ c.cps = "readytoregister" ->
                 First(c, "register")
            [] Registered(c) /\ c.access = "permanent" -> First(c, "login")
            [] Registered(c) /\ c.access # "permanent" /\ c.refresh ->
                 First(c, "refresh")
            [] OTHER -> c
  BY DEF cloud_start_process
<1>2. Formed(c) /\ Same(c0, c, {"retry"})
  BY ResetIs DEF Base
<1>3. Good(c0, m, st, O, X)
  BY OwedLogin
<1> HIDE DEF c, d, O, X
<1>4. Same(c0, c, Bookkeeping \ {"timers"})
  BY <1>2 DEF Same, Bookkeeping
<1>5. Good(c, m, st, O, X)
  BY <1>2, <1>3, <1>4, CountersGood
<1>6. ASSUME NEW action \in Action
      PROVE  /\ Good(First(c, action), m, st, O, X)
             /\ Same(c, First(c, action), {"retry", "timers"})
             /\ Cbs(First(c, action)) = Cbs(c) \cup {action}
  BY <1>5, FirstGood
<1>7. Action = {"register", "login", "refresh"} /\ {"login", "refresh"} \subseteq Step
  BY DEF Action, Step, Timer, ManagerTimer
<1>8. c.refresh \in BOOLEAN /\ (Registered(c) => c.refresh)
  BY <1>5 DEF Good, Base, Signs, Formed, Context
<1>9. /\ Good(d, m, st, O, X) /\ Same(c, d, {"retry", "timers"})
      /\ Registered(d) => Cbs(d) \cap Step # {}
  <2>1. CASE Registered(c)
    <3>1. c.status # {}
      BY <2>1 DEF Registered
    <3>2. d = First(c, "login") \/ d = First(c, "refresh")
      BY <1>1, <1>8, <2>1, <3>1
    <3> QED
      BY <1>6, <1>7, <3>2
  <2>2. CASE ~Registered(c)
    <3>1. d = First(c, "register") \/ d = c
      BY <1>1, <2>2
    <3>2. Same(c, d, {"retry", "timers"}) /\ Good(d, m, st, O, X)
      BY <1>5, <1>6, <1>7, <3>1 DEF Same
    <3>3. d.status = c.status
      BY <3>2 DEF Same, Field
    <3> QED
      BY <2>2, <3>2, <3>3 DEF Registered
  <2> QED
    BY <2>1, <2>2
<1>10. Same(c0, d, {"retry", "timers"})
  BY <1>2, <1>9 DEF Same
<1>11. Good(d, m, st, {}, {})
  BY <1>9, Settled DEF O, X
<1> QED
  BY <1>9, <1>10, <1>11 DEF d

LEMMA RestIs ==
  ASSUME NEW c, NEW m, NEW st, Base(c, m, st)
  PROVE  LET d == Rest(c)
         IN  /\ Base(d, m, st) /\ Same(c, d, {"status", "cps"})
             /\ d.cps # "deregistering" /\ Cbs(d) = Cbs(c) /\ ~LoggedIn(d)
<1> DEFINE e == Drop(c, {"logged_in"})
           cps == IF Registered(e) THEN "registered" ELSE "readytoregister"
           d == SetCps(e, cps)
<1>1. d = Rest(c)
  BY DEF Rest
<1>2. /\ Formed(e) /\ Same(c, e, {"status"})
      /\ e.status = c.status \ {"logged_in"}
  BY DropIs DEF Base
<1> HIDE DEF e
<1>3. cps \in Cps /\ cps # "deregistering"
  BY DEF Cps
<1> HIDE DEF cps
<1>4. Formed(d) /\ Same(e, d, {"cps"}) /\ d.cps = cps
  BY <1>2, <1>3, SetCpsIs
<1> HIDE DEF d
<1>5. Same(c, d, {"status", "cps"}) /\ d.status = c.status \ {"logged_in"}
  BY <1>2, <1>4 DEF Same, Field
<1>6. /\ d.timers = c.timers /\ d.manager = c.manager /\ d.hears = c.hears
      /\ d.refresh = c.refresh /\ d.access = c.access /\ d.sel = c.sel
      /\ d.num = c.num
  BY <1>5 DEF Same, Field
<1>7. (Registered(d) <=> Registered(c)) /\ ~LoggedIn(d) /\ Cbs(d) = Cbs(c)
  BY <1>5, <1>6 DEF Registered, LoggedIn, Cbs
<1>8. Base(d, m, st)
  BY <1>4, <1>6, <1>7 DEF Base, Kept, Signs, Saved
<1> QED
  BY <1>1, <1>3, <1>4, <1>5, <1>7, <1>8

LEMMA StartManagerGood ==
  ASSUME NEW c, NEW m, NEW st, Base(c, m, st)
  PROVE  Good(start_manager(c), m, st, {}, {})
<1> DEFINE d == [c EXCEPT !.ep = NoServer]
           e == Rest(d)
<1>1. start_manager(c) = cloud_start_process(e)
  BY DEF start_manager
<1>2. c \in Context /\ NoServer \in Endpoint
  BY DEF Base, Formed, Endpoint
<1>3. d \in Context /\ Same(c, d, {"ep"})
  BY <1>2 DEF Context, Same, Field
<1> HIDE DEF d
<1>4. /\ d.timers = c.timers /\ d.manager = c.manager /\ d.hears = c.hears
      /\ d.refresh = c.refresh /\ d.access = c.access /\ d.sel = c.sel
      /\ d.num = c.num /\ d.status = c.status
  BY <1>3 DEF Same, Field
<1>5. Base(d, m, st)
  BY <1>3, <1>4 DEF Base, Formed, Kept, Signs, Saved, Registered, Cbs
<1>6. Base(e, m, st) /\ e.cps # "deregistering"
  BY <1>5, RestIs
<1> HIDE DEF e
<1>7. Deregisters(e, {})
  BY <1>6 DEF Deregisters
<1> QED
  BY <1>1, <1>6, <1>7, StartProcessGood

LEMMA RegisterAsyncGood ==
  ASSUME NEW c0, NEW m, NEW st, Good(c0, m, st, {}, {}),
         NEW resolved \in BOOLEAN
  PROVE  Good(cloud_manager_register_async(c0, resolved), m, st, {}, {})
<1> DEFINE c == SetEndpoint(c0, resolved)
           d == Retry(c, "register")
           sent == Send(c, "register", Closing)
           e == cloud_manager_register_async(c0, resolved)
           n == [manager |-> m.manager, hears |-> m.hears, registered |-> FALSE]
           O == {}
           X == {}
<1>1. e = IF c.status # {} THEN c0
          ELSE IF CanSend(c, "register") THEN SetCps(sent, "registering")
          ELSE IF Exhausted(c, "register") THEN SetCps(d, "failed") ELSE d
  BY DEF cloud_manager_register_async
<1>2. Good(c, m, st, O, X)
  BY SetEndpointGood
<1> HIDE DEF c, e
<1>3. /\ "register" \in Action /\ "failed" \in Cps /\ "registering" \in Cps
      /\ "register" \in Kind
  BY DEF Action, Cps, Kind, ManagerRequest
<1>4. Good(d, m, st, O, X)
  BY <1>2, <1>3, RetryGood
<1> HIDE DEF d
<1>5. Good(SetCps(d, "failed"), m, st, O, X)
  BY <1>3, <1>4, SetCpsGood DEF O, X
<1>6. ASSUME c.status = {}
      PROVE  Good(SetCps(sent, "registering"), m, st, O, X)
  <2>1. Good(c, n, st, O, X)
    BY <1>2, <1>6 DEF Good, Base, Kept, Registered
  <2>2. ~n.registered /\ n.manager = m.manager /\ n.hears = m.hears
    OBVIOUS
  <2> HIDE DEF n, O, X
  <2>3. Good(c, n, st, O \cup {"register"}, X \cup X)
    BY <2>1, GoodMonotone
  <2>4. X \cup X = X
    OBVIOUS
  <2>5. Good(sent, n, st, O, X)
    BY <1>3, <2>2, <2>3, <2>4, AllClose, SendGood
  <2> HIDE DEF sent
  <2>6. Good(sent, m, st, O, X)
    BY <2>2, <2>5 DEF Good, Base, Kept
  <2> QED
    BY <1>3, <2>6, SetCpsGood
<1>7. Good(c0, m, st, O, X)
  BY DEF O, X
<1> HIDE DEF O, X, sent
<1>8. Good(e, m, st, O, X)
  BY <1>1, <1>4, <1>5, <1>6, <1>7
<1> QED
  BY <1>8 DEF O, X, e

LEMMA SendOrRetryGood ==
  ASSUME NEW c0, NEW m, NEW st, NEW kind \in {"login", "refresh"},
         Good(c0, m, st, {kind}, {}), NEW resolved \in BOOLEAN
  PROVE  Good(SendOrRetry(c0, kind, resolved), m, st, {}, {})
<1> DEFINE c == SetEndpoint(c0, resolved)
           d == Retry(c, kind)
           sent == Send(c, kind, Closing)
           e == SendOrRetry(c0, kind, resolved)
           K == {kind}
           O == {}
           X == {}
<1>1. e = IF CanSend(c, kind) THEN sent
          ELSE IF Exhausted(c, kind) THEN Reconnect(d) ELSE d
  BY DEF SendOrRetry
<1>2. Good(c, m, st, K, X)
  BY SetEndpointGood
<1> HIDE DEF c, e
<1>3. kind \in Action /\ kind \in Answered /\ kind \in Kind /\ kind \in Step
  BY DEF Action, Answered, Kind, ManagerRequest, DeregisterRequest, Step,
         Timer, ManagerTimer
<1>4. /\ Good(d, m, st, K, X)
      /\ Exhausted(c, kind) \/ kind \in Cbs(d)
  <2> HIDE DEF K, X
  <2> QED
    BY <1>2, <1>3, RetryGood
<1> HIDE DEF d
<1>5. Good(sent, m, st, O, X)
  <2>1. Good(c, m, st, O \cup {kind}, X)
    <3>1. O \cup {kind} = K
      OBVIOUS
    <3> QED
      BY <1>2, <3>1
  <2> HIDE DEF O, X
  <2> QED
    BY <1>3, <2>1, AllClose, SendGood
<1>6. Good(Reconnect(d), m, st, K, X) /\ Cbs(Reconnect(d)) \cap Step # {}
  <2> HIDE DEF K, X
  <2> QED
    BY <1>4, ReconnectGood
<1>7. Good(Reconnect(d), m, st, {}, {})
  BY <1>6, Settled
<1>8. ~Exhausted(c, kind) => Good(d, m, st, {}, {})
  BY <1>3, <1>4, Settled
<1> HIDE DEF sent
<1>9. Good(e, m, st, {}, {})
  BY <1>1, <1>5, <1>7, <1>8
<1> QED
  BY <1>9 DEF e

LEMMA LoginAsyncGood ==
  ASSUME NEW c, NEW m, NEW st, Good(c, m, st, {"login"}, {}),
         NEW resolved \in BOOLEAN
  PROVE  Good(cloud_manager_login_async(c, resolved), m, st, {}, {})
<1>1. Good(SendOrRetry(c, "login", resolved), m, st, {}, {})
  BY SendOrRetryGood
<1>2. ~Registered(c) => Good(c, m, st, {}, {})
  BY Settled
<1> QED
  BY <1>1, <1>2 DEF cloud_manager_login_async

LEMMA RefreshAsyncGood ==
  ASSUME NEW c, NEW m, NEW st, Good(c, m, st, {"refresh"}, {}),
         NEW resolved \in BOOLEAN
  PROVE  Good(cloud_manager_refresh_token_async(c, resolved), m, st, {}, {})
<1> DEFINE d == Unset(c, {"ping"})
<1>1. Good(d, m, st, {"refresh"}, {})
  <2>1. {"ping"} \cap Step = {}
    BY DEF Step
  <2> QED
    BY <2>1, UnsetGood
<1> HIDE DEF d
<1>2. Good(SendOrRetry(d, "refresh", resolved), m, st, {}, {})
  BY <1>1, SendOrRetryGood
<1>3. ~Registered(c) => Good(c, m, st, {}, {})
  BY Settled
<1> QED
  BY <1>2, <1>3 DEF d, cloud_manager_refresh_token_async

-----------------------------------------------------------------------------
(* The delayed callbacks of the deregistration *)

LEMMA DoLoginGood ==
  ASSUME NEW c, NEW m, NEW st, Base(c, m, st)
  PROVE  Good(DoLogin(c), m, st, {}, {})
<1>1. /\ Good(ByRequest(c, Closing), m, st, {}, {})
      /\ Good(SendOrClear(c, "api_login", Closing), m, st, {}, {})
      /\ Good(cloud_context_clear(c, Closing), m, st, {}, {})
  BY AllClose, ByRequestGood, SendOrClearGood, ClearGood
  DEF DeregisterRequest
<1> QED
  BY <1>1 DEF DoLogin

LEMMA DoDeregisterGood ==
  ASSUME NEW c0, NEW m, NEW st, Good(c0, m, st, {"login"}, {})
  PROVE  Good(oc_cloud_do_deregister(c0), m, st, {}, {})
<1> DEFINE c == SetCps(c0, "deregistering")
<1>1. Base(c0, m, st) /\ Base(c, m, st)
  BY SetCpsBase DEF Good, Cps
<1> HIDE DEF c
<1>2. Good(cloud_context_clear(c0, Closing), m, st, {}, {})
  BY <1>1, AllClose, ClearGood
<1>3. /\ Good(ByRequest(c, Closing), m, st, {}, {})
      /\ Good(SendOrClear(c, "api_refresh", Closing), m, st, {}, {})
      /\ Good(DoLogin(c), m, st, {}, {})
  BY <1>1, AllClose, ByRequestGood, SendOrClearGood, DoLoginGood
  DEF DeregisterRequest
<1>4. ASSUME c0.cps = "deregistering"
      PROVE  Good(c0, m, st, {}, {})
  <2>1. \/ Cbs(c0) \cap {"refreshed", "start"} # {}
        \/ Kinds(c0) \cap DeregisterRequest # {}
    BY <1>4 DEF Good, Deregisters, DeregisterRequest
  <2>2. {"refreshed", "start"} \subseteq Step /\ DeregisterRequest \subseteq Answered
    BY DEF Step, Timer, DeregisterTimer, Answered, DeregisterRequest
  <2> QED
    BY <1>1, <2>1, <2>2 DEF Good, Tries, Deregisters
<1> QED
  BY <1>2, <1>3, <1>4 DEF c, oc_cloud_do_deregister

LEMMA RefreshedGood ==
  ASSUME NEW c, NEW m, NEW st, Base(c, m, st)
  PROVE  Good(cloud_deregister_refreshed_token_async(c), m, st, {}, {})
<1>1. /\ Good(ByRequest(c, Closing), m, st, {}, {})
      /\ Good(DoLogin(c), m, st, {}, {})
  BY AllClose, ByRequestGood, DoLoginGood
<1> QED
  BY <1>1 DEF cloud_deregister_refreshed_token_async

LEMMA CloudResetGood ==
  ASSUME NEW c, NEW m, NEW st, Good(c, m, st, {}, {})
  PROVE  Good(cloud_reset(c), m, st, {}, {})
<1> DEFINE d == Unset(c, ManagerTimer)
           e == Set(d, "on_reset", TRUE)
           O == {"login"}
           X == {}
<1>1. Good(cloud_context_clear(c, Closing), m, st, {}, {})
  BY AllClose, ClearGood DEF Good
<1>2. O \cap Answered # {}
  BY DEF Answered, ManagerRequest, DeregisterRequest
<1>3. Good(c, m, st, O, X)
  BY OwedLogin DEF Good
<1> HIDE DEF O, X
<1>4. Good(d, m, st, O, X)
  BY <1>2, <1>3, UnsetGood DEF ManagerTimer
<1> HIDE DEF d
<1>5. Formed(e) /\ Same(d, e, {"timers"}) /\ Cbs(e) = Cbs(d) \cup {"on_reset"}
  BY <1>4, SetIs DEF Good, Base, Timer, DeregisterTimer
<1> HIDE DEF e
<1>6. Same(d, e, Bookkeeping) /\ Cbs(d) \subseteq Cbs(e)
  BY <1>5 DEF Same, Bookkeeping
<1>7. Good(e, m, st, O, X)
  BY <1>4, <1>5, <1>6, GoodGrows
<1>8. "on_reset" \in Step
  BY DEF Step, Timer, DeregisterTimer
<1>9. Good(e, m, st, {}, {})
  BY <1>5, <1>7, <1>8, Settled DEF O, X
<1> QED
  BY <1>1, <1>9 DEF e, d, cloud_reset, cloud_manager_stop

-----------------------------------------------------------------------------
(* The invariant *)

StoredType == [status : SUBSET Status, cps : Cps, access : Token,
               refresh : BOOLEAN, sel : Server, num : 1..NumServers]

\* The context is sound, with nothing owed and no session about to be closed,
\* and a device that would find itself registered has its refresh token.
IInv ==
  /\ Good(ctx, Frame(ctx), stored, {}, {})
  /\ ctx.hears = ctx.manager
  /\ stored \in StoredType
  /\ "registered" \in stored.status => stored.refresh
  /\ calls \in 0..MaxCalls /\ faults \in 0..MaxFaults

\* What an operation makes of c is sound by itself.
LEMMA Carries ==
  ASSUME NEW c, NEW d, NEW st, Good(d, Frame(c), st, {}, {}),
         c.hears = c.manager
  PROVE  Good(d, Frame(d), st, {}, {}) /\ d.hears = d.manager
<1>1. d.manager = c.manager /\ d.hears = c.hears
  BY DEF Good, Base, Kept, Frame
<1>2. Frame(d) = Frame(c)
  BY <1>1 DEF Frame
<1> QED
  BY <1>1, <1>2

\* The manager is started or stopped.
LEMMA FrameGood ==
  ASSUME NEW c, NEW d, NEW m, NEW st, NEW owed, NEW X, Good(c, m, st, owed, X),
         Formed(d), Same(c, d, {"manager", "hears"}),
         d.hears /\ Registered(d) /\ ~LoggedIn(d) => Cbs(d) \cap Step # {}
  PROVE  Good(d, Frame(d), st, owed, X)
<1>1. /\ d.timers = c.timers /\ d.status = c.status /\ d.cps = c.cps
      /\ d.refresh = c.refresh /\ d.access = c.access /\ d.sel = c.sel
      /\ d.num = c.num /\ d.reqs = c.reqs
  BY DEF Same, Field
<1>2. Kept(d, Frame(d))
  BY DEF Kept, Frame
<1>3. Base(d, Frame(d), st)
  BY <1>1, <1>2 DEF Good, Base, Signs, Saved, Registered, Cbs
<1>4. Tries(d, owed, X)
  BY DEF Tries
<1>5. Deregisters(d, owed)
  BY <1>1 DEF Good, Deregisters, Cbs, Kinds
<1> QED
  BY <1>3, <1>4, <1>5 DEF Good

LEMMA StartedGood ==
  ASSUME NEW c0, NEW m, NEW st, Base(c0, m, st), Deregisters(c0, {})
  PROVE  LET d == Started(c0)
         IN  Good(d, Frame(d), st, {}, {}) /\ d.hears = d.manager
<1> DEFINE b == cloud_start_process(c0)
           c == [b EXCEPT !.manager = TRUE, !.hears = TRUE]
           d == IF c.begun THEN c ELSE RegistrationInit(c)
           O == {}
           X == {}
<1>1. d = Started(c0)
  BY DEF Started
<1>2. /\ Good(b, m, st, O, X)
      /\ Registered(b) => Cbs(b) \cap Step # {}
  BY StartProcessGood
<1> HIDE DEF b, O, X
<1>3. b \in Context /\ OnceIn(b.timers)
  BY <1>2 DEF Good, Base, Formed
<1>4. /\ c \in Context /\ Same(b, c, {"manager", "hears"})
      /\ c.manager = TRUE /\ c.hears = TRUE
  BY <1>3 DEF Context, Same, Field
<1> HIDE DEF c
<1>5. c.timers = b.timers /\ c.status = b.status
  BY <1>4 DEF Same, Field
<1>6. Formed(c) /\ (Registered(c) => Cbs(c) \cap Step # {})
  BY <1>2, <1>3, <1>4, <1>5 DEF Formed, Registered, Cbs
<1>7. Good(c, Frame(c), st, O, X)
  BY <1>2, <1>4, <1>6, FrameGood
<1>8. Good(RegistrationInit(c), Frame(c), st, O, X)
  BY <1>7, RegistrationGood
<1>9. Good(d, Frame(c), st, O, X)
  BY <1>7, <1>8
<1> HIDE DEF d
<1>10. Good(d, Frame(d), st, {}, {}) /\ d.hears = d.manager
  BY <1>4, <1>9, Carries DEF O, X
<1> QED
  BY <1>1, <1>10

LEMMA BootGood ==
  ASSUME NEW c, NEW st, Formed(c), Signs(c), ~c.hears, ~c.manager,
         c.cps # "deregistering", NEW d \in Boot(c)
  PROVE  Good(d, Frame(d), st, {}, {}) /\ d.hears = d.manager
<1> DEFINE e == Dump(c)
<1>1. c.hears = c.manager
  BY DEF Formed, Context
<1>2. Formed(e) /\ Same(c, e, {"timers"}) /\ Cbs(e) = Cbs(c) \cup {"dump"}
  BY DumpIs
<1>3. d = e \/ d = Started(e)
  BY DEF Boot
<1> HIDE DEF e
<1>4. /\ e.manager = c.manager /\ e.hears = c.hears /\ e.refresh = c.refresh
      /\ e.status = c.status /\ e.cps = c.cps
  BY <1>2 DEF Same, Field
<1>5. Base(e, Frame(e), st)
  BY <1>2, <1>4 DEF Base, Kept, Frame, Signs, Saved, Registered
<1>6. Tries(e, {}, {}) /\ Deregisters(e, {})
  BY <1>4 DEF Tries, Deregisters
<1>7. CASE d = e
  BY <1>1, <1>4, <1>5, <1>6, <1>7 DEF Good
<1>8. CASE d = Started(e)
  BY <1>5, <1>6, <1>8, StartedGood
<1> QED
  BY <1>3, <1>7, <1>8

LEMMA StoreOfIs ==
  ASSUME NEW c \in Context
  PROVE  /\ StoreOf(c) \in StoredType
         /\ StoreOf(c).status = c.status /\ StoreOf(c).cps = c.cps
         /\ StoreOf(c).access = c.access /\ StoreOf(c).refresh = c.refresh
         /\ StoreOf(c).sel = c.sel /\ StoreOf(c).num = c.num
  BY DEF StoreOf, Store, StoredType, Context

LEMMA FreshIs ==
  /\ Formed(Fresh) /\ Signs(Fresh) /\ ~Fresh.hears /\ ~Fresh.manager
  /\ Fresh.cps # "deregistering" /\ Fresh.status = {}
<1>1. Fresh \in Context
  <2>1. /\ NumServers \in Nat \ {0} /\ Default \in Server
        /\ 1 \in 1..NumServers /\ 0 \in 0..NumServers - 1
    BY ServersAssumption DEF Server, Default
  <2>2. [s \in Server |-> "none"] \in [Server -> Session]
    BY DEF Session
  <2>3. /\ <<>> \in Seq(Callback) /\ <<>> \in Seq(RequestsOf(Endpoint))
        /\ [conn |-> 0, token |-> 0] \in [conn : Nat, token : Nat]
        /\ {} \in SUBSET Status /\ "uninitialized" \in Cps /\ "none" \in Token
        /\ NoServer \in Endpoint
    BY DEF Cps, Token, Endpoint
  <2> QED
    BY <2>1, <2>2, <2>3 DEF Fresh, Context
<1>2. OnceIn(Fresh.timers)
  BY DEF OnceIn, Fresh
<1> QED
  BY <1>1, <1>2 DEF Formed, Signs, Registered, Fresh

LEMMA InitIInv == Init => IInv
<1> SUFFICES ASSUME Init PROVE IInv
  OBVIOUS
<1>1. Good(ctx, Frame(ctx), stored, {}, {}) /\ ctx.hears = ctx.manager
  BY FreshIs, BootGood DEF Init
<1>2. stored \in StoredType /\ stored.status = {}
  BY FreshIs, StoreOfIs DEF Init, Formed
<1>3. calls \in 0..MaxCalls /\ faults \in 0..MaxFaults
  BY BoundsAssumption DEF Init
<1> QED
  BY <1>1, <1>2, <1>3 DEF IInv

-----------------------------------------------------------------------------
(* Every step keeps the invariant *)

\* A step after which the context is sound and the store as it was
LEMMA KeepsIInv ==
  ASSUME IInv, Good(ctx', Frame(ctx), stored, {}, {}), stored' = stored,
         calls' \in 0..MaxCalls, faults' \in 0..MaxFaults
  PROVE  IInv'
<1>1. Good(ctx', Frame(ctx'), stored', {}, {}) /\ ctx'.hears = ctx'.manager
  BY Carries DEF IInv
<1> QED
  BY <1>1 DEF IInv

LEMMA FirstDueIs ==
  ASSUME IInv, Due # {}
  PROVE  FirstDue \in 1..Len(ctx.timers)
<1>1. ctx.timers \in Seq(Callback)
  BY DEF IInv, Good, Base, Formed, Context
<1>2. Due \subseteq 1..Len(ctx.timers) /\ Due \subseteq Nat
  BY <1>1 DEF Due
<1>3. \E i \in Due : \A j \in Due : i <= j
  BY <1>2, LeastOf
<1>4. FirstDue \in Due
  BY <1>3 DEF FirstDue
<1> QED
  BY <1>2, <1>4

LEMMA RanIs ==
  ASSUME IInv, Due # {}, NEW cb, Runs(cb)
  PROVE  /\ Formed(Ran) /\ Same(ctx, Ran, {"timers"})
         /\ Cbs(ctx) \subseteq Cbs(Ran) \cup {cb}
<1> DEFINE list == RemoveAt(ctx.timers, FirstDue)
<1>1. Formed(ctx)
  BY DEF IInv, Good, Base
<1>2. ctx.timers \in Seq(Callback) /\ OnceIn(ctx.timers)
  BY <1>1, TimersOf
<1>3. /\ list \in Seq(Callback) /\ OnceIn(list)
      /\ Names(ctx.timers) \subseteq Names(list) \cup {ctx.timers[FirstDue].cb}
  BY <1>2, FirstDueIs, RemoveTimer
<1>4. Ran = [ctx EXCEPT !.timers = list]
  BY DEF Ran
<1> HIDE DEF list
<1>5. Formed(Ran) /\ Same(ctx, Ran, {"timers"}) /\ Cbs(Ran) = Names(list)
  BY <1>1, <1>3, <1>4, PutTimers
<1>6. ctx.timers[FirstDue].cb = cb
  BY DEF Runs
<1> QED
  BY <1>3, <1>5, <1>6 DEF Cbs

LEMMA RanGood ==
  ASSUME IInv, Due # {}, NEW cb, Runs(cb), cb # "dump"
  PROVE  LET m == Frame(ctx)
         IN  /\ Base(Ran, m, stored) /\ Ran.manager = Ran.hears
             /\ cb \notin {"refreshed", "start"} =>
                  /\ Good(Ran, m, stored, {"login"}, {})
                  /\ Good(Ran, m, stored, {"refresh"}, {})
             /\ cb \notin Step => Good(Ran, m, stored, {}, {})
<1> DEFINE m == Frame(ctx)
           S == {cb}
           X == {}
<1>1. /\ Formed(Ran) /\ Same(ctx, Ran, {"timers"})
      /\ Cbs(ctx) \subseteq Cbs(Ran) \cup S
  BY RanIs
<1>2. Same(ctx, Ran, Bookkeeping) /\ Ran.manager = Ran.hears
  <2>1. Same(ctx, Ran, Bookkeeping)
    BY <1>1 DEF Same, Bookkeeping
  <2>2. Ran.manager = ctx.manager /\ Ran.hears = ctx.hears
    BY <1>1 DEF Same, Field
  <2> QED
    BY <2>1, <2>2 DEF IInv
<1>3. Good(ctx, m, stored, {}, X) /\ "dump" \notin S
  BY DEF IInv
<1>4. /\ cb \notin {"refreshed", "start"} =>
           S \cap {"dump", "refreshed", "start"} = {}
      /\ cb \notin Step => S \cap Step = {}
  OBVIOUS
<1> HIDE DEF m, S
<1>5. Base(Ran, m, stored)
  <2>1. Base(ctx, m, stored)
    BY <1>3 DEF Good
  <2> QED
    BY <1>1, <1>2, <1>3, <2>1, BaseMore
<1>6. ASSUME cb \notin {"refreshed", "start"}, NEW kind \in {"login", "refresh"}
      PROVE  Good(Ran, m, stored, {kind}, {})
  <2> DEFINE O == {kind}
  <2>1. O \cap Answered # {}
    BY DEF Answered, ManagerRequest, DeregisterRequest
  <2>2. Good(ctx, m, stored, {} \cup O, X \cup X)
    BY <1>3, GoodMonotone
  <2>3. {} \cup O = O /\ X \cup X = X
    OBVIOUS
  <2> HIDE DEF O, X
  <2>4. Good(ctx, m, stored, O, X)
    BY <2>2, <2>3
  <2>5. Good(Ran, m, stored, O, X)
    BY <1>1, <1>2, <1>4, <1>6, <2>1, <2>4, GoodMore
  <2> QED
    BY <2>5 DEF O, X
<1>7. ASSUME cb \notin Step
      PROVE  Good(Ran, m, stored, {}, {})
  <2>1. cb \notin {"refreshed", "start"}
    BY <1>7 DEF Step, Timer, DeregisterTimer
  <2> DEFINE O == {}
  <2> HIDE DEF X
  <2>2. Good(ctx, m, stored, O, X)
    BY <1>3
  <2> HIDE DEF O
  <2>3. Good(Ran, m, stored, O, X)
    BY <1>1, <1>2, <1>4, <1>7, <2>1, <2>2, GoodMore
  <2> QED
    BY <2>3 DEF O, X
<1> QED
  BY <1>2, <1>5, <1>6, <1>7 DEF m

LEMMA FaultyType ==
  ASSUME IInv, NEW fault \in BOOLEAN, Faulty(fault)
  PROVE  faults' \in 0..MaxFaults
<1>1. faults \in 0..MaxFaults /\ MaxFaults \in Nat
  BY BoundsAssumption DEF IInv
<1> QED
  BY <1>1 DEF Faulty

LEMMA CalledType ==
  ASSUME IInv, NEW call, Called(call)
  PROVE  calls' \in 0..MaxCalls
<1>1. calls \in 0..MaxCalls /\ MaxCalls \in Nat
  BY BoundsAssumption DEF IInv
<1> QED
  BY <1>1 DEF Called

LEMMA RunRequestInv == IInv /\ RunRequest => IInv'
<1> SUFFICES ASSUME IInv, RunRequest PROVE IInv'
  OBVIOUS
<1> DEFINE m == Frame(ctx)
<1>1. PICK resolved \in BOOLEAN :
        /\ Faulty(~resolved)
        /\ \/ /\ Runs("register")
              /\ ctx' = cloud_manager_register_async(Ran, resolved)
           \/ /\ Runs("login")
              /\ ctx' = cloud_manager_login_async(Ran, resolved)
           \/ /\ Runs("refresh")
              /\ ctx' = cloud_manager_refresh_token_async(Ran, resolved)
  BY DEF RunRequest
<1>2. Due # {} /\ stored' = stored /\ calls' = calls
  BY DEF RunRequest
<1>3. faults' \in 0..MaxFaults /\ calls' \in 0..MaxCalls
  BY <1>1, <1>2, FaultyType DEF IInv
<1> HIDE DEF m
<1>4. Good(ctx', m, stored, {}, {})
  <2>1. CASE /\ Runs("register")
             /\ ctx' = cloud_manager_register_async(Ran, resolved)
    <3>1. "register" \notin Step
      BY DEF Step
    <3>2. Good(Ran, m, stored, {}, {})
      BY <1>2, <2>1, <3>1, RanGood DEF m
    <3> QED
      BY <2>1, <3>2, RegisterAsyncGood
  <2>2. CASE /\ Runs("login")
             /\ ctx' = cloud_manager_login_async(Ran, resolved)
    <3>1. Good(Ran, m, stored, {"login"}, {})
      BY <1>2, <2>2, RanGood DEF m
    <3> QED
      BY <2>2, <3>1, LoginAsyncGood
  <2>3. CASE /\ Runs("refresh")
             /\ ctx' = cloud_manager_refresh_token_async(Ran, resolved)
    <3>1. Good(Ran, m, stored, {"refresh"}, {})
      BY <1>2, <2>3, RanGood DEF m
    <3> QED
      BY <2>3, <3>1, RefreshAsyncGood
  <2> QED
    BY <1>1, <2>1, <2>2, <2>3
<1> QED
  BY <1>2, <1>3, <1>4, KeepsIInv DEF m

LEMMA RunManagerInv == IInv /\ RunManager => IInv'
<1> SUFFICES ASSUME IInv, RunManager PROVE IInv'
  OBVIOUS
<1> DEFINE m == Frame(ctx)
<1>1. /\ Due # {} /\ stored' = stored /\ calls' \in 0..MaxCalls
      /\ faults' \in 0..MaxFaults
  BY DEF RunManager, IInv
<1>2. \/ Runs("ping") /\ ctx' = cloud_manager_send_ping_async(Ran)
      \/ Runs("reconnect") /\ ctx' = cloud_manager_reconnect_async(Ran)
      \/ Runs("callback") /\ ctx' = cloud_manager_callback_handler_async(Ran)
      \/ Runs("restart") /\ ctx' = restart_manager(Ran)
      \/ Runs("start") /\ ctx' = start_manager(Ran)
  BY DEF RunManager
<1> HIDE DEF m
<1>3. "ping" \notin Step /\ "callback" \notin Step
  BY DEF Step
<1>4. Good(ctx', m, stored, {}, {})
  <2>1. CASE Runs("ping") /\ ctx' = cloud_manager_send_ping_async(Ran)
    <3>1. Good(Ran, m, stored, {}, {})
      BY <1>1, <1>3, <2>1, RanGood DEF m
    <3> QED
      BY <2>1, <3>1, PingAsyncGood
  <2>2. CASE Runs("reconnect") /\ ctx' = cloud_manager_reconnect_async(Ran)
    <3>1. Good(Ran, m, stored, {"login"}, {}) /\ Ran.manager = Ran.hears
      BY <1>1, <2>2, RanGood DEF m
    <3> QED
      BY <2>2, <3>1, ReconnectAsyncGood
  <2>3. CASE Runs("callback") /\ ctx' = cloud_manager_callback_handler_async(Ran)
    <3>1. Good(Ran, m, stored, {}, {})
      BY <1>1, <1>3, <2>3, RanGood DEF m
    <3> QED
      BY <2>3, <3>1, CallbackGood
  <2>4. CASE Runs("restart") /\ ctx' = restart_manager(Ran)
    <3>1. Good(Ran, m, stored, {"login"}, {}) /\ Ran.manager = Ran.hears
      BY <1>1, <2>4, RanGood DEF m
    <3> QED
      BY <2>4, <3>1, RestartManagerGood
  <2>5. CASE Runs("start") /\ ctx' = start_manager(Ran)
    <3>1. Base(Ran, m, stored)
      BY <1>1, <2>5, RanGood DEF m
    <3> QED
      BY <2>5, <3>1, StartManagerGood
  <2> QED
    BY <1>2, <2>1, <2>2, <2>3, <2>4, <2>5
<1> QED
  BY <1>1, <1>4, KeepsIInv DEF m

LEMMA RunDeregisterInv == IInv /\ RunDeregister => IInv'
<1> SUFFICES ASSUME IInv, RunDeregister PROVE IInv'
  OBVIOUS
<1> DEFINE m == Frame(ctx)
<1>1. /\ Due # {} /\ stored' = stored /\ calls' \in 0..MaxCalls
      /\ faults' \in 0..MaxFaults
  BY DEF RunDeregister, IInv
<1>2. \/ Runs("on_reset") /\ ctx' = oc_cloud_do_deregister(Ran)
      \/ Runs("refreshed") /\ ctx' = cloud_deregister_refreshed_token_async(Ran)
      \/ Runs("clear") /\ ctx' = cloud_context_clear(Ran, Closing)
  BY DEF RunDeregister
<1> HIDE DEF m
<1>3. Good(ctx', m, stored, {}, {})
  <2>1. CASE Runs("on_reset") /\ ctx' = oc_cloud_do_deregister(Ran)
    <3>1. Good(Ran, m, stored, {"login"}, {})
      BY <1>1, <2>1, RanGood DEF m
    <3> QED
      BY <2>1, <3>1, DoDeregisterGood
  <2>2. CASE /\ Runs("refreshed")
             /\ ctx' = cloud_deregister_refreshed_token_async(Ran)
    <3>1. Base(Ran, m, stored)
      BY <1>1, <2>2, RanGood DEF m
    <3> QED
      BY <2>2, <3>1, RefreshedGood
  <2>3. CASE Runs("clear") /\ ctx' = cloud_context_clear(Ran, Closing)
    <3>1. Base(Ran, m, stored)
      BY <1>1, <2>3, RanGood DEF m
    <3> QED
      BY <2>3, <3>1, AllClose, ClearGood
  <2> QED
    BY <1>2, <2>1, <2>2, <2>3
<1> QED
  BY <1>1, <1>3, KeepsIInv DEF m

\* What was about to be saved is saved.
LEMMA RunDumpInv == IInv /\ RunDump => IInv'
<1> SUFFICES ASSUME IInv, RunDump PROVE IInv'
  OBVIOUS
<1> DEFINE st == StoreOf(ctx)
<1>1. /\ Due # {} /\ Runs("dump") /\ ctx' = Ran /\ stored' = st
      /\ calls' = calls /\ faults' = faults
  BY DEF RunDump
<1>2. Good(ctx, Frame(ctx), stored, {}, {}) /\ ctx \in Context
  BY DEF IInv, Good, Base, Formed
<1>3. /\ st \in StoredType /\ st.status = ctx.status
      /\ st.access = ctx.access /\ st.refresh = ctx.refresh
      /\ st.sel = ctx.sel /\ st.num = ctx.num
  BY <1>2, StoreOfIs
<1> HIDE DEF st
<1>4. /\ Formed(Ran) /\ Same(ctx, Ran, {"timers"})
      /\ Cbs(ctx) \subseteq Cbs(Ran) \cup {"dump"}
  BY <1>1, RanIs
<1>5. /\ Ran.manager = ctx.manager /\ Ran.hears = ctx.hears
      /\ Ran.status = ctx.status /\ Ran.cps = ctx.cps /\ Ran.ep = ctx.ep
      /\ Ran.up = ctx.up /\ Ran.peer = ctx.peer /\ Ran.reqs = ctx.reqs
      /\ Ran.access = ctx.access /\ Ran.refresh = ctx.refresh
      /\ Ran.sel = ctx.sel /\ Ran.num = ctx.num
  BY <1>4 DEF Same, Field
<1>6. Base(Ran, Frame(ctx), st)
  BY <1>2, <1>3, <1>4, <1>5 DEF Good, Base, Kept, Signs, Saved, Registered
<1>7. Kinds(Ran) = Kinds(ctx) /\ (Excused(Ran, {}) <=> Excused(ctx, {}))
  BY <1>5 DEF Kinds, Excused
<1>8. "dump" \notin Step
  BY DEF Step
<1>9. Tries(Ran, {}, {})
  BY <1>2, <1>4, <1>5, <1>7, <1>8 DEF Good, Tries, Registered, LoggedIn
<1>10. Deregisters(Ran, {})
  BY <1>2, <1>4, <1>5, <1>7 DEF Good, Deregisters
<1>11. Good(Ran, Frame(ctx), st, {}, {})
  BY <1>6, <1>9, <1>10 DEF Good
<1>12. Good(Ran, Frame(Ran), st, {}, {}) /\ Ran.hears = Ran.manager
  BY <1>11, Carries DEF IInv
<1>13. "registered" \in st.status => st.refresh
  BY <1>2, <1>3 DEF Good, Base, Signs, Registered
<1>14. IInv' = (/\ Good(Ran, Frame(Ran), st, {}, {}) /\ Ran.hears = Ran.manager
                /\ st \in StoredType
                /\ ("registered" \in st.status => st.refresh)
                /\ calls \in 0..MaxCalls /\ faults \in 0..MaxFaults)
  BY <1>1 DEF IInv
<1> QED
  BY <1>3, <1>12, <1>13, <1>14 DEF IInv

LEMMA ExpireInv == \A cb \in Timer : IInv /\ Expire(cb) => IInv'
<1> SUFFICES ASSUME NEW cb \in Timer, IInv, Expire(cb) PROVE IInv'
  OBVIOUS
<1>1. PICK i \in DOMAIN ctx.timers : ctx' = [ctx EXCEPT !.timers[i].due = TRUE]
  BY DEF Expire
<1>2. /\ stored' = stored /\ calls' \in 0..MaxCalls
      /\ faults' \in 0..MaxFaults
  BY DEF Expire, IInv
<1> DEFINE list == ctx.timers
           t == [list[i] EXCEPT !.due = TRUE]
           new == [list EXCEPT ![i] = t]
<1>3. Formed(ctx) /\ Good(ctx, Frame(ctx), stored, {}, {})
  BY DEF IInv, Good, Base
<1>4. list \in Seq(Callback) /\ OnceIn(list)
  BY <1>3, TimersOf
<1>5. ctx' = [ctx EXCEPT !.timers = new]
  BY <1>1
<1>6. i \in 1..Len(list) /\ list[i] \in Callback
  BY <1>4
<1> HIDE DEF list
<1>7. t \in Callback /\ t.cb = list[i].cb
  BY <1>6 DEF Callback
<1> HIDE DEF t
<1>8. /\ new \in Seq(Callback) /\ Len(new) = Len(list)
      /\ \A j \in 1..Len(list) : new[j] = IF j = i THEN t ELSE list[j]
  BY <1>4, <1>6, <1>7
<1> HIDE DEF new
<1>9. \A j \in 1..Len(list) : new[j].cb = list[j].cb
  BY <1>7, <1>8
<1>10. OnceIn(new) /\ Names(new) = Names(list)
  BY <1>4, <1>8, <1>9 DEF OnceIn, Names
<1> DEFINE d == [ctx EXCEPT !.timers = new]
<1>11. Formed(d) /\ Same(ctx, d, {"timers"}) /\ Cbs(d) = Names(new)
  BY <1>3, <1>8, <1>10, PutTimers
<1> HIDE DEF d
<1>12. Same(ctx, d, Bookkeeping) /\ Cbs(ctx) \subseteq Cbs(d)
  BY <1>10, <1>11 DEF Same, Bookkeeping, Cbs, list
<1>13. Good(d, Frame(ctx), stored, {}, {})
  BY <1>3, <1>11, <1>12, GoodGrows
<1> QED
  BY <1>2, <1>5, <1>13, KeepsIInv DEF d

\* The handler of the request that was answered is called.
LEMMA RespondGood ==
  ASSUME IInv, NEW i \in DOMAIN ctx.reqs, NEW code, NEW token,
         code = "ok" => token \in Issued, Respond(i, code, token)
  PROVE  Good(ctx', Frame(ctx), stored, {}, {})
<1> DEFINE kind == ctx.reqs[i].kind
           d == [ctx EXCEPT !.reqs = RemoveAt(@, i)]
           m == Frame(ctx)
           O == {}
           X == {}
<1>1. ctx' = Handle(d, kind, code, token, Closing)
  BY DEF Respond
<1>2. Good(ctx, m, stored, O, X) /\ m.registered
  BY DEF IInv, Frame
<1> HIDE DEF m, O, X
<1>3. kind \in Kind /\ Good(d, m, stored, O \cup {kind}, X)
  BY <1>2, TakenGood
<1> HIDE DEF d, kind
<1>4. Good(Handle(d, kind, code, token, Closing), m, stored, O, X)
  BY <1>2, <1>3, AllClose, HandleGood
<1> QED
  BY <1>1, <1>4 DEF m, O, X

LEMMA AnswerInv == \A kind \in Kind : IInv /\ Answer(kind) => IInv'
<1> SUFFICES ASSUME NEW kind \in Kind, IInv, Answer(kind) PROVE IInv'
  OBVIOUS
<1>1. PICK i \in DOMAIN ctx.reqs, code \in Code, token \in Issued :
        Faulty(code # "ok") /\ Respond(i, code, token)
  BY DEF Answer
<1>2. stored' = stored /\ calls' \in 0..MaxCalls
  BY DEF Answer, IInv
<1>3. faults' \in 0..MaxFaults
  BY <1>1, FaultyType
<1>4. Good(ctx', Frame(ctx), stored, {}, {})
  BY <1>1, RespondGood
<1> QED
  BY <1>2, <1>3, <1>4, KeepsIInv

LEMMA TimeoutInv == IInv /\ Timeout => IInv'
<1> SUFFICES ASSUME IInv, Timeout PROVE IInv'
  OBVIOUS
<1>1. PICK i \in DOMAIN ctx.reqs :
        Faulty(ctx.reqs[i].server # NoServer) /\ Respond(i, "timeout", "none")
  BY DEF Timeout
<1>2. stored' = stored /\ calls' \in 0..MaxCalls
  BY DEF Timeout, IInv
<1>3. faults' \in 0..MaxFaults
  BY <1>1, FaultyType
<1>4. Good(ctx', Frame(ctx), stored, {}, {})
  BY <1>1, RespondGood
<1> QED
  BY <1>2, <1>3, <1>4, KeepsIInv

LEMMA ConnectInv == IInv /\ Connect => IInv'
<1> SUFFICES ASSUME IInv, Connect PROVE IInv'
  OBVIOUS
<1>1. PICK s \in Server :
        /\ ctx.peer[s] = "handshake"
        /\ ctx' = SessionEvent([ctx EXCEPT !.peer[s] = "connected"], s, TRUE)
  BY DEF Connect
<1>2. /\ stored' = stored /\ calls' \in 0..MaxCalls
      /\ faults' \in 0..MaxFaults
  BY DEF Connect, IInv
<1> DEFINE peer == [ctx.peer EXCEPT ![s] = "connected"]
           c == [ctx EXCEPT !.peer = peer]
           d == [c EXCEPT !.up = TRUE]
           m == Frame(ctx)
           O == {}
           X == {}
<1>3. Good(ctx, m, stored, O, X) /\ ctx \in Context
  BY DEF IInv, Good, Base, Formed
<1>4. ctx.peer \in [Server -> Session] /\ "connected" \in Session
  BY <1>3 DEF Context, Session
<1>5. /\ peer \in [Server -> Session] /\ peer[s] = "connected"
      /\ \A t \in Server : t # s => peer[t] = ctx.peer[t]
  BY <1>4
<1>6. c = [ctx EXCEPT !.peer[s] = "connected"]
  OBVIOUS
<1> HIDE DEF peer, m, O, X
<1>7. c \in Context /\ Same(ctx, c, {"peer"}) /\ c.peer = peer
  BY <1>3, <1>5 DEF Context, Same, Field
<1>8. ctx' = SessionEvent(c, s, TRUE)
  BY <1>1, <1>6
<1> HIDE DEF c
<1>9. /\ c.timers = ctx.timers /\ c.status = ctx.status /\ c.up = ctx.up
      /\ c.manager = ctx.manager /\ c.hears = ctx.hears /\ c.cps = ctx.cps
      /\ c.refresh = ctx.refresh /\ c.access = ctx.access /\ c.sel = ctx.sel
      /\ c.num = ctx.num /\ c.ep = ctx.ep /\ c.reqs = ctx.reqs
  BY <1>7 DEF Same, Field
<1>10. Base(c, m, stored) /\ Cbs(c) = Cbs(ctx) /\ Kinds(c) = Kinds(ctx)
  BY <1>3, <1>7, <1>9
  DEF Good, Base, Formed, Kept, Signs, Saved, Registered, Cbs, Kinds
<1>11. Excused(ctx, X) => Excused(c, X)
  <2> SUFFICES ASSUME Excused(ctx, X) PROVE Excused(c, X)
    OBVIOUS
  <2>1. ctx.ep \in Server
    BY <1>3 DEF Excused, Context, Endpoint
  <2> QED
    BY <1>1, <1>5, <1>7, <1>9, <2>1 DEF Excused
<1>12. Good(c, m, stored, O, X)
  <2>1. Tries(c, O, X)
    BY <1>3, <1>9, <1>10, <1>11 DEF Good, Tries, Registered, LoggedIn
  <2>2. Deregisters(c, O)
    BY <1>3, <1>9, <1>10 DEF Good, Deregisters
  <2> QED
    BY <1>10, <2>1, <2>2 DEF Good
<1>13. /\ Base(d, m, stored) /\ Same(c, d, {"up"}) /\ d.up = TRUE
       /\ Cbs(d) = Cbs(c) /\ Kinds(d) = Kinds(c)
  BY <1>10, PutUp
<1>14. SessionEvent(c, s, TRUE) = c \/ SessionEvent(c, s, TRUE) = d
  <2>1. SessionEvent(c, s, TRUE) =
          CASE ~c.hears \/ c.ep # s \/ c.up = TRUE -> c
            [] c.hears /\ c.ep = s /\ ~TRUE /\ c.up /\ Registered(c) ->
                 ManagerRestart([c EXCEPT !.up = FALSE])
            [] OTHER -> d
    BY DEF SessionEvent
  <2> QED
    BY <2>1
<1> HIDE DEF d
<1>15. /\ d.status = c.status /\ d.hears = c.hears /\ d.cps = c.cps
       /\ d.ep = c.ep /\ d.peer = c.peer
  BY <1>13 DEF Same, Field
<1>16. Excused(c, X) => Excused(d, X)
  BY <1>13, <1>15 DEF Excused
<1>17. Good(d, m, stored, O, X)
  <2>1. Tries(d, O, X)
    BY <1>12, <1>13, <1>15, <1>16 DEF Good, Tries, Registered, LoggedIn
  <2>2. Deregisters(d, O)
    BY <1>12, <1>13, <1>15 DEF Good, Deregisters
  <2> QED
    BY <1>13, <2>1, <2>2 DEF Good
<1>18. Good(ctx', m, stored, O, X)
  BY <1>8, <1>12, <1>14, <1>17
<1> QED
  BY <1>2, <1>18, KeepsIInv DEF m, O, X

LEMMA DisconnectInv == IInv /\ Disconnect => IInv'
<1> SUFFICES ASSUME IInv, Disconnect PROVE IInv'
  OBVIOUS
<1>1. PICK s \in Server : Faulty(TRUE) /\ ctx' = Closing[ctx][s]
  BY DEF Disconnect
<1>2. stored' = stored /\ calls' \in 0..MaxCalls
  BY DEF Disconnect, IInv
<1>3. faults' \in 0..MaxFaults
  BY <1>1, FaultyType
<1>4. Good(ctx, Frame(ctx), stored, {}, {}) /\ ctx \in Context /\ s \in Endpoint
  BY DEF IInv, Good, Base, Formed, Endpoint
<1>5. Good(ctx', Frame(ctx), stored, {}, {})
  BY <1>1, <1>4, AllClose DEF Closes
<1> QED
  BY <1>2, <1>3, <1>5, KeepsIInv

\* A configuration is put into a context that has just been cleared.
LEMMA ProvisionGood ==
  ASSUME IInv, NEW servers \in 1..NumServers
  PROVE  LET c == RegistrationDeinit(Reinitialize(ResetEndpoint(ctx, Closing)))
             d == oc_cloud_deregister_stop(cloud_manager_stop(c))
             e == [ServerChanged(d) EXCEPT
                     !.access = "conf", !.sel = 1, !.num = servers,
                     !.cps = "readytoregister"]
             f == IF e.manager
                  THEN oc_cloud_manager_restart(RegistrationInit(e)) ELSE e
         IN  /\ Good(f, Frame(ctx), stored, {}, {})
             /\ Good(Dump(f), Frame(ctx), stored, {}, {})
<1> DEFINE m == Frame(ctx)
           O == {}
           X == {}
           a == ResetEndpoint(ctx, Closing)
           b == Reinitialize(a)
           c == RegistrationDeinit(b)
           d1 == Unset(c, ManagerTimer)
           d == Unset(d1, DeregisterTimer)
           e1 == ServerChanged(d)
           e == [e1 EXCEPT !.access = "conf", !.sel = 1, !.num = servers,
                           !.cps = "readytoregister"]
           e2 == RegistrationInit(e)
           f == IF e.manager THEN oc_cloud_manager_restart(e2) ELSE e
<1>1. Base(ctx, m, stored) /\ m.manager = ctx.manager /\ m.hears = ctx.hears
  BY DEF IInv, Good, Frame
<1>2. ctx.hears = ctx.manager
  BY DEF IInv
<1> HIDE DEF m, O, X
<1>3. Base(a, m, stored)
  BY <1>1, AllClose, ResetEndpointBase
<1> HIDE DEF a
<1>4. Good(b, m, stored, O, X) /\ b.status = {}
  BY <1>3, ReinitializeGood, ReinitializeIs DEF Base, O, X
<1> HIDE DEF b
<1>5. /\ Good(c, m, stored, O, X)
      /\ Same(b, c, {"begun", "left", "changed"})
  BY <1>4, RegistrationGood
<1> HIDE DEF c
<1>6. Formed(c) /\ c.manager = m.manager /\ c.hears = m.hears
  BY <1>5 DEF Good, Base, Kept
<1>7. Formed(d1) /\ Same(c, d1, {"timers"})
  BY <1>6, UnsetIs
<1> HIDE DEF d1
<1>8. Formed(d) /\ Same(d1, d, {"timers"})
  BY <1>7, UnsetIs
<1> HIDE DEF d
<1>9. /\ Formed(e1) /\ Same(d, e1, {"changed", "timers"})
      /\ Cbs(e1) = Cbs(d) \cup {"dump"}
  BY <1>8, ServerChangedIs
<1> HIDE DEF e1
<1>10. /\ e1.status = {} /\ e1.manager = m.manager /\ e1.hears = m.hears
  BY <1>4, <1>5, <1>6, <1>7, <1>8, <1>9 DEF Same, Field
<1>11. /\ "conf" \in Token /\ 1 \in Server /\ "readytoregister" \in Cps
  BY ServersAssumption DEF Token, Server, Default, Cps
<1>12. /\ e \in Context /\ e.timers = e1.timers /\ e.status = e1.status
       /\ e.manager = e1.manager /\ e.hears = e1.hears
       /\ e.cps = "readytoregister"
  BY <1>9, <1>11 DEF Formed, Context
<1> HIDE DEF e
<1>13. Formed(e) /\ ~Registered(e) /\ "dump" \in Cbs(e) /\ Kept(e, m)
  BY <1>9, <1>10, <1>12 DEF Formed, Registered, Cbs, Kept
<1>14. Good(e, m, stored, {}, {})
  BY <1>12, <1>13, ClearedIsGood
<1>15. Good(oc_cloud_manager_restart(e2), m, stored, {}, {})
  <2>1. Good(e2, m, stored, O, X)
    BY <1>14, RegistrationGood DEF O, X
  <2> HIDE DEF e2
  <2>2. Good(e2, m, stored, {"login"}, {})
    BY <2>1, OwedLogin DEF Good, O
  <2>3. e2.manager = e2.hears
    BY <1>1, <1>2, <2>1 DEF Good, Base, Kept
  <2> QED
    BY <2>2, <2>3, RestartGood
<1> HIDE DEF e2
<1>16. Good(f, m, stored, O, X)
  BY <1>14, <1>15 DEF O, X
<1> HIDE DEF f
<1>17. Good(Dump(f), m, stored, O, X)
  BY <1>16, SoonGood DEF Dump, Timer
<1> QED
  BY <1>16, <1>17
  DEF f, e2, e, e1, d, d1, c, b, a, m, O, X, cloud_manager_stop,
      oc_cloud_deregister_stop

LEMMA ProvisionInv ==
  ASSUME IInv, NEW call, NEW allowed, NEW servers \in 1..NumServers,
         Provision(call, allowed, servers)
  PROVE  IInv'
<1>1. Called(call) /\ stored' = stored /\ faults' = faults
  BY DEF Provision
<1>2. calls' \in 0..MaxCalls /\ faults' \in 0..MaxFaults
  BY <1>1, CalledType DEF IInv
<1>3. Good(ctx', Frame(ctx), stored, {}, {})
  BY ProvisionGood, Zenon DEF Provision
<1> QED
  BY <1>1, <1>2, <1>3, KeepsIInv

LEMMA StopGood ==
  ASSUME IInv, NEW keep \in BOOLEAN
  PROVE  LET unset == cloud_manager_stop(Unset(ctx, {"restart", "start"}))
             c == ResetEndpoint([unset EXCEPT !.hears = FALSE], Closing)
             d == IF keep /\ c.access # "none"
                  THEN Dump([Rest(c) EXCEPT !.changed = FALSE])
                  ELSE RegistrationDeinit(Reinitialize(c))
             e == [d EXCEPT !.manager = FALSE]
         IN  Good(e, Frame(e), stored, {}, {}) /\ e.hears = e.manager
<1> DEFINE m == Frame(ctx)
           O == {}
           X == {}
           u1 == Unset(ctx, {"restart", "start"})
           u == Unset(u1, ManagerTimer)
           n == [u EXCEPT !.hears = FALSE]
           c == ResetEndpoint(n, Closing)
           r == Rest(c)
           k1 == [r EXCEPT !.changed = FALSE]
           k == Dump(k1)
           w1 == Reinitialize(c)
           w == RegistrationDeinit(w1)
           d == IF keep /\ c.access # "none" THEN k ELSE w
           e == [d EXCEPT !.manager = FALSE]
<1>1. Base(ctx, m, stored)
  BY DEF IInv, Good
<1>2. Base(u1, m, stored)
  BY <1>1, UnsetBase
<1> HIDE DEF u1
<1>3. Base(u, m, stored)
  BY <1>2, UnsetBase DEF ManagerTimer
<1> HIDE DEF u, O, X
<1>4. u \in Context
  BY <1>3 DEF Base, Formed
<1>5. n \in Context /\ Same(u, n, {"hears"}) /\ n.hears = FALSE
  BY <1>4 DEF Context, Same, Field
<1> HIDE DEF n
<1>6. /\ n.timers = u.timers /\ n.status = u.status /\ n.access = u.access
      /\ n.refresh = u.refresh /\ n.sel = u.sel /\ n.num = u.num
  BY <1>5 DEF Same, Field
<1>7. Base(n, Frame(n), stored)
  BY <1>3, <1>5, <1>6
  DEF Base, Formed, Kept, Frame, Signs, Saved, Registered, Cbs
<1> DEFINE q == Frame(n)
<1>8. q.hears = FALSE
  BY <1>5 DEF Frame
<1> HIDE DEF q
<1>9. Base(c, q, stored)
  BY <1>7, AllClose, ResetEndpointBase DEF q
<1> HIDE DEF c
<1>10. Good(w, q, stored, O, X)
  <2>1. Good(w1, q, stored, O, X)
    BY <1>9, ReinitializeGood DEF Base, O, X
  <2> HIDE DEF w1
  <2> QED
    BY <2>1, RegistrationGood
<1> HIDE DEF w
<1>11. Good(k, q, stored, O, X)
  <2>1. Base(r, q, stored) /\ r.cps # "deregistering"
    BY <1>9, RestIs
  <2>2. r.hears = FALSE
    BY <1>8, <2>1 DEF Base, Kept
  <2>3. Good(r, q, stored, O, X)
    BY <2>1, <2>2 DEF Good, Tries, Deregisters
  <2> HIDE DEF r
  <2>4. r \in Context /\ FALSE \in BOOLEAN
    BY <2>1 DEF Base, Formed
  <2>5. k1 \in Context /\ Same(r, k1, {"changed"}) /\ k1.timers = r.timers
    BY <2>4 DEF Context, Same, Field
  <2> HIDE DEF k1
  <2>6. Formed(k1) /\ Same(r, k1, Bookkeeping \ {"timers"})
    BY <2>1, <2>5 DEF Base, Formed, Same, Bookkeeping
  <2>7. Good(k1, q, stored, O, X)
    BY <2>3, <2>6, CountersGood
  <2> QED
    BY <2>7, SoonGood DEF Dump, Timer
<1> HIDE DEF k
<1>12. Good(d, q, stored, O, X)
  BY <1>10, <1>11
<1> HIDE DEF d
<1>13. d \in Context /\ OnceIn(d.timers) /\ d.hears = FALSE
  BY <1>8, <1>12 DEF Good, Base, Formed, Kept
<1>14. /\ e \in Context /\ Same(d, e, {"manager"}) /\ e.timers = d.timers
       /\ e.manager = FALSE /\ e.hears = d.hears
  BY <1>13 DEF Context, Same, Field
<1> HIDE DEF e
<1>15. Formed(e) /\ Same(d, e, {"manager", "hears"})
  BY <1>13, <1>14 DEF Formed, Same
<1>16. Good(e, Frame(e), stored, O, X)
  BY <1>12, <1>13, <1>14, <1>15, FrameGood
<1> QED
  BY <1>13, <1>14, <1>16
  DEF e, d, w, w1, k, k1, r, c, n, u, u1, O, X, cloud_manager_stop

LEMMA StopInv == IInv /\ oc_cloud_manager_stop_v1 => IInv'
<1> SUFFICES ASSUME IInv, oc_cloud_manager_stop_v1 PROVE IInv'
  OBVIOUS
<1>1. Called("stop") /\ stored' = stored /\ faults' = faults
  BY DEF oc_cloud_manager_stop_v1
<1>2. calls' \in 0..MaxCalls /\ faults' \in 0..MaxFaults
  BY <1>1, CalledType DEF IInv
<1>3. Good(ctx', Frame(ctx'), stored, {}, {}) /\ ctx'.hears = ctx'.manager
  BY StopGood, Zenon DEF oc_cloud_manager_stop_v1
<1> QED
  BY <1>1, <1>2, <1>3 DEF IInv

LEMMA CallsInv ==
  ASSUME IInv,
         \/ Deprovision \/ oc_cloud_manager_start \/ Restart
         \/ cloud_interface_up_event_handler
  PROVE  IInv'
<1> DEFINE m == Frame(ctx)
<1>1. /\ Good(ctx, m, stored, {}, {}) /\ Base(ctx, m, stored)
      /\ Deregisters(ctx, {}) /\ ctx.manager = ctx.hears
  BY DEF IInv, Good
<1>2. CASE Deprovision
  <2> DEFINE d == cloud_reset(ctx)
  <2>1. Called("deprovision") /\ stored' = stored /\ faults' = faults
    BY <1>2 DEF Deprovision
  <2>2. ctx' = Dump(d)
    BY <1>2 DEF Deprovision
  <2>3. Good(d, m, stored, {}, {})
    BY <1>1, CloudResetGood
  <2> HIDE DEF d, m
  <2>4. Good(ctx', m, stored, {}, {})
    BY <2>2, <2>3, SoonGood DEF Dump, Timer
  <2> QED
    BY <2>1, <2>4, CalledType, KeepsIInv DEF m, IInv
<1>3. CASE oc_cloud_manager_start
  <2>1. /\ Called("start") /\ stored' = stored /\ faults' = faults
        /\ ctx' = Started(ctx)
    BY <1>3 DEF oc_cloud_manager_start
  <2>2. Good(ctx', Frame(ctx'), stored, {}, {}) /\ ctx'.hears = ctx'.manager
    BY <1>1, <2>1, StartedGood
  <2> QED
    BY <2>1, <2>2, CalledType DEF IInv
<1>4. CASE Restart
  <2>1. /\ Called("restart") /\ stored' = stored /\ faults' = faults
        /\ ctx' = oc_cloud_manager_restart(ctx)
    BY <1>4 DEF Restart
  <2>2. Good(ctx, m, stored, {"login"}, {})
    BY <1>1, OwedLogin
  <2>3. Good(ctx', m, stored, {}, {})
    BY <1>1, <2>1, <2>2, RestartGood
  <2> QED
    BY <2>1, <2>3, CalledType, KeepsIInv DEF IInv
<1>5. CASE cloud_interface_up_event_handler
  <2>1. /\ Called("interface_up") /\ stored' = stored /\ faults' = faults
        /\ ctx' = ManagerRestart(ctx)
    BY <1>5 DEF cloud_interface_up_event_handler
  <2>2. Good(ctx', m, stored, {}, {})
    BY <1>1, <2>1, ManagerRestartGood
  <2> QED
    BY <2>1, <2>2, CalledType, KeepsIInv DEF IInv
<1> QED
  BY <1>2, <1>3, <1>4, <1>5

\* What cloud_context_init loads
LEMMA LoadedIs ==
  ASSUME IInv
  PROVE  LET loaded == [f \in DOMAIN Fresh |->
                          IF f \in Store THEN stored[f] ELSE Fresh[f]]
         IN  /\ Formed(loaded) /\ ~loaded.hears /\ ~loaded.manager
             /\ loaded.status = stored.status
             /\ loaded.refresh = stored.refresh
<1> DEFINE loaded == [f \in DOMAIN Fresh |->
                        IF f \in Store THEN stored[f] ELSE Fresh[f]]
<1>1. Formed(Fresh) /\ ~Fresh.hears /\ ~Fresh.manager
  BY FreshIs
<1>2. DOMAIN Fresh = Field
  BY DEF Fresh, Field
<1>3. /\ \A f \in Store : loaded[f] = stored[f]
      /\ \A f \in Field \ Store : loaded[f] = Fresh[f]
  <2>1. Store \subseteq Field
    BY DEF Store, Field
  <2> HIDE DEF Fresh
  <2> QED
    BY <1>2, <2>1
<1>4. DOMAIN loaded = Field /\ loaded = [f \in Field |-> loaded[f]]
  BY <1>2
<1> HIDE DEF loaded
<1>5. /\ loaded.status = stored.status /\ loaded.cps = stored.cps
      /\ loaded.access = stored.access /\ loaded.refresh = stored.refresh
      /\ loaded.sel = stored.sel /\ loaded.num = stored.num
  BY <1>3 DEF Store
<1>6. /\ loaded.manager = Fresh.manager /\ loaded.hears = Fresh.hears
      /\ loaded.ep = Fresh.ep /\ loaded.up = Fresh.up
      /\ loaded.peer = Fresh.peer /\ loaded.retry = Fresh.retry
      /\ loaded.begun = Fresh.begun /\ loaded.left = Fresh.left
      /\ loaded.changed = Fresh.changed /\ loaded.timers = Fresh.timers
      /\ loaded.reqs = Fresh.reqs
  BY <1>3 DEF Store, Field
<1>7. stored \in StoredType
  BY DEF IInv
<1>8. /\ loaded.status \in SUBSET Status /\ loaded.cps \in Cps
      /\ loaded.access \in Token /\ loaded.refresh \in BOOLEAN
      /\ loaded.sel \in Server /\ loaded.num \in 1..NumServers
  BY <1>5, <1>7 DEF StoredType
<1>9. /\ loaded.manager \in BOOLEAN /\ loaded.hears \in BOOLEAN
      /\ loaded.ep \in Endpoint /\ loaded.up \in BOOLEAN
      /\ loaded.peer \in [Server -> Session]
      /\ loaded.retry \in [conn : Nat, token : Nat]
      /\ loaded.begun \in BOOLEAN /\ loaded.left \in 0..NumServers - 1
      /\ loaded.changed \in BOOLEAN /\ loaded.timers \in Seq(Callback)
      /\ loaded.reqs \in Seq(RequestsOf(Endpoint))
  BY <1>1, <1>6 DEF Formed, Context
<1>10. loaded \in Context
  BY <1>4, <1>8, <1>9 DEF Context, Field
<1>11. Formed(loaded)
  BY <1>1, <1>6, <1>10 DEF Formed
<1> QED
  BY <1>1, <1>5, <1>6, <1>11 DEF loaded

LEMMA CrashInv == IInv /\ Crash => IInv'
<1> SUFFICES ASSUME IInv, Crash PROVE IInv'
  OBVIOUS
<1> DEFINE loaded == [f \in DOMAIN Fresh |->
                        IF f \in Store THEN stored[f] ELSE Fresh[f]]
           c == Drop(loaded, Status \ {"registered"})
           b == IF c.cps = "deregistering" THEN Fresh ELSE c
<1>1. /\ Called("crash") /\ ctx' \in Boot(b) /\ faults' = faults
      /\ stored' = IF c.cps = "deregistering" THEN StoreOf(Fresh) ELSE stored
  BY DEF Crash
<1>2. /\ Formed(loaded) /\ ~loaded.hears /\ ~loaded.manager
      /\ loaded.status = stored.status /\ loaded.refresh = stored.refresh
  BY LoadedIs
<1> HIDE DEF loaded
<1>3. /\ Formed(c) /\ Same(loaded, c, {"status"})
      /\ c.status = loaded.status \ (Status \ {"registered"})
  BY <1>2, DropIs
<1> HIDE DEF c
<1>4. ~c.hears /\ ~c.manager /\ c.refresh = stored.refresh
  BY <1>2, <1>3 DEF Same, Field
<1>5. Registered(c) => "registered" \in stored.status
  BY <1>2, <1>3 DEF Registered
<1>6. Signs(c)
  BY <1>4, <1>5 DEF Signs, IInv
<1>7. /\ Formed(b) /\ Signs(b) /\ ~b.hears /\ ~b.manager
      /\ b.cps # "deregistering"
  BY <1>3, <1>4, <1>6, FreshIs
<1> HIDE DEF b
<1>8. Good(ctx', Frame(ctx'), stored', {}, {}) /\ ctx'.hears = ctx'.manager
  BY <1>1, <1>7, BootGood
<1>9. calls' \in 0..MaxCalls /\ faults' \in 0..MaxFaults
  BY <1>1, CalledType DEF IInv
<1>10. /\ stored' \in StoredType
       /\ "registered" \in stored'.status => stored'.refresh
  <2>1. StoreOf(Fresh) \in StoredType /\ StoreOf(Fresh).status = {}
    BY FreshIs, StoreOfIs DEF Formed
  <2> QED
    BY <1>1, <2>1 DEF IInv
<1> QED
  BY <1>8, <1>9, <1>10 DEF IInv

LEMMA NextIInv == IInv /\ [Next]_vars => IInv'
<1> SUFFICES ASSUME IInv, [Next]_vars PROVE IInv'
  OBVIOUS
<1>1. ASSUME NEW cb \in Timer, Expire(cb) PROVE IInv'
  BY <1>1, ExpireInv
<1>2. ASSUME NEW kind \in ManagerRequest \cup DeregisterRequest, Answer(kind)
      PROVE  IInv'
  BY <1>2, AnswerInv DEF Kind
<1>3. CASE RunRequest \/ RunManager \/ RunDeregister \/ RunDump
  BY <1>3, RunRequestInv, RunManagerInv, RunDeregisterInv, RunDumpInv
<1>4. CASE Timeout \/ Connect \/ Disconnect
  BY <1>4, TimeoutInv, ConnectInv, DisconnectInv
<1>5. CASE cloud_resource_post \/ oc_cloud_provision_conf_resource
  <2>1. NumServers \in 1..NumServers /\ 1 \in 1..NumServers
    BY ServersAssumption
  <2> QED
    BY <1>5, <2>1, ProvisionInv
    DEF cloud_resource_post, oc_cloud_provision_conf_resource
<1>6. CASE \/ Deprovision \/ oc_cloud_manager_start \/ Restart
           \/ cloud_interface_up_event_handler
  BY <1>6, CallsInv
<1>7. CASE oc_cloud_manager_stop_v1 \/ Crash
  BY <1>7, StopInv, CrashInv
<1>8. CASE UNCHANGED vars
  BY <1>8 DEF vars, IInv
<1> QED
  BY <1>1, <1>2, <1>3, <1>4, <1>5, <1>6, <1>7, <1>8 DEF Next

LEMMA IInvHolds == Spec => []IInv
  BY InitIInv, NextIInv, PTL DEF Spec

-----------------------------------------------------------------------------
(* Theorems *)

\* The names of what is pending and outstanding
LEMMA PendingIs ==
  ASSUME IInv
  PROVE  Pending = Cbs(ctx) /\ Outstanding = Kinds(ctx)
<1>1. /\ ctx.timers \in Seq(Callback)
      /\ ctx.reqs \in Seq(RequestsOf(Endpoint))
  BY DEF IInv, Good, Base, Formed, Context
<1> QED
  BY <1>1 DEF Pending, Outstanding, Cbs, Names, Kinds

\* Whichever handlers were called on the way, the context is one of the program:
\* session events are heard exactly while the manager is started, and no
\* callback of the manager or of the store is pending twice, because
\* oc_reset_delayed_callback takes the old one back.
THEOREM CloudTypeCorrect == Spec => []TypeOK
<1>1. IInv => TypeOK
  <2> SUFFICES ASSUME IInv PROVE TypeOK
    OBVIOUS
  <2>1. ctx \in Context /\ OnceIn(ctx.timers)
    BY DEF IInv, Good, Base, Formed
  <2>2. DOMAIN ctx.timers = 1..Len(ctx.timers)
    BY <2>1 DEF Context
  <2>3. \A i, j \in DOMAIN ctx.timers :
          ctx.timers[i].cb = ctx.timers[j].cb /\ i # j =>
            ctx.timers[i].cb \in DeregisterTimer
    BY <2>1, <2>2 DEF OnceIn
  <2> QED
    BY <2>1, <2>3 DEF TypeOK, IInv, StoredType
<1> QED
  BY <1>1, IInvHolds, PTL

\* Whatever the cloud has answered and wherever the device lost power, a device
\* that is registered, or would find in its store that it is, holds the token
\* with which cloud_start_process signs it in again.
THEOREM CloudSignsInAgain == Spec => []SignsInAgain
<1>1. IInv => SignsInAgain
  <2> SUFFICES ASSUME IInv PROVE SignsInAgain
    OBVIOUS
  <2>1. ctx \in Context /\ Signs(ctx)
    BY DEF IInv, Good, Base, Formed
  <2>2. StoreOf(ctx).status = ctx.status /\ StoreOf(ctx).refresh = ctx.refresh
    BY <2>1, StoreOfIs
  <2>3. "registered" \in StoreOf(ctx).status => StoreOf(ctx).refresh
    BY <2>1, <2>2 DEF Signs, Registered
  <2>4. "registered" \in stored.status => stored.refresh
    BY DEF IInv
  <2> QED
    BY <2>3, <2>4 DEF SignsInAgain
<1> QED
  BY <1>1, IInvHolds, PTL

\* However the answers, time-outs, lost sessions, retries and restarts
\* interleave, a registered device whose manager is started and that is not
\* signed in has its next step pending or outstanding, unless
\* start_manager has let a session go unheard.
THEOREM CloudKeepsTrying == Spec => []KeepsTrying
<1>1. IInv => KeepsTrying
  <2> SUFFICES ASSUME IInv PROVE KeepsTrying
    OBVIOUS
  <2>1. Tries(ctx, {}, {}) /\ ctx.hears = ctx.manager
    BY DEF IInv, Good
  <2>2. Excused(ctx, {}) <=> TakenForConnected(ctx)
    BY DEF Excused, TakenForConnected
  <2>3. Pending = Cbs(ctx) /\ Outstanding = Kinds(ctx)
    BY PendingIs
  <2> QED
    BY <2>1, <2>2, <2>3 DEF Tries, KeepsTrying
<1> QED
  BY <1>1, IInvHolds, PTL

\* A crash at any point loses a token or a selected server only while
\* oc_cloud_store_dump_async has its callback pending.
THEOREM CloudSavedOrPending == Spec => []SavedOrPending
<1>1. IInv => SavedOrPending
  <2> SUFFICES ASSUME IInv PROVE SavedOrPending
    OBVIOUS
  <2>1. Saved(ctx, stored)
    BY DEF IInv, Good, Base
  <2>2. Pending = Cbs(ctx)
    BY PendingIs
  <2> QED
    BY <2>1, <2>2 DEF Saved, SavedOrPending
<1> QED
  BY <1>1, IInvHolds, PTL

\* While the provisioning status says that the device deregisters, a request of
\* the deregistration is outstanding, its refreshed token is about to be used,
\* or a restart is about to reset the status.
DeregistrationGoesOn ==
  ctx.cps = "deregistering" =>
    \/ Outstanding \cap DeregisterRequest # {}
    \/ Pending \cap {"refreshed", "start"} # {}

\* No interleaving leaves a deregistration without what is to end it: the part
\* of DeregistrationEnds that needs no fairness.
THEOREM CloudDeregistrationGoesOn == Spec => []DeregistrationGoesOn
<1>1. IInv => DeregistrationGoesOn
  <2> SUFFICES ASSUME IInv PROVE DeregistrationGoesOn
    OBVIOUS
  <2>1. Deregisters(ctx, {})
    BY DEF IInv, Good
  <2>2. Pending = Cbs(ctx) /\ Outstanding = Kinds(ctx)
    BY PendingIs
  <2> QED
    BY <2>1, <2>2 DEF Deregisters, DeregistrationGoesOn
<1> QED
  BY <1>1, IInvHolds, PTL

=============================================================================
