------------------------------- MODULE OcCloud -------------------------------
(***************************************************************************)
(* The cloud client of one device: the cloud manager, which registers the  *)
(* device, signs it in, refreshes its token and pings the cloud            *)
(* (api/cloud/oc_cloud_manager.c, oc_cloud_schedule.c), its restarts       *)
(* (oc_cloud.c), the deregistration by an empty server address             *)
(* (oc_cloud_deregister.c) and what is stored of all this                  *)
(* (oc_cloud_store.c).  The cloud is reached over TLS and TCP, and the     *)
(* device is in RFNOP throughout.                                          *)
(*                                                                         *)
(* Closing a session calls the handlers of its requests before it returns, *)
(* and most operations close one somewhere in the middle, so operations    *)
(* are functions on the whole state c of the client: the operator named    *)
(* after a C function maps the state it is called in to the state it       *)
(* returns in.  Those that a handler calls have a parameter close, the     *)
(* closing of a session: close[c][s] is the state in which it returns.     *)
(*                                                                         *)
(* The delayed callbacks are a list in the order they were set.  Those     *)
(* with delay 0 are due at once, the others once their time has come; the  *)
(* first due one in the list runs.                                         *)
(*                                                                         *)
(* Left out: redirection, the last error (clec), the publication of        *)
(* resources, schedules and keep-alive of the application's own, its       *)
(* direct calls of oc_cloud_register and the like, and the factory reset.  *)
(***************************************************************************)
EXTENDS Integers, SequencesExt, OcList

CONSTANTS
  NumServers, \* addresses that a POST configures
  MaxRetry,   \* entries of g_retry_timeout_ms
  Short,      \* access tokens short enough for a query
  Calls,      \* operations the application and other devices call
  MaxCalls,   \* bound: how many of them
  MaxRequests,\* bound: requests under way when a timer runs out
  MaxFaults   \* bound: failing answers, lost sessions and names not resolved

ASSUME ServersAssumption == NumServers \in Nat \ {0} /\ MaxRetry \in Nat \ {0}
ASSUME BoundsAssumption ==
  MaxCalls \in Nat /\ MaxRequests \in Nat /\ MaxFaults \in Nat

\* OCF_COAPCLOUDCONF_DEFAULT_CIS, selected without configuration
Default == NumServers + 1
Server == 1..Default
NoServer == 0

Status == {"registered", "logged_in", "expiry", "refreshed", "failure"}
Cps == {"uninitialized", "readytoregister", "registering", "registered",
        "failed", "deregistering"}

\* No token, the one of the configuration, and two kinds issued by the cloud.
Token == {"none", "conf", "permanent", "expiring"}
Issued == {"permanent", "expiring"}

\* Delayed callbacks of the manager, of the deregistration, and the others.
ManagerTimer == {"reconnect", "register", "login", "ping", "refresh",
                 "callback"}
DeregisterTimer == {"on_reset", "refreshed", "clear"}
Timer == ManagerTimer \cup DeregisterTimer \cup {"restart", "start", "dump"}

\* Requests, by their handlers: those of the manager, and those of a
\* deregistration.
ManagerRequest == {"register", "login", "refresh", "ping"}
DeregisterRequest == {"api_refresh", "api_login", "deregister"}

\* Codes: 5.03, the session closed, the time-out of the request, 4.01, others.
ConnectionError == {"unavailable", "closed"}
NoConnection == ConnectionError \cup {"timeout"}
Code == {"ok", "unavailable", "unauthorized", "error"}

\* Endpoints, one of them empty, TLS peers, delayed callbacks and requests
Endpoint == Server \cup {NoServer}
Session == {"none", "handshake", "connected"}
Callback == [cb : Timer, due : BOOLEAN]
RequestsOf(servers) ==
  [kind : ManagerRequest \cup DeregisterRequest, server : servers]

\* oc_cloud_context_t, with its requests, delayed callbacks and TLS peers.  Its
\* session events are heard while the manager is started, but no more while
\* it stops.
Context ==
  [manager : BOOLEAN, hears : BOOLEAN, status : SUBSET Status, cps : Cps,
   access : Token, refresh : BOOLEAN, sel : Server, num : 1..NumServers,
   ep : Endpoint, up : BOOLEAN, peer : [Server -> Session],
   retry : [conn : Nat, token : Nat], begun : BOOLEAN,
   left : 0..NumServers - 1, changed : BOOLEAN, timers : Seq(Callback),
   reqs : Seq(RequestsOf(Endpoint))]

VARIABLES
  ctx,    \* the context of the device
  stored, \* the store as it was last dumped
  calls,  \* calls made so far
  faults  \* faults so far

vars == <<ctx, stored, calls, faults>>

Store == {"status", "cps", "access", "refresh", "sel", "num"}

-----------------------------------------------------------------------------
(* Delayed callbacks *)

\* oc_remove_delayed_callback
Unset(c, cbs) ==
  [c EXCEPT !.timers = Without(@, [cb : cbs, due : BOOLEAN])]

\* oc_set_delayed_callback
Set(c, cb, due) ==
  [c EXCEPT !.timers = Append(@, [cb |-> cb, due |-> due])]

\* Mutant of Soon: what was set before stays set.
SoonAgain(c, cb) == Set(c, cb, TRUE)

\* oc_reset_delayed_callback, with delay 0 and with another delay
Soon(c, cb) == Set(Unset(c, {cb}), cb, TRUE)
Later(c, cb) == Set(Unset(c, {cb}), cb, FALSE)

\* oc_cloud_store_dump_async
Dump(c) == Soon(c, "dump")

cloud_manager_stop(c) == Unset(c, ManagerTimer)
oc_cloud_deregister_stop(c) == Unset(c, DeregisterTimer)

\* cloud_manager_restart
ManagerRestart(c) ==
  Soon(oc_cloud_deregister_stop(cloud_manager_stop(c)), "start")

-----------------------------------------------------------------------------
(* Servers and retries *)

\* cloud_context_on_server_change
ServerChanged(c) == Dump([c EXCEPT !.changed = @ \/ c.manager])

\* oc_endpoint_addresses_select_next
SelectNext(c) ==
  IF c.num = 1 THEN c
  ELSE ServerChanged([c EXCEPT !.sel = (@ % c.num) + 1])

\* oc_cloud_registration_context_init and _deinit: the first address has its
\* turn, which leaves the others.
RegistrationInit(c) ==
  [c EXCEPT !.begun = TRUE, !.changed = FALSE, !.left = c.num - 1]
RegistrationDeinit(c) ==
  [c EXCEPT !.begun = FALSE, !.changed = FALSE, !.left = 0]

cloud_retry_reset(c) == [c EXCEPT !.retry = [conn |-> 0, token |-> 0]]

Counter(action) == IF action = "refresh" THEN "token" ELSE "conn"

\* cloud_schedule_first_attempt, which always succeeds.
First(c, action) == Later([c EXCEPT !.retry[Counter(action)] = 0], action)

\* cloud_schedule_retry: the action is scheduled again, or, after all
\* attempts, the next server is selected, and its caller gives up.
Exhausted(c, action) == c.retry[Counter(action)] + 1 >= MaxRetry
Retry(c, action) ==
  LET d == [c EXCEPT !.retry[Counter(action)] = @ + 1] IN
  IF Exhausted(c, action) THEN SelectNext(d) ELSE Later(d, action)

SetCps(c, cps) == [c EXCEPT !.cps = cps]
Add(c, bits) == [c EXCEPT !.status = @ \cup bits]
Drop(c, bits) == [c EXCEPT !.status = @ \ bits]
Registered(c) == "registered" \in c.status
LoggedIn(c) == "logged_in" \in c.status

\* A step of the manager failed for good: it announces this and reconnects.
Reconnect(c) == Soon(Add(SetCps(c, "failed"), {"failure"}), "reconnect")

\* Mutant of Grant: what was granted is not saved.
GrantUnsaved(c, token, bits) ==
  LET expiry == IF token = "expiring" THEN {"expiry"} ELSE {} IN
  cloud_retry_reset(Add([c EXCEPT !.access = token], bits \cup expiry))

\* What the cloud grants: expires_in is positive for an expiring token.
Grant(c, token, bits) ==
  LET expiry == IF token = "expiring" THEN {"expiry"} ELSE {} IN
  Dump(cloud_retry_reset(Add([c EXCEPT !.access = token], bits \cup expiry)))

-----------------------------------------------------------------------------
(* The context is cleared *)

\* Mutant of Reinitialize: the status is kept.
ReinitializeKeepsStatus(c) ==
  ServerChanged([Unset(c, {"dump"}) EXCEPT
    !.cps = "uninitialized", !.access = "none",
    !.refresh = FALSE, !.sel = Default, !.num = 1])

\* Mutant of Reinitialize: the provisioning status is kept.
ReinitializeKeepsCps(c) ==
  ServerChanged([Unset(c, {"dump"}) EXCEPT
    !.status = {}, !.access = "none",
    !.refresh = FALSE, !.sel = Default, !.num = 1])

\* oc_cloud_store_reinitialize
Reinitialize(c) ==
  ServerChanged([Unset(c, {"dump"}) EXCEPT
    !.status = {}, !.cps = "uninitialized", !.access = "none",
    !.refresh = FALSE, !.sel = Default, !.num = 1])

\* oc_cloud_reset_endpoint
ResetEndpoint(c, close) ==
  [close[c][c.ep] EXCEPT !.ep = NoServer, !.up = FALSE]

\* oc_cloud_context_clear
cloud_context_clear(c, close) ==
  LET d == ResetEndpoint(RegistrationDeinit(c), close) IN
  Dump(Reinitialize(oc_cloud_deregister_stop(cloud_manager_stop(d))))

-----------------------------------------------------------------------------
(* Requests *)

\* oc_cloud_set_endpoint, which fails when the name is not resolved.
SetEndpoint(c, resolved) ==
  IF c.ep = NoServer /\ resolved THEN [c EXCEPT !.ep = c.sel] ELSE c

\* cloud_tls_add_peer: a session whose handshake is not over is replaced.
AddPeer(c0, close) ==
  LET c == IF c0.peer[c0.ep] = "handshake" THEN close[c0][c0.ep] ELSE c0 IN
  IF c.ep # NoServer /\ c.peer[c.ep] = "none"
  THEN [c EXCEPT !.peer[c.ep] = "handshake"] ELSE c

\* A request needs an endpoint and its token.
HasToken(c, kind) ==
  CASE kind \in {"register", "login", "api_login"} -> c.access # "none"
    [] kind \in {"refresh", "api_refresh"} -> c.refresh
    [] OTHER -> TRUE

AddRequest(c, kind) ==
  [c EXCEPT !.reqs = Append(@, [kind |-> kind, server |-> c.ep])]

CanSend(c, kind) == c.ep # NoServer /\ HasToken(c, kind)

\* oc_cloud_access_register and the like
Send(c, kind, close) == AddRequest(AddPeer(c, close), kind)

\* A step of a deregistration; its callers clear the context when it fails.
\* The name of the server was resolved when the device registered.
SendOrClear(c0, kind, close) ==
  LET c == SetEndpoint(c0, TRUE) IN
  IF CanSend(c, kind) THEN Send(c, kind, close)
  ELSE cloud_context_clear(c, close)

\* cloud_deregister_by_request
ByRequest(c, close) == SendOrClear(c, "deregister", close)

-----------------------------------------------------------------------------
(* Handlers *)

cloud_manager_register_handler(c0, code, token) ==
  LET c == Unset(c0, {"register"})
      failed == Soon(Add(c, {"failure"}), "callback")
      Otherwise(d) ==
        IF d.left > 0 /\ d.changed
        THEN SetCps(Soon([d EXCEPT !.left = @ - 1, !.changed = FALSE],
                         "reconnect"), "registering")
        ELSE SetCps(d, "failed")
  IN CASE code = "ok" /\ c.status = {} ->
            LET d == Grant([c EXCEPT !.refresh = TRUE], token, {"registered"})
            IN SetCps(Soon(First(d, "login"), "callback"), "registered")
       [] code \in NoConnection /\ c.status \ {"failure"} = {} ->
            LET d == Retry(failed, "register") IN
            IF Exhausted(failed, "register") THEN Otherwise(d)
            ELSE SetCps(d, "registering")
       [] OTHER -> SetCps(failed, "failed")

\* _login_handler leaves a deregistration under way.
LoginCps(c) ==
  IF c.cps = "deregistering" THEN "deregistering" ELSE "registered"
LoggedInBy(c, token) ==
  LET d == Grant(c, token, {"logged_in"}) IN
  SetCps([d EXCEPT !.access = IF c.access = "none" THEN "none" ELSE token],
         LoginCps(c))

cloud_manager_login_handler(c0, code, token, close) ==
  LET c == Unset(c0, {"login"})
      failed == Add(c, {"failure"})
      Announce(d) == Soon(d, "callback")
  IN CASE ~Registered(c) -> Announce(SetCps(c, "failed"))
       [] Registered(c) /\ code = "ok" ->
            LET d == Later(LoggedInBy(c, token), "ping") IN
            Announce(IF token = "expiring" THEN Later(d, "refresh") ELSE d)
       [] Registered(c) /\ code \in NoConnection ->
            LET d == Retry(failed, "login") IN
            IF Exhausted(failed, "login") THEN Reconnect(d)
            ELSE Announce(SetCps(d, LoginCps(c)))
       [] Registered(c) /\ code = "unauthorized" ->
            LET d == SetCps([failed EXCEPT !.access = "none"], "failed") IN
            Announce(IF c.refresh THEN First(d, "refresh")
                     ELSE cloud_context_clear(d, close))
       [] OTHER -> Reconnect(failed)

\* _refresh_token_handler
RefreshedBy(c, token) ==
  Grant([c EXCEPT !.refresh = TRUE], token, {"refreshed"})
RefreshFailed(c, code) ==
  LET d == Add(c, {"failure"}) IN
  CASE code = "unauthorized" -> SetCps(d, "failed")
    [] code \in NoConnection -> Drop(d, {"logged_in"})
    [] OTHER -> SetCps(Drop(d, {"logged_in", "registered"}), "failed")

cloud_manager_refresh_token_handler(c0, code, token, close) ==
  LET c == Unset(c0, {"refresh"})
      failed == RefreshFailed(c, code)
      Announce(d) == Soon(d, "callback")
  IN CASE code = "ok" /\ Registered(c) ->
            Announce(First(RefreshedBy(c, token), "login"))
       [] code = "unauthorized" ->
            Announce(cloud_context_clear(failed, close))
       [] code \in NoConnection /\ Registered(c) ->
            LET d == Retry(failed, "refresh") IN
            IF Exhausted(failed, "refresh") THEN Reconnect(d) ELSE Announce(d)
       [] OTHER -> Announce(failed)

\* on_keepalive_response_default counts with the retries of a login.
cloud_manager_send_ping_handler(c, code) ==
  LET missed == code \in {"timeout", "unavailable"}
      d == [c EXCEPT !.retry.conn = IF missed THEN @ + 1 ELSE 0]
  IN CASE ~LoggedIn(c) -> c
       [] LoggedIn(c) /\ d.retry.conn < MaxRetry -> Later(d, "ping")
       [] OTHER -> Soon(d, "reconnect")

\* oc_cloud_refresh_token_handler, cloud_deregister_try_refreshed_token
ApiRefresh(c, code, token, close) ==
  LET d == IF code = "ok" /\ Registered(c) THEN RefreshedBy(c, token)
           ELSE RefreshFailed(c, code)
  IN Drop(IF "refreshed" \in d.status THEN Set(d, "refreshed", TRUE)
          ELSE cloud_context_clear(d, close),
          {"failure", "expiry", "refreshed"})

\* oc_cloud_login_handler, cloud_deregister_try_logged_in
ApiLogin(c, code, token, close) ==
  LET d == IF code = "ok" /\ Registered(c) THEN LoggedInBy(c, token)
           ELSE SetCps(Add(c, {"failure"}), "failed")
  IN Drop(IF LoggedIn(d) THEN ByRequest(d, close)
          ELSE cloud_context_clear(d, close), {"failure", "expiry"})

\* cloud_deregistered_internal, cloud_deregister_on_reset_async_handler
Deregistered(c, code) ==
  LET d == IF code \in {"ok"} \cup ConnectionError
           THEN [c EXCEPT !.status = {}] ELSE Drop(c, {"failure"})
  IN Dump(Soon(SetCps(d, "uninitialized"), "clear"))

Handle(c, kind, code, token, close) ==
  CASE kind = "register" -> cloud_manager_register_handler(c, code, token)
    [] kind = "login" -> cloud_manager_login_handler(c, code, token, close)
    [] kind = "refresh" ->
         cloud_manager_refresh_token_handler(c, code, token, close)
    [] kind = "ping" -> cloud_manager_send_ping_handler(c, code)
    [] kind = "api_refresh" -> ApiRefresh(c, code, token, close)
    [] kind = "api_login" -> ApiLogin(c, code, token, close)
    [] kind = "deregister" -> Deregistered(c, code)

-----------------------------------------------------------------------------
(* Sessions *)

\* cloud_ep_session_event_handler, added by oc_cloud_manager_start and removed
\* by oc_cloud_manager_stop_v1.
SessionEvent(c, s, connected) ==
  CASE ~c.hears \/ c.ep # s \/ c.up = connected -> c
    [] c.hears /\ c.ep = s /\ ~connected /\ c.up /\ Registered(c) ->
         ManagerRestart([c EXCEPT !.up = FALSE])
    [] OTHER -> [c EXCEPT !.up = connected]

\* oc_ri_free_client_cbs_by_endpoint_v1: the first request of the session is
\* taken out of the list and its handler called.
OfSession(c, s) == {i \in DOMAIN c.reqs : c.reqs[i].server = s}
TellFirst(c, s, close) ==
  LET first == CHOOSE i \in OfSession(c, s) : \A j \in OfSession(c, s) : i <= j
  IN IF OfSession(c, s) = {} THEN c
     ELSE Handle([c EXCEPT !.reqs = RemoveAt(@, first)], c.reqs[first].kind,
                 "closed", "none", close)

\* oc_tls_free_peer: requests are told until the session has none, then the
\* session event is handled.  The handlers may close a session in turn, and that
\* of a sign-in may send a request to the same server, which has its turn too.
Close(c, s, close) ==
  LET its == OfSession(c, s)
      turns == Cardinality(its)
                 + Cardinality({i \in its : c.reqs[i].kind = "api_login"})
      told[n \in 0..turns] ==
        IF n = 0 THEN [c EXCEPT !.peer[s] = "none"]
        ELSE TellFirst(told[n - 1], s, close)
  IN IF s = NoServer \/ c.peer[s] = "none" THEN c
     ELSE SessionEvent(told[turns], s, FALSE)

\* Only a handler of a deregistration closes a session on OC_CONNECTION_CLOSED,
\* to clear the context or to sign out: that of the endpoint, which it takes out
\* first.  To close it once more takes a handler that has signed out in between
\* and another one, so three levels are enough for up to four deregistrations
\* under way at once.
NotClosing == [c \in Context |-> [s \in Endpoint |-> c]]
Third == [c \in Context |-> [s \in Endpoint |-> Close(c, s, NotClosing)]]
Second == [c \in Context |-> [s \in Endpoint |-> Close(c, s, Third)]]
Closing == [c \in Context |-> [s \in Endpoint |-> Close(c, s, Second)]]

-----------------------------------------------------------------------------
(* Delayed callbacks of the manager *)

\* Mutant of cloud_start_process: an expiring token is not refreshed.
cloud_start_process_login(c0) ==
  LET c == cloud_retry_reset(c0) IN
  CASE c.status = {} /\ c.cps = "readytoregister" -> First(c, "register")
    [] Registered(c) /\ c.access = "permanent" -> First(c, "login")
    [] OTHER -> c

cloud_start_process(c0) ==
  LET c == cloud_retry_reset(c0) IN
  CASE c.status = {} /\ c.cps = "readytoregister" -> First(c, "register")
    [] Registered(c) /\ c.access = "permanent" -> First(c, "login")
    [] Registered(c) /\ c.access # "permanent" /\ c.refresh ->
         First(c, "refresh")
    [] OTHER -> c

\* What the status says once the manager is not signed in.
Rest(c) ==
  LET d == Drop(c, {"logged_in"}) IN
  SetCps(d, IF Registered(d) THEN "registered" ELSE "readytoregister")

start_manager(c) == cloud_start_process(Rest([c EXCEPT !.ep = NoServer]))

restart_manager(c) == IF c.manager THEN ManagerRestart(c) ELSE c

\* Closing a session over TCP leaves the rest to the session's event.
oc_cloud_manager_restart(c) ==
  CASE ~c.manager -> c
    [] c.manager /\ c.up /\ c.ep # NoServer -> Closing[c][c.ep]
    [] OTHER -> Soon(c, "restart")

cloud_manager_reconnect_async(c) ==
  oc_cloud_manager_restart(Soon(c, "callback"))

cloud_manager_callback_handler_async(c) ==
  Drop(c, {"failure", "refreshed", "expiry"})

cloud_manager_register_async(c0, resolved) ==
  LET c == SetEndpoint(c0, resolved) IN
  IF c.status # {} THEN c0
  ELSE IF CanSend(c, "register")
  THEN SetCps(Send(c, "register", Closing), "registering")
  ELSE LET d == Retry(c, "register") IN
       IF Exhausted(c, "register") THEN SetCps(d, "failed") ELSE d

\* A step of a registered manager is sent, or tried again later.
SendOrRetry(c0, kind, resolved) ==
  LET c == SetEndpoint(c0, resolved)
      d == Retry(c, kind)
  IN IF CanSend(c, kind) THEN Send(c, kind, Closing)
     ELSE IF Exhausted(c, kind) THEN Reconnect(d) ELSE d

cloud_manager_login_async(c, resolved) ==
  IF Registered(c) THEN SendOrRetry(c, "login", resolved) ELSE c

cloud_manager_refresh_token_async(c, resolved) ==
  IF Registered(c) THEN SendOrRetry(Unset(c, {"ping"}), "refresh", resolved)
  ELSE c

\* A ping is sent only while the session is connected.
cloud_manager_send_ping_async(c) ==
  IF LoggedIn(c) /\ c.ep # NoServer /\ c.peer[c.ep] = "connected"
  THEN AddRequest(c, "ping") ELSE c

-----------------------------------------------------------------------------
(* Deregistration *)

\* oc_cloud_do_login for a deregistration
DoLogin(c) ==
  CASE LoggedIn(c) -> ByRequest(c, Closing)
    [] ~LoggedIn(c) /\ Registered(c) ->
         SendOrClear(c, "api_login", Closing)
    [] OTHER -> cloud_context_clear(c, Closing)

\* oc_cloud_do_deregister, not synchronous
oc_cloud_do_deregister(c0) ==
  LET c == SetCps(c0, "deregistering") IN
  IF ~Registered(c0) THEN cloud_context_clear(c0, Closing)
  ELSE IF c0.cps = "deregistering" THEN c0
  ELSE IF c.access \in Short \/ LoggedIn(c) THEN ByRequest(c, Closing)
  ELSE IF c.refresh /\ c.access # "permanent"
  THEN SendOrClear(c, "api_refresh", Closing)
  ELSE DoLogin(c)

cloud_deregister_refreshed_token_async(c) ==
  IF c.access \in Short THEN ByRequest(c, Closing) ELSE DoLogin(c)

\* cloud_reset, not forced, asked for by an empty server address
cloud_reset(c) ==
  IF c.ep # NoServer /\ c.peer[c.ep] = "connected"
  THEN Set(cloud_manager_stop(c), "on_reset", TRUE)
  ELSE cloud_context_clear(c, Closing)

-----------------------------------------------------------------------------
(* Initial state *)

Fresh ==
  [manager |-> FALSE, hears |-> FALSE, status |-> {}, cps |-> "uninitialized",
   access |-> "none", refresh |-> FALSE, sel |-> Default, num |-> 1,
   ep |-> NoServer, up |-> FALSE, peer |-> [s \in Server |-> "none"],
   retry |-> [conn |-> 0, token |-> 0], begun |-> FALSE, left |-> 0,
   changed |-> FALSE, timers |-> <<>>, reqs |-> <<>>]

StoreOf(c) == [f \in Store |-> c[f]]

\* oc_cloud_manager_start
Started(c0) ==
  LET c == [cloud_start_process(c0) EXCEPT !.manager = TRUE, !.hears = TRUE]
  IN IF c.begun THEN c ELSE RegistrationInit(c)

\* cloud_context_init selects an address, which dumps the store; the
\* application starts the manager when the program starts, or later.
Boot(c) == {Dump(c), Started(Dump(c))}

Init ==
  /\ ctx \in Boot(Fresh)
  /\ stored = StoreOf(Fresh)
  /\ calls = 0
  /\ faults = 0

-----------------------------------------------------------------------------
(* Delayed callbacks run *)

\* The positions of the callbacks that are due; the first one runs and is
\* taken out of the list.
Due == {i \in DOMAIN ctx.timers : ctx.timers[i].due}
FirstDue == CHOOSE i \in Due : \A j \in Due : i <= j
Runs(cb) == ctx.timers[FirstDue].cb = cb
Ran == [ctx EXCEPT !.timers = RemoveAt(@, FirstDue)]

\* A fault happens, or not.
Faulty(fault) ==
  /\ fault => faults < MaxFaults
  /\ faults' = faults + (IF fault THEN 1 ELSE 0)

\* The timer of cb runs out; what was due before has run by then.
Expire(cb) ==
  /\ Due = {}
  /\ Len(ctx.reqs) <= MaxRequests
  /\ \E i \in DOMAIN ctx.timers :
       /\ ctx.timers[i].cb = cb
       /\ ctx' = [ctx EXCEPT !.timers[i].due = TRUE]
  /\ UNCHANGED <<stored, calls, faults>>

\* A callback that sends a request, for which a name is resolved, or not.
RunRequest ==
  /\ Due # {}
  /\ \E c \in {Ran}, resolved \in BOOLEAN :
       /\ Faulty(~resolved)
       /\ \/ /\ Runs("register")
             /\ ctx' = cloud_manager_register_async(c, resolved)
          \/ /\ Runs("login")
             /\ ctx' = cloud_manager_login_async(c, resolved)
          \/ /\ Runs("refresh")
             /\ ctx' = cloud_manager_refresh_token_async(c, resolved)
  /\ UNCHANGED <<stored, calls>>

RunManager ==
  /\ Due # {}
  /\ \E c \in {Ran} :
       \/ Runs("ping") /\ ctx' = cloud_manager_send_ping_async(c)
       \/ Runs("reconnect") /\ ctx' = cloud_manager_reconnect_async(c)
       \/ Runs("callback") /\ ctx' = cloud_manager_callback_handler_async(c)
       \/ Runs("restart") /\ ctx' = restart_manager(c)
       \/ Runs("start") /\ ctx' = start_manager(c)
  /\ UNCHANGED <<stored, calls, faults>>

RunDeregister ==
  /\ Due # {}
  /\ \E c \in {Ran} :
       \/ Runs("on_reset") /\ ctx' = oc_cloud_do_deregister(c)
       \/ Runs("refreshed") /\ ctx' = cloud_deregister_refreshed_token_async(c)
       \/ Runs("clear") /\ ctx' = cloud_context_clear(c, Closing)
  /\ UNCHANGED <<stored, calls, faults>>

\* cloud_store_dump_handler
RunDump ==
  /\ Due # {} /\ Runs("dump")
  /\ ctx' = Ran
  /\ stored' = StoreOf(ctx)
  /\ UNCHANGED <<calls, faults>>

-----------------------------------------------------------------------------
(* The cloud and the network *)

\* The response handler of request i is called.
Respond(i, code, token) ==
  ctx' = Handle([ctx EXCEPT !.reqs = RemoveAt(@, i)], ctx.reqs[i].kind, code,
                token, Closing)

\* An answer comes through a session that is connected.
Answer(kind) ==
  /\ \E i \in DOMAIN ctx.reqs, code \in Code, token \in Issued :
       /\ ctx.reqs[i].kind = kind
       /\ ctx.reqs[i].server # NoServer
       /\ ctx.peer[ctx.reqs[i].server] = "connected"
       /\ Faulty(code # "ok")
       /\ Respond(i, code, token)
  /\ UNCHANGED <<stored, calls>>

\* The request times out; one without a server has no other end.
Timeout ==
  /\ \E i \in DOMAIN ctx.reqs :
       /\ Faulty(ctx.reqs[i].server # NoServer)
       /\ Respond(i, "timeout", "none")
  /\ UNCHANGED <<stored, calls>>

\* The handshake is over.
Connect ==
  /\ \E s \in Server :
       /\ ctx.peer[s] = "handshake"
       /\ ctx' = SessionEvent([ctx EXCEPT !.peer[s] = "connected"], s, TRUE)
  /\ UNCHANGED <<stored, calls, faults>>

\* The connection is refused or lost.
Disconnect ==
  /\ \E s \in Server :
       /\ ctx.peer[s] # "none"
       /\ Faulty(TRUE)
       /\ ctx' = Closing[ctx][s]
  /\ UNCHANGED <<stored, calls>>

-----------------------------------------------------------------------------
(* Calls *)

Called(call) ==
  /\ call \in Calls
  /\ calls < MaxCalls
  /\ calls' = calls + 1

\* oc_cloud_update_by_resource with a configuration, and
\* oc_cloud_provision_conf_resource, which no status forbids.
Provision(call, allowed, servers) ==
  LET c == RegistrationDeinit(Reinitialize(ResetEndpoint(ctx, Closing)))
      d == oc_cloud_deregister_stop(cloud_manager_stop(c))
      e == [ServerChanged(d) EXCEPT !.access = "conf", !.sel = 1,
                                    !.num = servers, !.cps = "readytoregister"]
      f == IF e.manager THEN oc_cloud_manager_restart(RegistrationInit(e))
           ELSE e
  IN /\ Called(call)
     /\ ctx.cps \in allowed
     /\ ctx' = IF call = "post" THEN Dump(f) ELSE f
     /\ UNCHANGED <<stored, faults>>

cloud_resource_post ==
  Provision("post", {"uninitialized", "readytoregister", "failed",
                     "deregistering"}, NumServers)
oc_cloud_provision_conf_resource == Provision("provision", Cps, 1)

\* cloud_resource_post with an empty server address
Deprovision ==
  /\ Called("deprovision")
  /\ ctx' = Dump(cloud_reset(ctx))
  /\ UNCHANGED <<stored, faults>>

oc_cloud_manager_start ==
  /\ Called("start")
  /\ ctx' = Started(ctx)
  /\ UNCHANGED <<stored, faults>>

\* oc_cloud_manager_stop_v1, keeping the configuration if there is one
oc_cloud_manager_stop_v1 ==
  LET unset == cloud_manager_stop(Unset(ctx, {"restart", "start"}))
      c == ResetEndpoint([unset EXCEPT !.hears = FALSE], Closing)
      Stopped(d) == [d EXCEPT !.manager = FALSE]
  IN /\ Called("stop")
     /\ \E keep \in BOOLEAN :
          ctx' = Stopped(IF keep /\ c.access # "none"
                         THEN Dump([Rest(c) EXCEPT !.changed = FALSE])
                         ELSE RegistrationDeinit(Reinitialize(c)))
     /\ UNCHANGED <<stored, faults>>

\* oc_cloud_manager_restart by the application
Restart ==
  /\ Called("restart")
  /\ ctx' = oc_cloud_manager_restart(ctx)
  /\ UNCHANGED <<stored, faults>>

cloud_interface_up_event_handler ==
  /\ Called("interface_up")
  /\ ctx.status = {} /\ ctx.manager
  /\ ctx' = ManagerRestart(ctx)
  /\ UNCHANGED <<stored, faults>>

\* The device loses power; cloud_context_init loads what was stored.
Crash ==
  LET loaded == [f \in DOMAIN Fresh |->
                   IF f \in Store THEN stored[f] ELSE Fresh[f]]
      c == Drop(loaded, Status \ {"registered"})
  IN /\ Called("crash")
     /\ ctx' \in Boot(IF c.cps = "deregistering" THEN Fresh ELSE c)
     /\ stored' = IF c.cps = "deregistering" THEN StoreOf(Fresh) ELSE stored
     /\ UNCHANGED faults

Next ==
  \/ \E cb \in Timer : Expire(cb)
  \/ \E kind \in ManagerRequest \cup DeregisterRequest : Answer(kind)
  \/ RunRequest \/ RunManager \/ RunDeregister \/ RunDump
  \/ Timeout \/ Connect \/ Disconnect
  \/ cloud_resource_post \/ oc_cloud_provision_conf_resource \/ Deprovision
  \/ oc_cloud_manager_start \/ oc_cloud_manager_stop_v1 \/ Restart
  \/ cloud_interface_up_event_handler \/ Crash

\* The main loop runs the delayed callbacks that are due, and a cloud that can
\* be reached completes handshakes and answers a device that leaves it.  Of
\* the network it is assumed that it does not fail for ever (MaxFaults).
Fairness ==
  /\ WF_vars(RunRequest \/ RunManager \/ RunDeregister \/ RunDump)
  /\ WF_vars(Connect)
  /\ WF_vars(Timeout \/ \E kind \in DeregisterRequest : Answer(kind))

Spec == Init /\ [][Next]_vars
FairSpec == Spec /\ Fairness

-----------------------------------------------------------------------------
(* Properties *)

Pending == {ctx.timers[i].cb : i \in DOMAIN ctx.timers}
Outstanding == {ctx.reqs[i].kind : i \in DOMAIN ctx.reqs}

\* The types of the context and of the store; a delayed callback of the manager
\* or of the store is pending at most once, whichever handlers were called on
\* the way.
TypeOK ==
  /\ ctx \in Context
  /\ ctx.hears = ctx.manager
  /\ \A i, j \in DOMAIN ctx.timers :
       ctx.timers[i].cb = ctx.timers[j].cb /\ i # j =>
         ctx.timers[i].cb \in DeregisterTimer
  /\ stored \in [status : SUBSET Status, cps : Cps, access : Token,
                 refresh : BOOLEAN, sel : Server, num : 1..NumServers]
  /\ calls \in 0..MaxCalls /\ faults \in 0..MaxFaults

\* A device that is registered, and one that would find in its store that it
\* is, has what cloud_start_process asks for to sign in again, whatever answer
\* it has got and wherever it was interrupted: a permanent access token, or a
\* refresh token.
SignsInAgain ==
  \A s \in {StoreOf(ctx), stored} :
    "registered" \in s.status => s.access = "permanent" \/ s.refresh

\* start_manager empties the endpoint and leaves its state as it was.  When the
\* session closes then, nobody hears of it, and once the endpoint is set again
\* without a request being sent the manager takes a session for connected that
\* is gone: closing it, all that oc_cloud_manager_restart does then, has no
\* effect.
TakenForConnected(c) ==
  c.up /\ c.ep # NoServer /\ c.peer[c.ep] = "none"

\* What brings a registered device back to the cloud, or its deregistration to
\* an end
Step == Timer \ {"dump", "callback", "ping", "register"}
Answered == (ManagerRequest \cup DeregisterRequest) \ {"ping", "register"}

\* While the manager is started and the device registered but not signed in,
\* the next step is scheduled or awaits its answer, unless the session was lost
\* unheard: no path through the retries, the restarts, the closing of sessions
\* and the handlers called on the way ends without the next step.
KeepsTrying ==
  ctx.manager /\ Registered(ctx) /\ ~LoggedIn(ctx) =>
    \/ Pending \cap Step # {} \/ Outstanding \cap Answered # {}
    \/ TakenForConnected(ctx)

\* A crash loses a token or a selected server only while the dump of the store
\* is pending; reinitializing the store, which takes back a pending dump, does
\* not leave an old token behind.  Without access token the device either has
\* been cleared or asks for a new one.
SavedOrPending ==
  \/ "dump" \in Pending
  \/ ctx.access = "none"
  \/ \A f \in {"access", "refresh", "sel", "num"} : stored[f] = ctx[f]

\* A deregistration comes to an end, with the answer of the cloud, with an
\* error or because it is given up, whatever else the manager is doing; until
\* then cloud_resource_post and oc_cloud_do_deregister wait for it.
DeregistrationEnds ==
  ctx.cps = "deregistering" ~> ctx.cps # "deregistering"

\* What include/oc_cloud.h says of oc_cloud_manager_stop: it stops the
\* registration process and removes the pending delayed callbacks.
StoppedIsStopped ==
  ~ctx.manager => Pending \cap (ManagerTimer \cup {"restart", "start"}) = {}

=============================================================================
