------------------------------- MODULE OcPstat -------------------------------
(***************************************************************************)
(* Provisioning status and ownership of a device: the security resources   *)
(* doxm, pstat, cred and acl2 in memory and in storage, the onboarding     *)
(* state machine that connects them (RESET, RFOTM, RFPRO, RFNOP, SRESET),  *)
(* the sessions it is driven over, the immediate and the delayed reset,    *)
(* and the ends and starts of the program in between.                      *)
(*                                                                         *)
(* A UUID or a credential is Nil or the number of the onboarding during    *)
(* which it was written: resetting doxm generates a new device UUID, and   *)
(* that UUID numbers the onboardings (modulo 3).  All sessions belong to   *)
(* the client that owns or wants to own the device.  isop and cm follow    *)
(* from the state, so they are left out; so are the resources that are     *)
(* only wiped along (ael, sdi, sp, roles, software update).                *)
(***************************************************************************)
EXTENDS Naturals, FiniteSets

CONSTANT Client  \* the endpoints that may have a session with the device

ASSUME ClientAssumption == IsFiniteSet(Client)

VARIABLES
  svr,            \* the security resources in memory
  stored,         \* the same, as last saved
  peers,          \* the session of each client: none, doc or plain
  delayed_reset,  \* the delayed callback delayed_reset is scheduled
  close_all,      \* TLS_CLOSE_ALL_SESSIONS is in the event queue
  step,           \* what a running reset does next, or idle
  main,           \* the program: up, stopping (oc_main_shutdown) or down
  failed,         \* a reset could not generate its key pair; none since
  lost,           \* the program ended with a reset pending and not saved
  mayEnd          \* whether the program ever ends, in this behaviour

vars == <<svr, stored, peers, delayed_reset, close_all, step, main, failed,
          lost, mayEnd>>

Dos == {"RESET", "RFOTM", "RFPRO", "RFNOP", "SRESET"}
Nil == 0
Onboarding == 1 .. 3
Tag == Onboarding \cup {Nil}

Resources ==
  [doxm: [owned: BOOLEAN, devowneruuid: Tag, oxmsel: BOOLEAN,
          rowneruuid: Tag, deviceuuid: Onboarding],
   pstat: [s: Dos, rowneruuid: Tag],
   cred: [creds: Tag, rowneruuid: Tag],
   acl2: [rowneruuid: Tag]]

\* The values of oc_sec_doxm_set_default; oxmsel FALSE is oic.sec.oxm.self.
DefaultDoxm(uuid) ==
  [owned |-> FALSE, devowneruuid |-> Nil, oxmsel |-> FALSE,
   rowneruuid |-> Nil, deviceuuid |-> uuid]

Unowned(uuid) ==
  [doxm |-> DefaultDoxm(uuid),
   pstat |-> [s |-> "RFOTM", rowneruuid |-> Nil],
   cred |-> [creds |-> Nil, rowneruuid |-> Nil],
   acl2 |-> [rowneruuid |-> Nil]]

dos == svr.pstat.s
Now == svr.doxm.deviceuuid       \* the onboarding that is under way
Sessions == {c \in Client : peers[c] # "none"}
NoSession == [c \in Client |-> "none"]
Ready == main = "up" /\ step = "idle"
oc_reset_in_progress == step # "idle" \/ delayed_reset

\* A device as it leaves the factory, not yet started.
Init ==
  /\ svr = Unowned(1)
  /\ stored = Unowned(1)
  /\ peers = NoSession
  /\ delayed_reset = FALSE
  /\ close_all = FALSE
  /\ step = "idle"
  /\ main = "down"
  /\ failed = FALSE
  /\ lost = FALSE
  /\ mayEnd \in BOOLEAN

-----------------------------------------------------------------------------
(***************************************************************************)
(* The reset: RESET and RFOTM of oc_pstat_handle_state.  Each resource is  *)
(* wiped and saved in turn, and the program may crash after every save.    *)
(***************************************************************************)

\* Mutation: doxm is wiped but not saved.
BeginResetDoxmUnsaved ==
  /\ delayed_reset' = FALSE
  /\ svr' = [svr EXCEPT !.doxm = DefaultDoxm((Now % 3) + 1)]
  /\ step' = "cred"
  /\ UNCHANGED stored

\* The delayed callback is removed and doxm is the first to go.
BeginReset ==
  /\ delayed_reset' = FALSE
  /\ svr' = [svr EXCEPT !.doxm = DefaultDoxm((Now % 3) + 1)]
  /\ stored' = [stored EXCEPT !.doxm = svr'.doxm]
  /\ step' = "cred"

ResetCred ==
  /\ step = "cred"
  /\ svr' = [svr EXCEPT !.cred = Unowned(Now).cred]
  /\ stored' = [stored EXCEPT !.cred = svr'.cred]
  /\ step' = "acl2"
  /\ UNCHANGED <<peers, delayed_reset, close_all, main, failed, lost, mayEnd>>

ResetAcl ==
  /\ step = "acl2"
  /\ svr' = [svr EXCEPT !.acl2 = Unowned(Now).acl2]
  /\ stored' = [stored EXCEPT !.acl2 = svr'.acl2]
  /\ step' = "keypair"
  /\ UNCHANGED <<peers, delayed_reset, close_all, main, failed, lost, mayEnd>>

\* Without a key pair the state is left as it was.
ResetKeypairFails ==
  /\ step = "keypair"
  /\ failed' = TRUE
  /\ step' = "dump"
  /\ UNCHANGED <<svr, stored, peers, delayed_reset, close_all, main, lost,
                 mayEnd>>

\* Mutation: the sessions are not closed.
EnterRFOTMSessionsStay(ps) ==
  /\ svr' = [svr EXCEPT !.pstat = [ps EXCEPT !.s = "RFOTM"]]
  /\ UNCHANGED close_all

\* RFOTM with the pstat ps.  The sessions are closed later, by an event.
EnterRFOTM(ps) ==
  /\ svr' = [svr EXCEPT !.pstat = [ps EXCEPT !.s = "RFOTM"]]
  /\ close_all' = (close_all \/ main = "up")

ResetKeypair ==
  /\ step = "keypair"
  /\ EnterRFOTM([s |-> "RESET", rowneruuid |-> Nil])
  /\ failed' = FALSE
  /\ lost' = FALSE
  /\ step' = "dump"
  /\ UNCHANGED <<stored, peers, delayed_reset, main, mayEnd>>

\* pstat is saved last; the reset of oc_main_shutdown ends the program.
ResetDump ==
  /\ step = "dump"
  /\ stored' = [stored EXCEPT !.pstat = svr.pstat]
  /\ step' = "idle"
  /\ main' = IF main = "stopping" THEN "down" ELSE main
  /\ UNCHANGED <<svr, peers, delayed_reset, close_all, failed, lost, mayEnd>>

ResetStep ==
  ResetCred \/ ResetAcl \/ ResetKeypairFails \/ ResetKeypair \/ ResetDump

\* oc_reset_device, called by the application: force is set.
ResetDevice ==
  /\ Ready
  /\ BeginReset
  /\ UNCHANGED <<peers, close_all, main, failed, lost, mayEnd>>

DelayedReset ==
  /\ Ready
  /\ delayed_reset
  /\ BeginReset
  /\ UNCHANGED <<peers, close_all, main, failed, lost, mayEnd>>

\* Mutation: the delayed callback is not set.
SetDelayedResetUnscheduled ==
  /\ svr' = [svr EXCEPT !.pstat = [s |-> "RESET", rowneruuid |-> Nil]]
  /\ UNCHANGED delayed_reset

\* In memory the device is in RESET until the callback comes.
SetDelayedReset ==
  /\ delayed_reset' = TRUE
  /\ svr' = [svr EXCEPT !.pstat = [s |-> "RESET", rowneruuid |-> Nil]]

\* oc_reset_device_v1 without force, called by the application or by a
\* factory reset request to the maintenance resource, in any state: nothing
\* is saved.
ResetDeviceDelayed ==
  /\ Ready
  /\ ~oc_reset_in_progress
  /\ SetDelayedReset
  /\ UNCHANGED <<stored, peers, close_all, step, main, failed, lost, mayEnd>>

-----------------------------------------------------------------------------
(***************************************************************************)
(* Sessions.  The first one in RFOTM is the device onboarding connection   *)
(* (DOC); later ones need a credential.                                    *)
(***************************************************************************)

tls_is_valid_doc == svr.doxm.oxmsel /\ Sessions = {}

OpenSession(c) ==
  /\ Ready
  /\ peers[c] = "none"
  /\ IF dos = "RFOTM" THEN tls_is_valid_doc ELSE svr.cred.creds # Nil
  /\ peers' = [peers EXCEPT ![c] = IF dos = "RFOTM" THEN "doc" ELSE "plain"]
  /\ UNCHANGED <<svr, stored, delayed_reset, close_all, step, main, failed,
                 lost, mayEnd>>

\* The DOC is closed before the onboarding was done: the device is reset.
CloseSession(c) ==
  /\ Ready
  /\ peers[c] # "none"
  /\ peers' = [peers EXCEPT ![c] = "none"]
  /\ IF peers[c] = "doc" /\ dos = "RFOTM" /\ ~oc_reset_in_progress
     THEN SetDelayedReset
     ELSE UNCHANGED <<svr, delayed_reset>>
  /\ UNCHANGED <<stored, close_all, step, main, failed, lost, mayEnd>>

\* close_all_tls_sessions_for_device_reset: no session triggers a reset.
CloseAll ==
  /\ Ready
  /\ close_all
  /\ close_all' = FALSE
  /\ peers' = NoSession
  /\ UNCHANGED <<svr, stored, delayed_reset, step, main, failed,
                 lost, mayEnd>>

-----------------------------------------------------------------------------
(***************************************************************************)
(* Requests to the security resources.  oc_sec_check_acl grants them to    *)
(* the DOC and to the owner of the resource; a request that arrived before *)
(* the sessions were closed is still handled.                              *)
(***************************************************************************)

MayWrite(c, resource) ==
  \/ peers[c] = "doc"
  \/ peers[c] = "plain" /\ svr[resource].rowneruuid # Nil

\* Select an owner transfer method: unsecured before there is a session, or
\* over a session that is not the DOC.
PostOxmsel ==
  /\ Ready
  /\ dos = "RFOTM"
  /\ \/ Sessions = {} /\ ~oc_reset_in_progress
     \/ \E c \in Client : peers[c] = "plain" /\ MayWrite(c, "doxm")
  /\ svr' = [svr EXCEPT !.doxm.oxmsel = TRUE]
  /\ stored' = [stored EXCEPT !.doxm = svr'.doxm]
  /\ UNCHANGED <<peers, delayed_reset, close_all, step, main, failed,
                 lost, mayEnd>>

DoxmWritable(property) ==
  dos = "RFOTM" \/ (dos = "SRESET" /\ property = "rowneruuid")

\* doxm with a property set (owned, or the client's UUID) or cleared.
DecodedDoxm(property, value) ==
  LET uuid == IF value THEN Now ELSE Nil
  IN CASE property = "owned" -> [svr.doxm EXCEPT !.owned = value]
       [] property = "devowneruuid" -> [svr.doxm EXCEPT !.devowneruuid = uuid]
       [] property = "rowneruuid" -> [svr.doxm EXCEPT !.rowneruuid = uuid]

PostDoxm(c, property, value) ==
  /\ Ready
  /\ peers[c] = "doc"
  /\ DoxmWritable(property)
  /\ svr' = [svr EXCEPT !.doxm = DecodedDoxm(property, value)]
  /\ stored' = [stored EXCEPT !.doxm = svr'.doxm]
  /\ UNCHANGED <<peers, delayed_reset, close_all, step, main, failed,
                 lost, mayEnd>>

PostCred(c) ==
  /\ Ready
  /\ MayWrite(c, "cred")
  /\ dos \in {"RFOTM", "SRESET", "RFPRO"}
  /\ svr' = [svr EXCEPT !.cred.creds = Now]
  /\ stored' = [stored EXCEPT !.cred = svr'.cred]
  /\ UNCHANGED <<peers, delayed_reset, close_all, step, main, failed,
                 lost, mayEnd>>

PostCredRowner(c, value) ==
  /\ Ready
  /\ MayWrite(c, "cred")
  /\ dos \in {"RFOTM", "SRESET"}
  /\ svr' = [svr EXCEPT !.cred.rowneruuid = IF value THEN Now ELSE Nil]
  /\ stored' = [stored EXCEPT !.cred = svr'.cred]
  /\ UNCHANGED <<peers, delayed_reset, close_all, step, main, failed,
                 lost, mayEnd>>

DeleteCred(c) ==
  /\ Ready
  /\ MayWrite(c, "cred")
  /\ dos # "RFNOP"
  /\ svr' = [svr EXCEPT !.cred.creds = Nil]
  /\ stored' = [stored EXCEPT !.cred = svr'.cred]
  /\ UNCHANGED <<peers, delayed_reset, close_all, step, main, failed,
                 lost, mayEnd>>

PostAclRowner(c, value) ==
  /\ Ready
  /\ MayWrite(c, "acl2")
  /\ dos \notin {"RFNOP", "RFPRO"}
  /\ svr' = [svr EXCEPT !.acl2.rowneruuid = IF value THEN Now ELSE Nil]
  /\ stored' = [stored EXCEPT !.acl2 = svr'.acl2]
  /\ UNCHANGED <<peers, delayed_reset, close_all, step, main, failed,
                 lost, mayEnd>>

-----------------------------------------------------------------------------
(***************************************************************************)
(* Requests to change the state.                                           *)
(***************************************************************************)

\* Out of RESET the code names RESET and RFOTM, and accepts the others too.
valid_transition(to) ==
  CASE dos = "RESET" -> TRUE
    [] dos = "RFOTM" -> to # "SRESET"
    [] dos \in {"RFPRO", "RFNOP"} -> to # "RFOTM"
    [] dos = "SRESET" -> to \notin {"RFOTM", "RFNOP"}

\* What RFPRO, RFNOP and SRESET ask of the resources, pstat being ps.
pstat_check_state(ps) ==
  /\ ps.rowneruuid # Nil
  /\ \A r \in {"doxm", "acl2", "cred"} : svr[r].rowneruuid # Nil
  /\ svr.cred.creds # Nil
  /\ svr.doxm.owned
  /\ svr.doxm.devowneruuid # Nil

\* Mutation: RFOTM is entered with an owner.
pstat_unowned_any == TRUE

pstat_unowned == ~svr.doxm.owned /\ svr.doxm.devowneruuid = Nil

\* The properties are decoded in the order of the payload, so rowneruuid is
\* tested against the state before or after dos (at).
RownerWritable(at) == at \notin {"RFPRO", "RFNOP"}

DecodedPstat(to, rowner) ==
  [s |-> to,
   rowneruuid |-> IF rowner = "keep" THEN svr.pstat.rowneruuid
                  ELSE IF rowner = "set" THEN Now ELSE Nil]

PostPstatOwner(c, rowner) ==
  /\ Ready
  /\ MayWrite(c, "pstat")
  /\ RownerWritable(dos)
  /\ svr' = [svr EXCEPT !.pstat = DecodedPstat(dos, rowner)]
  /\ stored' = [stored EXCEPT !.pstat = svr'.pstat]
  /\ UNCHANGED <<peers, delayed_reset, close_all, step, main, failed,
                 lost, mayEnd>>

PostPstatReset(c) ==
  /\ Ready
  /\ MayWrite(c, "pstat")
  /\ valid_transition("RESET")
  /\ ~oc_reset_in_progress
  /\ SetDelayedReset
  /\ stored' = [stored EXCEPT !.pstat = svr'.pstat]
  /\ UNCHANGED <<peers, close_all, step, main, failed, lost, mayEnd>>

\* rowneruuid passes its test if it comes first or if dos does.
PostPstatRFOTM(c, rowner) ==
  /\ Ready
  /\ MayWrite(c, "pstat")
  /\ valid_transition("RFOTM")
  /\ pstat_unowned
  /\ EnterRFOTM(DecodedPstat("RFOTM", rowner))
  /\ stored' = [stored EXCEPT !.pstat = svr'.pstat]
  /\ UNCHANGED <<peers, delayed_reset, step, main, failed, lost, mayEnd>>

PostPstat(c, to, rowner, at) ==
  /\ Ready
  /\ MayWrite(c, "pstat")
  /\ at \in {dos, to}
  /\ rowner = "keep" \/ RownerWritable(at)
  /\ valid_transition(to)
  /\ LET ps == DecodedPstat(to, rowner)
     IN /\ pstat_check_state(ps)
        /\ svr' = [svr EXCEPT !.pstat = ps]
  /\ stored' = [stored EXCEPT !.pstat = svr'.pstat]
  /\ lost' = FALSE
  /\ UNCHANGED <<peers, delayed_reset, close_all, step, main, failed, mayEnd>>

-----------------------------------------------------------------------------
(***************************************************************************)
(* The program ends and starts.                                            *)
(***************************************************************************)

\* What is gone with the process.
Volatile ==
  /\ peers' = NoSession
  /\ delayed_reset' = FALSE
  /\ close_all' = FALSE

\* The callback was all there was of a reset that has not been saved.
ForgetReset == lost' = (lost \/ (Ready /\ stored.pstat # svr.pstat))

Crash ==
  /\ mayEnd
  /\ main # "down"
  /\ main' = "down"
  /\ step' = "idle"
  /\ Volatile
  /\ ForgetReset
  /\ UNCHANGED <<svr, stored, failed, mayEnd>>

\* Mutation: sessions are not closed.
ShutdownSessionsStay ==
  /\ mayEnd
  /\ Ready
  /\ close_all' = FALSE
  /\ IF dos = "RFOTM"
     THEN BeginReset /\ main' = "stopping"
     ELSE /\ main' = "down"
          /\ delayed_reset' = FALSE
          /\ UNCHANGED <<svr, stored, step>>
  /\ ForgetReset
  /\ UNCHANGED <<peers, failed, mayEnd>>

\* oc_main_shutdown: timers and sessions go first, then a device that is
\* still being onboarded is reset.
Shutdown ==
  /\ mayEnd
  /\ Ready
  /\ peers' = NoSession
  /\ close_all' = FALSE
  /\ IF dos = "RFOTM"
     THEN BeginReset /\ main' = "stopping"
     ELSE /\ main' = "down"
          /\ delayed_reset' = FALSE
          /\ UNCHANGED <<svr, stored, step>>
  /\ ForgetReset
  /\ UNCHANGED <<failed, mayEnd>>

\* main_load_resources with the owner known: everything is as it was saved.
StartOwned ==
  /\ main = "down"
  /\ stored.doxm.owned
  /\ main' = "up"
  /\ svr' = stored
  /\ UNCHANGED <<stored, peers, delayed_reset, close_all, step, failed,
                 lost, mayEnd>>

\* Mutation: an unowned device loads what was saved.
StartUnownedKeepsResources ==
  /\ main = "down"
  /\ ~stored.doxm.owned
  /\ main' = "up"
  /\ svr' = stored
  /\ UNCHANGED <<stored, peers, delayed_reset, close_all, step, failed,
                 lost, mayEnd>>

\* Without an owner the other resources are cleared, and the default pstat
\* resets the device.
StartUnowned ==
  /\ main = "down"
  /\ ~stored.doxm.owned
  /\ main' = "up"
  /\ LET uuid == (stored.doxm.deviceuuid % 3) + 1
     IN /\ svr' = [Unowned(uuid) EXCEPT !.pstat.s = "RESET"]
        /\ stored' = Unowned(uuid)
  /\ step' = "cred"
  /\ failed' = FALSE
  /\ lost' = FALSE
  /\ UNCHANGED <<peers, delayed_reset, close_all, mayEnd>>

Start == StartOwned \/ StartUnowned

-----------------------------------------------------------------------------

Request(c) ==
  \/ \E p \in {"owned", "devowneruuid", "rowneruuid"}, v \in BOOLEAN :
       PostDoxm(c, p, v)
  \/ PostCred(c)
  \/ \E v \in BOOLEAN : PostCredRowner(c, v)
  \/ DeleteCred(c)
  \/ \E v \in BOOLEAN : PostAclRowner(c, v)
  \/ \E r \in {"set", "clear"} : PostPstatOwner(c, r)
  \/ PostPstatReset(c)
  \/ \E r \in {"keep", "set", "clear"} : PostPstatRFOTM(c, r)
  \/ \E to \in {"RFPRO", "RFNOP", "SRESET"}, at \in Dos,
        r \in {"keep", "set", "clear"} : PostPstat(c, to, r, at)

Next ==
  \/ ResetStep
  \/ ResetDevice
  \/ ResetDeviceDelayed
  \/ DelayedReset
  \/ \E c \in Client : OpenSession(c) \/ CloseSession(c) \/ Request(c)
  \/ CloseAll
  \/ PostOxmsel
  \/ Crash
  \/ Shutdown
  \/ Start

Spec == Init /\ [][Next]_vars

\* The main thread goes on with a reset, timers expire, queued events are
\* handled, and the device is switched on again.
FairSpec ==
  /\ Spec
  /\ WF_vars(ResetStep)
  /\ WF_vars(DelayedReset)
  /\ WF_vars(CloseAll)
  /\ WF_vars(Start)

-----------------------------------------------------------------------------

\* The variables have their types, and a reset runs only in a program that
\* does (oc_pstat_handle_state is synchronous).
TypeOK ==
  /\ svr \in Resources
  /\ stored \in Resources
  /\ peers \in [Client -> {"none", "doc", "plain"}]
  /\ delayed_reset \in BOOLEAN
  /\ close_all \in BOOLEAN
  /\ step \in {"idle", "cred", "acl2", "keypair", "dump"}
  /\ main \in {"up", "stopping", "down"}
  /\ failed \in BOOLEAN
  /\ lost \in BOOLEAN
  /\ mayEnd \in BOOLEAN
  /\ main = "down" => step = "idle" /\ peers = NoSession

Tags(v) == {v[r].rowneruuid : r \in DOMAIN v}
             \cup {v.doxm.devowneruuid, v.cred.creds}

\* Nothing an earlier owner has written survives a reset: once the reset is
\* over, and also when the program was killed in the middle of it and has
\* been started again, every UUID and credential is of the onboarding that
\* the device UUID stands for (oc_pstat_handle_state, main_load_resources).
OldOwnerIsForgotten ==
  Ready /\ ~failed => Tags(svr) \subseteq {Nil, Now}

\* A device that is provisioned or in normal operation has an owner, the
\* owner of every security resource is set, and in normal operation there
\* is a credential: also when it came there out of RESET with a reset still
\* pending, and through crashes at any point of a reset.  The exception is a
\* program that ended with a reset pending that was not saved: it loads the
\* state of before, which the resources written in RESET need not fit, and
\* keeps it until the state is changed.
OperationalIsOwned ==
  Ready /\ ~failed /\ ~lost /\ dos \in {"RFPRO", "RFNOP"} =>
    /\ svr.doxm.owned
    /\ Nil \notin {svr[r].rowneruuid : r \in DOMAIN svr}
    /\ svr.doxm.devowneruuid # Nil
    /\ dos = "RFNOP" => svr.cred.creds # Nil

\* In RFOTM at most one client has a session, and it is the DOC: no session
\* of before a reset stays once TLS_CLOSE_ALL_SESSIONS has been handled.
DocIsExclusive ==
  Ready /\ dos = "RFOTM" /\ ~close_all =>
    /\ Cardinality(Sessions) <= 1
    /\ \A c \in Sessions : peers[c] = "doc"

\* While the program runs, a device enters RFOTM only without an owner.
EntersRFOTMUnowned ==
  [][main = "up" /\ dos # "RFOTM" /\ dos' = "RFOTM" =>
       ~svr'.doxm.owned /\ svr'.doxm.devowneruuid = Nil]_vars

\* If the program does not end, a device in RESET, because its owner asked
\* for it or because the onboarding connection was closed too early, comes
\* out of it wiped, unless its key pair cannot be generated.
ResetCompletes ==
  (~mayEnd /\ main = "up" /\ dos = "RESET") ~>
    (svr = [Unowned(Now) EXCEPT !.doxm.oxmsel = svr.doxm.oxmsel] \/ failed)

\* "The device will be placed in the 'Ready For Ownership Transfer Mode'",
\* says oc_reset_device_v1; if the program ends meanwhile, once it is up for
\* good.
ResetSurvivesRestart ==
  <>[](main = "up") =>
    ((main = "up" /\ dos = "RESET") ~> (dos = "RFOTM" \/ failed))
=============================================================================
