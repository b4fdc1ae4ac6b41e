---------------------------- MODULE OcPstatProofs ----------------------------
(***************************************************************************)
(* For any set of clients: a reset leaves nothing of the former owner, a   *)
(* device in operation is owned, the onboarding connection is exclusive,   *)
(* and RFOTM is entered without an owner only; whatever the program is     *)
(* doing when it crashes and is started again.                             *)
(***************************************************************************)
EXTENDS OcPstat, FiniteSetTheorems, TLAPS

-----------------------------------------------------------------------------
(* Lemmas on the operators.                                                *)

\* The UUIDs and the credential in v are of the onboarding n.
AllOf(v, n) ==
  /\ v.doxm.rowneruuid \in {Nil, n}
  /\ v.doxm.devowneruuid \in {Nil, n}
  /\ v.pstat.rowneruuid \in {Nil, n}
  /\ v.cred.rowneruuid \in {Nil, n}
  /\ v.cred.creds \in {Nil, n}
  /\ v.acl2.rowneruuid \in {Nil, n}

\* What OperationalIsOwned asks, of the resources v.
OperationalOwned(v) ==
  v.pstat.s \in {"RFPRO", "RFNOP"} =>
    /\ v.doxm.owned
    /\ v.doxm.rowneruuid # Nil
    /\ v.doxm.devowneruuid # Nil
    /\ v.pstat.rowneruuid # Nil
    /\ v.cred.rowneruuid # Nil
    /\ v.acl2.rowneruuid # Nil
    /\ v.pstat.s = "RFNOP" => v.cred.creds # Nil

LEMMA TagsOfResources ==
  ASSUME NEW v \in Resources, NEW n
  PROVE  Tags(v) \subseteq {Nil, n} <=> AllOf(v, n)
<1>1. DOMAIN v = {"doxm", "pstat", "cred", "acl2"}
  BY DEF Resources
<1>2. Tags(v) = {v.doxm.rowneruuid, v.pstat.rowneruuid, v.cred.rowneruuid,
                 v.acl2.rowneruuid, v.doxm.devowneruuid, v.cred.creds}
  BY <1>1 DEF Tags
<1> QED
  BY <1>2 DEF AllOf

LEMMA OwnersOfResources ==
  ASSUME NEW v \in Resources
  PROVE  {v[r].rowneruuid : r \in DOMAIN v} =
           {v.doxm.rowneruuid, v.pstat.rowneruuid, v.cred.rowneruuid,
            v.acl2.rowneruuid}
<1>1. DOMAIN v = {"doxm", "pstat", "cred", "acl2"}
  BY DEF Resources
<1> QED
  BY <1>1

LEMMA NextOnboarding ==
  ASSUME NEW n \in Onboarding
  PROVE  (n % 3) + 1 \in Onboarding
  BY DEF Onboarding

LEMMA UnownedIsResources ==
  ASSUME NEW uuid \in Onboarding
  PROVE  Unowned(uuid) \in Resources
  BY DEF Unowned, DefaultDoxm, Resources, Tag, Dos

-----------------------------------------------------------------------------
(* The inductive invariant.  What is saved is what a crash leaves, so the  *)
(* invariant speaks of the resources in memory and of the saved ones, and  *)
(* says for each step of a reset what has been wiped before it.            *)

\* Sessions end with the program, and a program that is stopping resets.
ProgramInv ==
  /\ main # "up" => peers = NoSession
  /\ main = "stopping" => step # "idle"

\* A reset wipes doxm, cred and acl2 one by one, in memory and in storage;
\* then pstat, if it has a key pair.
ResetInv ==
  /\ step # "idle" =>
       svr.doxm = DefaultDoxm(Now) /\ stored.doxm = svr.doxm
  /\ step \in {"acl2", "keypair", "dump"} =>
       svr.cred = Unowned(Now).cred /\ stored.cred = svr.cred
  /\ step \in {"keypair", "dump"} =>
       svr.acl2 = Unowned(Now).acl2 /\ stored.acl2 = svr.acl2
  /\ step = "dump" /\ ~failed => svr.pstat = Unowned(Now).pstat

\* Between resets every change is saved, but for the RESET of a delayed
\* reset that no request to pstat has asked for.
SavedInv ==
  Ready =>
    /\ stored.doxm = svr.doxm
    /\ stored.cred = svr.cred
    /\ stored.acl2 = svr.acl2
    /\ \/ stored.pstat = svr.pstat
       \/ dos = "RESET"

\* What is saved with an owner may be loaded: it is of one onboarding, and a
\* device that it puts in operation is owned, unless a reset that was not
\* saved has been forgotten.
LoadableInv ==
  /\ ~failed /\ (Ready \/ (main = "down" /\ stored.doxm.owned)) =>
       AllOf(stored, stored.doxm.deviceuuid)
  /\ ~failed /\ ~lost /\ main = "down" /\ stored.doxm.owned =>
       OperationalOwned(stored)

\* The same for the resources in memory.
MemoryInv ==
  Ready /\ ~failed => AllOf(svr, Now) /\ (~lost => OperationalOwned(svr))

\* In RFOTM there is one session, the DOC, or all are about to be closed.
DocInv ==
  dos = "RFOTM" /\ ~close_all =>
    \A c, d \in Sessions : c = d /\ peers[c] = "doc"

IInv ==
  /\ TypeOK
  /\ ProgramInv
  /\ ResetInv
  /\ SavedInv
  /\ LoadableInv
  /\ MemoryInv
  /\ DocInv

LEMMA InitInv == Init => IInv
<1> SUFFICES ASSUME Init
             PROVE  IInv
  OBVIOUS
<1> USE DEF Init, Unowned, DefaultDoxm, NoSession, Nil
<1>1. TypeOK
  <2>1. Unowned(1) \in Resources
    BY UnownedIsResources DEF Onboarding
  <2> QED
    BY <2>1 DEF TypeOK
<1>2. ProgramInv /\ ResetInv /\ SavedInv
  BY DEF ProgramInv, ResetInv, SavedInv, Ready
<1>3. LoadableInv /\ MemoryInv
  BY DEF LoadableInv, MemoryInv, Ready, AllOf, OperationalOwned
<1>4. DocInv
  BY DEF DocInv, Sessions
<1> QED
  BY <1>1, <1>2, <1>3, <1>4 DEF IInv

-----------------------------------------------------------------------------
(* Types.                                                                  *)

LEMMA BeginResetType ==
  ASSUME svr \in Resources, stored \in Resources, BeginReset
  PROVE  svr' \in Resources /\ stored' \in Resources
<1>1. DefaultDoxm((Now % 3) + 1) \in
        [owned: BOOLEAN, devowneruuid: Tag, oxmsel: BOOLEAN,
         rowneruuid: Tag, deviceuuid: Onboarding]
  <2>1. Now \in Onboarding
    BY DEF Now, Resources
  <2> QED
    BY <2>1, NextOnboarding DEF DefaultDoxm, Tag
<1> QED
  BY <1>1 DEF BeginReset, Resources

LEMMA SetDelayedResetType ==
  ASSUME svr \in Resources, SetDelayedReset
  PROVE  svr' \in Resources
  BY DEF SetDelayedReset, Resources, Tag, Dos

LEMMA TypeReset ==
  ASSUME TypeOK, ProgramInv,
         ResetStep \/ ResetDevice \/ ResetDeviceDelayed \/ DelayedReset
  PROVE  TypeOK'
<1> USE DEF TypeOK, Ready
<1>1. CASE ResetCred
  <2>1. svr' \in Resources /\ stored' \in Resources
    BY <1>1 DEF ResetCred, Resources, Unowned, Tag
  <2> QED
    BY <1>1, <2>1 DEF ResetCred
<1>2. CASE ResetAcl
  <2>1. svr' \in Resources /\ stored' \in Resources
    BY <1>2 DEF ResetAcl, Resources, Unowned, Tag
  <2> QED
    BY <1>2, <2>1 DEF ResetAcl
<1>3. CASE ResetKeypairFails
  BY <1>3 DEF ResetKeypairFails
<1>4. CASE ResetKeypair
  <2>1. close_all' \in BOOLEAN
    BY <1>4 DEF ResetKeypair, EnterRFOTM
  <2>2. svr' \in Resources
    BY <1>4 DEF ResetKeypair, EnterRFOTM, Resources, Tag, Dos
  <2> QED
    BY <1>4, <2>1, <2>2 DEF ResetKeypair
<1>5. CASE ResetDump
  <2>1. stored' \in Resources
    BY <1>5 DEF ResetDump, Resources
  <2> QED
    BY <1>5, <2>1 DEF ResetDump, ProgramInv
<1>6. CASE ResetDevice \/ DelayedReset
  <2>1. svr' \in Resources /\ stored' \in Resources
    BY <1>6, BeginResetType DEF ResetDevice, DelayedReset
  <2> QED
    BY <1>6, <2>1 DEF ResetDevice, DelayedReset, BeginReset
<1>7. CASE ResetDeviceDelayed
  <2>1. svr' \in Resources
    BY <1>7, SetDelayedResetType DEF ResetDeviceDelayed
  <2> QED
    BY <1>7, <2>1 DEF ResetDeviceDelayed, SetDelayedReset
<1> QED
  BY <1>1, <1>2, <1>3, <1>4, <1>5, <1>6, <1>7 DEF ResetStep

LEMMA TypeSession ==
  ASSUME TypeOK, NEW c \in Client, OpenSession(c) \/ CloseSession(c)
  PROVE  TypeOK'
<1> USE DEF TypeOK, Ready
<1>1. CASE OpenSession(c)
  BY <1>1 DEF OpenSession
<1>2. CASE CloseSession(c)
  <2>1. svr' \in Resources /\ delayed_reset' \in BOOLEAN
    BY <1>2, SetDelayedResetType DEF CloseSession, SetDelayedReset
  <2> QED
    BY <1>2, <2>1 DEF CloseSession
<1> QED
  BY <1>1, <1>2

\* A request changes the resources only, and a few flags.
LEMMA TypeRequest ==
  ASSUME TypeOK, NEW c \in Client, Request(c)
  PROVE  TypeOK'
<1>1. Now \in Onboarding
  BY DEF TypeOK, Now, Resources
<1>2. SUFFICES ASSUME Ready
               PROVE  /\ svr' \in Resources
                      /\ stored' \in Resources
                      /\ delayed_reset' \in BOOLEAN
                      /\ close_all' \in BOOLEAN
                      /\ lost' \in BOOLEAN
                      /\ UNCHANGED <<peers, step, main, failed, mayEnd>>
  BY DEF Request, PostDoxm, PostCred, DeleteCred, PostCredRowner,
         PostAclRowner, PostPstatOwner, PostPstatReset, PostPstatRFOTM,
         PostPstat, TypeOK, Ready
<1> USE DEF TypeOK
<1>3. ASSUME NEW p \in {"owned", "devowneruuid", "rowneruuid"},
             NEW v \in BOOLEAN, PostDoxm(c, p, v)
      PROVE  svr' \in Resources /\ stored' \in Resources
  BY <1>1, <1>3 DEF PostDoxm, DecodedDoxm, Resources, Tag
<1>4. ASSUME PostCred(c) \/ DeleteCred(c)
      PROVE  svr' \in Resources /\ stored' \in Resources
  BY <1>1, <1>4 DEF PostCred, DeleteCred, Resources, Tag
<1>5. ASSUME NEW v \in BOOLEAN, PostCredRowner(c, v) \/ PostAclRowner(c, v)
      PROVE  svr' \in Resources /\ stored' \in Resources
  BY <1>1, <1>5 DEF PostCredRowner, PostAclRowner, Resources, Tag
<1>6. ASSUME NEW r \in {"set", "clear"}, PostPstatOwner(c, r)
      PROVE  svr' \in Resources /\ stored' \in Resources
  BY <1>1, <1>6 DEF PostPstatOwner, DecodedPstat, dos, Resources, Tag
<1>7. ASSUME PostPstatReset(c)
      PROVE  svr' \in Resources /\ stored' \in Resources
  BY <1>7 DEF PostPstatReset, SetDelayedReset, Resources, Tag, Dos
<1>8. ASSUME NEW r \in {"keep", "set", "clear"}, PostPstatRFOTM(c, r)
      PROVE  /\ svr' \in Resources /\ stored' \in Resources
             /\ close_all' \in BOOLEAN
  <2>1. close_all' \in BOOLEAN
    BY <1>8 DEF PostPstatRFOTM, EnterRFOTM
  <2> QED
    BY <1>1, <1>8, <2>1 DEF PostPstatRFOTM, EnterRFOTM, DecodedPstat,
                            Resources, Tag, Dos
<1>9. ASSUME NEW to \in {"RFPRO", "RFNOP", "SRESET"}, NEW at \in Dos,
             NEW r \in {"keep", "set", "clear"}, PostPstat(c, to, r, at)
      PROVE  svr' \in Resources /\ stored' \in Resources
  BY <1>1, <1>9 DEF PostPstat, DecodedPstat, Resources, Tag, Dos
<1>10. CASE PostPstatReset(c)
  BY <1>7, <1>10 DEF PostPstatReset, SetDelayedReset
<1>11. CASE \E r \in {"keep", "set", "clear"} : PostPstatRFOTM(c, r)
  BY <1>8, <1>11 DEF PostPstatRFOTM
<1> QED
  BY <1>3, <1>4, <1>5, <1>6, <1>9, <1>10, <1>11
     DEF Request, PostDoxm, PostCred, DeleteCred, PostCredRowner,
         PostAclRowner, PostPstatOwner, PostPstat

LEMMA TypeProgram ==
  ASSUME TypeOK, Crash \/ Shutdown \/ Start
  PROVE  TypeOK'
<1> USE DEF TypeOK, NoSession
<1>0. ASSUME ForgetReset
      PROVE  lost' \in BOOLEAN
  BY <1>0, Zenon DEF ForgetReset
<1>1. CASE Crash
  BY <1>0, <1>1 DEF Crash, Volatile
<1>2. CASE Shutdown
  <2>1. CASE dos = "RFOTM"
    <3>1. svr' \in Resources /\ stored' \in Resources
      BY <1>2, <2>1, BeginResetType DEF Shutdown
    <3> QED
      BY <1>0, <1>2, <2>1, <3>1 DEF Shutdown, BeginReset
  <2>2. CASE dos # "RFOTM"
    BY <1>0, <1>2, <2>2 DEF Shutdown, Ready
  <2> QED
    BY <2>1, <2>2
<1>3. CASE StartOwned
  BY <1>3 DEF StartOwned
<1>4. CASE StartUnowned
  <2> DEFINE uuid == (stored.doxm.deviceuuid % 3) + 1
  <2>1. Unowned(uuid) \in Resources
    <3>1. stored.doxm.deviceuuid \in Onboarding
      BY DEF Resources
    <3> QED
      BY <3>1, NextOnboarding, UnownedIsResources
  <2>2. [Unowned(uuid) EXCEPT !.pstat.s = "RESET"] \in Resources
    BY <2>1 DEF Resources, Dos
  <2>3. svr' \in Resources /\ stored' \in Resources
    BY <1>4, <2>1, <2>2 DEF StartUnowned
  <2> QED
    BY <1>4, <2>3 DEF StartUnowned
<1> QED
  BY <1>1, <1>2, <1>3, <1>4 DEF Start

LEMMA TypeStep == TypeOK /\ ProgramInv /\ [Next]_vars => TypeOK'
<1> SUFFICES ASSUME TypeOK, ProgramInv, [Next]_vars
             PROVE  TypeOK'
  OBVIOUS
<1>1. CASE UNCHANGED vars
  BY <1>1 DEF vars, TypeOK, NoSession
<1>2. CASE CloseAll \/ PostOxmsel
  <2>1. CASE CloseAll
    BY <2>1 DEF CloseAll, TypeOK, NoSession, Ready
  <2>2. CASE PostOxmsel
    BY <2>2 DEF PostOxmsel, TypeOK, Resources, Ready
  <2> QED
    BY <1>2, <2>1, <2>2
<1> QED
  BY <1>1, <1>2, TypeReset, TypeSession, TypeRequest, TypeProgram DEF Next

-----------------------------------------------------------------------------
(* The steps of the program and of a reset.                                *)

\* The part of the invariant that is about the resources.
ResourcesInv ==
  ProgramInv /\ ResetInv /\ SavedInv /\ LoadableInv /\ MemoryInv

LEMMA BeginResetInv ==
  ASSUME TypeOK, ResourcesInv, BeginReset, UNCHANGED failed,
         main' \in {"up", "stopping"}, main' # "up" => peers' = NoSession
  PROVE  ResourcesInv'
<1>1. /\ svr'.doxm = DefaultDoxm(Now') /\ stored'.doxm = svr'.doxm
      /\ step' = "cred"
  BY DEF BeginReset, TypeOK, Resources, DefaultDoxm, Now
<1> QED
  BY <1>1 DEF ResourcesInv, ProgramInv, ResetInv, SavedInv, LoadableInv,
              MemoryInv, Ready, NoSession

LEMMA ResetStepInv ==
  ASSUME TypeOK, ResourcesInv, ResetStep
  PROVE  ResourcesInv'
<1> USE DEF TypeOK, ResourcesInv, ProgramInv, ResetInv, SavedInv, LoadableInv,
            MemoryInv, Ready, NoSession
<1>1. CASE ResetCred
  BY <1>1 DEF ResetCred, Resources, DefaultDoxm, Unowned, Now
<1>2. CASE ResetAcl
  BY <1>2 DEF ResetAcl, Resources, DefaultDoxm, Unowned, Now
<1>3. CASE ResetKeypairFails
  BY <1>3 DEF ResetKeypairFails, Now
<1>4. CASE ResetKeypair
  BY <1>4 DEF ResetKeypair, EnterRFOTM, Resources, Unowned, Now
<1>5. CASE ResetDump
  <2>1. /\ stored'.doxm = svr'.doxm /\ stored'.cred = svr'.cred
        /\ stored'.acl2 = svr'.acl2 /\ stored'.pstat = svr'.pstat
    BY <1>5 DEF ResetDump, Resources
  <2>2. svr' = svr /\ ~svr.doxm.owned
    BY <1>5 DEF ResetDump, DefaultDoxm
  <2>3. ASSUME ~failed
        PROVE  AllOf(svr, Now) /\ OperationalOwned(svr)
    BY <1>5, <2>3 DEF ResetDump, AllOf, OperationalOwned, DefaultDoxm, Unowned
  <2>4. ASSUME ~failed'
        PROVE  AllOf(stored', Now) /\ OperationalOwned(stored')
    BY <1>5, <2>1, <2>2, <2>3, <2>4 DEF ResetDump, AllOf, OperationalOwned
  <2> QED
    BY <1>5, <2>1, <2>2, <2>3, <2>4 DEF ResetDump, Now, dos
<1> QED
  BY <1>1, <1>2, <1>3, <1>4, <1>5 DEF ResetStep

\* A program that ends with its state saved can load it again.
LEMMA EndInv ==
  ASSUME TypeOK, ResourcesInv, Ready, ForgetReset, ~lost', ~failed
  PROVE  OperationalOwned(stored)
<1>1. stored.pstat = svr.pstat /\ ~lost
  BY DEF ForgetReset
<1> QED
  BY <1>1 DEF ResourcesInv, SavedInv, MemoryInv, OperationalOwned

LEMMA ProgramStepInv ==
  ASSUME TypeOK, ResourcesInv,
         ResetDevice \/ DelayedReset \/ Crash \/ Shutdown \/ Start
  PROVE  ResourcesInv'
<1> USE DEF ResourcesInv, ProgramInv, ResetInv, SavedInv, LoadableInv,
            MemoryInv, Ready
<1>1. CASE ResetDevice \/ DelayedReset
  BY <1>1, BeginResetInv DEF ResetDevice, DelayedReset
<1>2. CASE Crash
  \* A program that is killed in a reset has saved that there is no owner.
  <2>1. step # "idle" => ~stored.doxm.owned
    BY DEF DefaultDoxm
  <2>2. UNCHANGED <<svr, stored, failed>> /\ main' = "down" /\ step' = "idle"
    BY <1>2 DEF Crash
  <2>3. peers' = NoSession'
    BY <1>2 DEF Crash, Volatile, NoSession
  <2>4. main \in {"up", "stopping"}
    BY <1>2 DEF Crash, TypeOK
  <2>5. ~lost' /\ Ready /\ ~failed => OperationalOwned(stored)
    BY <1>2, EndInv DEF Crash
  <2> QED
    BY <2>1, <2>2, <2>3, <2>4, <2>5
<1>3. CASE Shutdown
  <2>1. CASE dos = "RFOTM"
    <3>1. BeginReset /\ main' = "stopping" /\ UNCHANGED failed
      BY <1>3, <2>1 DEF Shutdown
    <3>2. peers' = NoSession
      BY <1>3 DEF Shutdown
    <3> QED
      BY <3>1, <3>2, BeginResetInv
  <2>2. CASE dos # "RFOTM"
    <3>1. UNCHANGED <<svr, stored, failed, step>> /\ main' = "down"
      BY <1>3, <2>2 DEF Shutdown
    <3>2. peers' = NoSession' /\ Ready
      BY <1>3 DEF Shutdown, NoSession
    <3>3. ~lost' /\ ~failed => OperationalOwned(stored)
      BY <1>3, <3>2, EndInv DEF Shutdown
    <3> QED
      BY <3>1, <3>2, <3>3
  <2> QED
    BY <2>1, <2>2
<1>4. CASE StartOwned
  <2>1. /\ svr' = stored /\ stored' = stored /\ failed' = failed
        /\ lost' = lost /\ main' = "up" /\ step' = "idle"
        /\ main = "down" /\ stored.doxm.owned
    BY <1>4 DEF StartOwned, TypeOK
  <2> QED
    BY <2>1 DEF Now
<1>5. CASE StartUnowned
  <2> DEFINE uuid == (stored.doxm.deviceuuid % 3) + 1
  <2>1. svr'.doxm = DefaultDoxm(Now') /\ stored'.doxm = svr'.doxm
    BY <1>5 DEF StartUnowned, Unowned, DefaultDoxm, Now
  <2>2. step' = "cred" /\ main' = "up"
    BY <1>5 DEF StartUnowned
  <2> QED
    BY <2>1, <2>2
<1> QED
  BY <1>1, <1>2, <1>3, <1>4, <1>5 DEF Start

-----------------------------------------------------------------------------
(* The steps of the clients, which happen only while no reset runs.        *)

\* It is enough to look at the resources when a step leaves the program and
\* the reset alone.
LEMMA ReadyStepInv ==
  ASSUME TypeOK, ResourcesInv, Ready, UNCHANGED <<step, main, failed>>,
         /\ stored'.doxm = svr'.doxm
         /\ stored'.cred = svr'.cred
         /\ stored'.acl2 = svr'.acl2
         /\ stored'.pstat = svr'.pstat \/ svr'.pstat.s = "RESET",
         AllOf(stored, Now) /\ AllOf(svr, Now) =>
           AllOf(stored', Now') /\ AllOf(svr', Now'),
         ~lost' /\ (~lost => OperationalOwned(svr)) => OperationalOwned(svr')
  PROVE  ResourcesInv'
<1>1. Now = stored.doxm.deviceuuid /\ Now' = stored'.doxm.deviceuuid
  BY DEF ResourcesInv, SavedInv, Now
<1> QED
  BY <1>1 DEF ResourcesInv, ProgramInv, ResetInv, SavedInv, LoadableInv,
              MemoryInv, Ready, dos

LEMMA SessionStepInv ==
  ASSUME TypeOK, ResourcesInv,
         \/ \E c \in Client : OpenSession(c) \/ CloseSession(c)
         \/ CloseAll
         \/ PostOxmsel
         \/ ResetDeviceDelayed
  PROVE  ResourcesInv'
<1>1. Ready /\ UNCHANGED <<step, main, failed, lost>>
  BY DEF OpenSession, CloseSession, CloseAll, PostOxmsel, ResetDeviceDelayed
<1>2. SavedInv
  BY DEF ResourcesInv
<1>3. CASE UNCHANGED <<svr, stored>>
  BY <1>1, <1>2, <1>3, ReadyStepInv DEF SavedInv, Now, dos
<1>4. CASE SetDelayedReset /\ UNCHANGED stored
  <2>1. /\ svr'.doxm = svr.doxm /\ svr'.cred = svr.cred
        /\ svr'.acl2 = svr.acl2
        /\ svr'.pstat = [s |-> "RESET", rowneruuid |-> Nil]
        /\ stored' = stored
    BY <1>4 DEF SetDelayedReset, TypeOK, Resources
  <2> QED
    BY <1>1, <1>2, <2>1, ReadyStepInv
       DEF SavedInv, Now, AllOf, OperationalOwned
<1>5. CASE PostOxmsel
  <2>1. /\ svr'.doxm = [svr.doxm EXCEPT !.oxmsel = TRUE]
        /\ svr'.cred = svr.cred
        /\ svr'.acl2 = svr.acl2 /\ svr'.pstat = svr.pstat
        /\ stored'.doxm = svr'.doxm /\ stored'.cred = stored.cred
        /\ stored'.acl2 = stored.acl2 /\ stored'.pstat = stored.pstat
    BY <1>5 DEF PostOxmsel, TypeOK, Resources
  <2>2. /\ svr'.doxm.owned = svr.doxm.owned
        /\ svr'.doxm.devowneruuid = svr.doxm.devowneruuid
        /\ svr'.doxm.rowneruuid = svr.doxm.rowneruuid
        /\ svr'.doxm.deviceuuid = svr.doxm.deviceuuid
    BY <2>1 DEF TypeOK, Resources
  <2> QED
    BY <1>1, <1>2, <2>1, <2>2, ReadyStepInv
       DEF SavedInv, Now, dos, AllOf, OperationalOwned
<1> QED
  BY <1>3, <1>4, <1>5 DEF OpenSession, CloseSession, CloseAll,
                         ResetDeviceDelayed

\* A request to one resource writes UUIDs of this onboarding, and only in
\* the states in which the resource may be written.
LEMMA RequestInv ==
  ASSUME TypeOK, ResourcesInv, NEW c \in Client, Request(c)
  PROVE  ResourcesInv'
<1>1. Ready /\ UNCHANGED <<step, main, failed>>
  BY DEF Request, PostDoxm, PostCred, DeleteCred, PostCredRowner,
         PostAclRowner, PostPstatOwner, PostPstatReset, PostPstatRFOTM,
         PostPstat
<1>2. SavedInv
  BY DEF ResourcesInv
<1> USE DEF TypeOK
<1>3. ASSUME NEW p \in {"owned", "devowneruuid", "rowneruuid"},
             NEW v \in BOOLEAN, PostDoxm(c, p, v)
      PROVE  ResourcesInv'
  <2>1. /\ svr'.doxm = DecodedDoxm(p, v)
        /\ svr'.cred = svr.cred
        /\ svr'.acl2 = svr.acl2 /\ svr'.pstat = svr.pstat
        /\ stored'.doxm = svr'.doxm /\ stored'.cred = stored.cred
        /\ stored'.acl2 = stored.acl2 /\ stored'.pstat = stored.pstat
    BY <1>3 DEF PostDoxm, Resources
  <2>2. /\ svr'.doxm.deviceuuid = Now
        /\ svr'.doxm.devowneruuid \in {svr.doxm.devowneruuid, Nil, Now}
        /\ svr'.doxm.rowneruuid \in {svr.doxm.rowneruuid, Nil, Now}
    BY <2>1 DEF DecodedDoxm, Now, Resources
  <2>3. dos \notin {"RFPRO", "RFNOP"}
    BY <1>3 DEF PostDoxm, DoxmWritable
  <2>5. AllOf(stored, Now) /\ AllOf(svr, Now)
          => AllOf(stored', Now') /\ AllOf(svr', Now')
    BY <2>1, <2>2 DEF AllOf, Now
  <2>6. OperationalOwned(svr')
    BY <2>1, <2>3 DEF OperationalOwned, dos
  <2> QED
    BY <1>1, <1>2, <2>1, <2>5, <2>6, ReadyStepInv DEF SavedInv, dos
<1>4. ASSUME PostCred(c)
      PROVE  ResourcesInv'
  <2>1. /\ svr'.cred = [svr.cred EXCEPT !.creds = Now]
        /\ svr'.doxm = svr.doxm
        /\ svr'.acl2 = svr.acl2 /\ svr'.pstat = svr.pstat
        /\ stored'.cred = svr'.cred /\ stored'.doxm = stored.doxm
        /\ stored'.acl2 = stored.acl2 /\ stored'.pstat = stored.pstat
    BY <1>4 DEF PostCred, Resources
  <2>2. svr'.cred.creds = Now /\ svr'.cred.rowneruuid = svr.cred.rowneruuid
    BY <2>1 DEF Resources
  <2>3. Now # Nil /\ lost' = lost
    BY <1>4 DEF Now, Nil, Resources, Onboarding, PostCred
  <2> QED
    BY <1>1, <1>2, <2>1, <2>2, <2>3, ReadyStepInv
       DEF SavedInv, Now, dos, AllOf, OperationalOwned
<1>5. ASSUME DeleteCred(c)
      PROVE  ResourcesInv'
  <2>1. /\ svr'.cred = [svr.cred EXCEPT !.creds = Nil]
        /\ svr'.doxm = svr.doxm
        /\ svr'.acl2 = svr.acl2 /\ svr'.pstat = svr.pstat
        /\ stored'.cred = svr'.cred /\ stored'.doxm = stored.doxm
        /\ stored'.acl2 = stored.acl2 /\ stored'.pstat = stored.pstat
    BY <1>5 DEF DeleteCred, Resources
  <2>2. svr'.cred.creds = Nil /\ svr'.cred.rowneruuid = svr.cred.rowneruuid
    BY <2>1 DEF Resources
  <2>3. svr.pstat.s # "RFNOP" /\ lost' = lost
    BY <1>5 DEF DeleteCred, dos
  <2> QED
    BY <1>1, <1>2, <2>1, <2>2, <2>3, ReadyStepInv
       DEF SavedInv, Now, dos, AllOf, OperationalOwned
<1>6. ASSUME NEW v \in BOOLEAN, PostCredRowner(c, v)
      PROVE  ResourcesInv'
  <2>1. /\ svr'.cred.rowneruuid \in {Nil, Now}
        /\ svr'.cred.creds = svr.cred.creds
        /\ svr'.doxm = svr.doxm
        /\ svr'.acl2 = svr.acl2 /\ svr'.pstat = svr.pstat
        /\ stored'.cred = svr'.cred /\ stored'.doxm = stored.doxm
        /\ stored'.acl2 = stored.acl2 /\ stored'.pstat = stored.pstat
    BY <1>6 DEF PostCredRowner, Resources
  <2>2. svr.pstat.s \notin {"RFPRO", "RFNOP"}
    BY <1>6 DEF PostCredRowner, dos
  <2> QED
    BY <1>1, <1>2, <2>1, <2>2, ReadyStepInv
       DEF SavedInv, Now, dos, AllOf, OperationalOwned
<1>7. ASSUME NEW v \in BOOLEAN, PostAclRowner(c, v)
      PROVE  ResourcesInv'
  <2>1. /\ svr'.acl2.rowneruuid \in {Nil, Now}
        /\ svr'.doxm = svr.doxm
        /\ svr'.cred = svr.cred /\ svr'.pstat = svr.pstat
        /\ stored'.acl2 = svr'.acl2 /\ stored'.doxm = stored.doxm
        /\ stored'.cred = stored.cred /\ stored'.pstat = stored.pstat
    BY <1>7 DEF PostAclRowner, Resources
  <2>2. svr.pstat.s \notin {"RFPRO", "RFNOP"}
    BY <1>7 DEF PostAclRowner, dos
  <2> QED
    BY <1>1, <1>2, <2>1, <2>2, ReadyStepInv
       DEF SavedInv, Now, dos, AllOf, OperationalOwned
<1>8. ASSUME svr' = [svr EXCEPT !.pstat = svr'.pstat],
             stored' = [stored EXCEPT !.pstat = svr'.pstat],
             svr'.pstat.rowneruuid \in {svr.pstat.rowneruuid, Nil, Now},
             svr'.pstat.s \in {"RFPRO", "RFNOP"} =>
               pstat_check_state(svr'.pstat)
      PROVE  ResourcesInv'
  <2>1. /\ svr'.doxm = svr.doxm /\ svr'.cred = svr.cred
        /\ svr'.acl2 = svr.acl2
        /\ stored'.doxm = stored.doxm /\ stored'.cred = stored.cred
        /\ stored'.acl2 = stored.acl2 /\ stored'.pstat = svr'.pstat
    BY <1>8 DEF Resources
  <2>2. OperationalOwned(svr')
    BY <1>8, <2>1 DEF OperationalOwned, pstat_check_state
  <2>4. AllOf(svr, Now) => AllOf(svr', Now') /\ AllOf(stored', Now')
    BY <1>1, <1>2, <1>8, <2>1 DEF AllOf, SavedInv, Now
  <2> QED
    BY <1>1, <1>2, <2>1, <2>2, <2>4, ReadyStepInv DEF SavedInv
<1>9. ASSUME NEW r \in {"set", "clear"}, PostPstatOwner(c, r)
      PROVE  ResourcesInv'
  <2>1. /\ svr'.pstat = DecodedPstat(dos, r)
        /\ svr' = [svr EXCEPT !.pstat = svr'.pstat]
        /\ stored' = [stored EXCEPT !.pstat = svr'.pstat]
        /\ dos \notin {"RFPRO", "RFNOP"}
    BY <1>9 DEF PostPstatOwner, RownerWritable, Resources
  <2> QED
    BY <1>8, <2>1 DEF DecodedPstat
<1>10. ASSUME PostPstatReset(c)
       PROVE  ResourcesInv'
  <2>1. /\ svr'.pstat = [s |-> "RESET", rowneruuid |-> Nil]
        /\ svr' = [svr EXCEPT !.pstat = svr'.pstat]
        /\ stored' = [stored EXCEPT !.pstat = svr'.pstat]
    BY <1>10 DEF PostPstatReset, SetDelayedReset, Resources
  <2> QED
    BY <1>8, <2>1
<1>11. ASSUME NEW r \in {"keep", "set", "clear"}, PostPstatRFOTM(c, r)
       PROVE  ResourcesInv'
  <2>1. /\ svr'.pstat = [DecodedPstat("RFOTM", r) EXCEPT !.s = "RFOTM"]
        /\ svr' = [svr EXCEPT !.pstat = svr'.pstat]
        /\ stored' = [stored EXCEPT !.pstat = svr'.pstat]
    BY <1>11 DEF PostPstatRFOTM, EnterRFOTM, Resources
  <2> QED
    BY <1>8, <2>1 DEF DecodedPstat
<1>12. ASSUME NEW to \in {"RFPRO", "RFNOP", "SRESET"}, NEW at \in Dos,
              NEW r \in {"keep", "set", "clear"}, PostPstat(c, to, r, at)
       PROVE  ResourcesInv'
  <2>1. /\ svr'.pstat = DecodedPstat(to, r)
        /\ svr' = [svr EXCEPT !.pstat = svr'.pstat]
        /\ stored' = [stored EXCEPT !.pstat = svr'.pstat]
        /\ pstat_check_state(svr'.pstat)
    BY <1>12 DEF PostPstat, Resources
  <2> QED
    BY <1>8, <2>1 DEF DecodedPstat
<1> QED
  BY <1>3, <1>4, <1>5, <1>6, <1>7, <1>9, <1>10, <1>11, <1>12 DEF Request

-----------------------------------------------------------------------------
(* Sessions.                                                               *)

\* A step that opens no session and enters RFOTM only with the event that
\* closes all sessions in the queue, or without a session.
LEMMA DocKept ==
  ASSUME TypeOK, DocInv, \A c \in Client : peers'[c] \in {"none", peers[c]},
         dos' = "RFOTM" /\ ~close_all' =>
           (dos = "RFOTM" /\ ~close_all) \/ peers' = NoSession
  PROVE  DocInv'
  BY DEF DocInv, Sessions, NoSession, TypeOK

LEMMA DocStep ==
  ASSUME TypeOK, ProgramInv, DocInv, [Next]_vars
  PROVE  DocInv'
<1> USE DEF TypeOK
<1>1. CASE UNCHANGED vars
  BY <1>1 DEF vars, DocInv, Sessions, dos
<1>2. CASE ResetStep
  <2>1. UNCHANGED peers
    BY <1>2 DEF ResetStep, ResetCred, ResetAcl, ResetKeypairFails,
                ResetKeypair, ResetDump
  <2>2. CASE ResetKeypair
    BY <2>1, <2>2, DocKept DEF ResetKeypair, EnterRFOTM, ProgramInv
  <2>3. CASE ~ResetKeypair
    <3>1. dos' = dos /\ close_all' = close_all
      BY <1>2, <2>3 DEF ResetStep, ResetCred, ResetAcl, ResetKeypairFails,
                        ResetDump, Resources, dos
    <3> QED
      BY <2>1, <3>1, DocKept
  <2> QED
    BY <2>2, <2>3
<1>3. CASE ResetDevice \/ DelayedReset \/ PostOxmsel \/ ResetDeviceDelayed
  <2>1. dos' \in {dos, "RESET"} /\ UNCHANGED <<peers, close_all>>
    BY <1>3 DEF ResetDevice, DelayedReset, BeginReset, PostOxmsel, Resources,
                ResetDeviceDelayed, SetDelayedReset, dos
  <2> QED
    BY <2>1, DocKept
<1>4. ASSUME NEW c \in Client, OpenSession(c)
      PROVE  DocInv'
  <2>1. UNCHANGED <<svr, close_all>>
    BY <1>4 DEF OpenSession
  <2>2. CASE dos = "RFOTM"
    BY <1>4, <2>1, <2>2 DEF OpenSession, tls_is_valid_doc, DocInv, Sessions
  <2>3. CASE dos # "RFOTM"
    BY <2>1, <2>3 DEF DocInv, dos
  <2> QED
    BY <2>2, <2>3
<1>5. ASSUME NEW c \in Client, CloseSession(c)
      PROVE  DocInv'
  <2>1. dos' \in {dos, "RESET"} /\ UNCHANGED close_all
    BY <1>5 DEF CloseSession, SetDelayedReset, Resources, dos
  <2>2. \A d \in Client : peers'[d] \in {"none", peers[d]}
    BY <1>5 DEF CloseSession
  <2> QED
    BY <2>1, <2>2, DocKept
<1>6. ASSUME NEW c \in Client, Request(c)
      PROVE  DocInv'
  <2>1. UNCHANGED peers
    BY <1>6 DEF Request, PostDoxm, PostCred, DeleteCred, PostCredRowner,
                PostAclRowner, PostPstatOwner, PostPstatReset,
                PostPstatRFOTM, PostPstat
  <2>2. close_all' \/ (dos' # "RFOTM") \/ (dos' = dos /\ UNCHANGED close_all)
    <3>1. ASSUME NEW p \in {"owned", "devowneruuid", "rowneruuid"},
                 NEW v \in BOOLEAN, PostDoxm(c, p, v)
          PROVE  dos' = dos /\ UNCHANGED close_all
      BY <3>1 DEF PostDoxm, Resources, dos
    <3>2. ASSUME PostCred(c) \/ DeleteCred(c)
          PROVE  dos' = dos /\ UNCHANGED close_all
      BY <3>2 DEF PostCred, DeleteCred, Resources, dos
    <3>3. ASSUME NEW v \in BOOLEAN,
                 PostCredRowner(c, v) \/ PostAclRowner(c, v)
          PROVE  dos' = dos /\ UNCHANGED close_all
      BY <3>3 DEF PostCredRowner, PostAclRowner, Resources, dos
    <3>4. ASSUME NEW r \in {"set", "clear"}, PostPstatOwner(c, r)
          PROVE  dos' = dos /\ UNCHANGED close_all
      BY <3>4 DEF PostPstatOwner, DecodedPstat, Resources, dos
    <3>5. ASSUME PostPstatReset(c)
          PROVE  dos' # "RFOTM"
      BY <3>5 DEF PostPstatReset, SetDelayedReset, Resources, dos
    <3>6. ASSUME NEW r \in {"keep", "set", "clear"}, PostPstatRFOTM(c, r)
          PROVE  close_all'
      BY <3>6 DEF PostPstatRFOTM, EnterRFOTM, Ready
    <3>7. ASSUME NEW to \in {"RFPRO", "RFNOP", "SRESET"}, NEW at \in Dos,
                 NEW r \in {"keep", "set", "clear"}, PostPstat(c, to, r, at)
          PROVE  dos' # "RFOTM"
      BY <3>7 DEF PostPstat, DecodedPstat, Resources, dos
    <3> QED
      BY <1>6, <3>1, <3>2, <3>3, <3>4, <3>5, <3>6, <3>7 DEF Request
  <2> QED
    BY <2>1, <2>2, DocKept
<1>7. CASE CloseAll \/ Crash \/ Shutdown \/ Start
  <2>1. peers' = NoSession
    BY <1>7 DEF CloseAll, Crash, Volatile, Shutdown, Start, StartOwned,
                StartUnowned, ProgramInv
  <2> QED
    BY <2>1 DEF DocInv, Sessions, NoSession
<1> QED
  BY <1>1, <1>2, <1>3, <1>4, <1>5, <1>6, <1>7 DEF Next

-----------------------------------------------------------------------------
(* The theorems.                                                           *)

LEMMA StepInv == IInv /\ [Next]_vars => IInv'
<1> SUFFICES ASSUME IInv, [Next]_vars
             PROVE  IInv'
  OBVIOUS
<1>1. TypeOK /\ ResourcesInv /\ DocInv
  BY DEF IInv, ResourcesInv
<1>2. TypeOK' /\ DocInv'
  BY <1>1, TypeStep, DocStep DEF ResourcesInv
<1>3. ResourcesInv'
  <2>1. CASE UNCHANGED vars
    BY <1>1, <2>1 DEF vars, ResourcesInv, ProgramInv, ResetInv, SavedInv,
                      LoadableInv, MemoryInv, Ready, Now, dos, NoSession
  <2> QED
    BY <1>1, <2>1, ResetStepInv, ProgramStepInv, SessionStepInv,
       RequestInv DEF Next
<1> QED
  BY <1>2, <1>3 DEF IInv, ResourcesInv

LEMMA InvAlways == Spec => []IInv
  BY InitInv, StepInv, PTL DEF Spec

\* The type invariant: the resources in memory and in storage stay well
\* formed, and a reset runs only in a program that does.
THEOREM TypeCorrect == Spec => []TypeOK
<1>1. IInv => TypeOK
  BY DEF IInv
<1> QED
  BY <1>1, InvAlways, PTL

\* After a reset, or a start after a crash in the middle of one, no UUID and
\* no credential of a former owner is left (oc_pstat_handle_state,
\* main_load_resources).
THEOREM NoTraceOfOldOwner == Spec => []OldOwnerIsForgotten
<1>1. IInv => OldOwnerIsForgotten
  BY TagsOfResources DEF IInv, TypeOK, MemoryInv, OldOwnerIsForgotten
<1> QED
  BY <1>1, InvAlways, PTL

\* A device in RFPRO or RFNOP has an owner of the device and of every
\* security resource, and in RFNOP a credential (pstat_check_state and the
\* tests of the state in the handlers of doxm, cred, acl2 and pstat).
THEOREM OperationalHasOwner == Spec => []OperationalIsOwned
<1>1. IInv => OperationalIsOwned
  BY OwnersOfResources DEF IInv, TypeOK, MemoryInv, OperationalIsOwned,
                           OperationalOwned, dos
<1> QED
  BY <1>1, InvAlways, PTL

\* In RFOTM the only session is the device onboarding connection, once the
\* event that closes the sessions of before has been handled.
THEOREM OneOnboardingConnection == Spec => []DocIsExclusive
<1>1. ASSUME IInv
      PROVE  DocIsExclusive
  <2> SUFFICES ASSUME dos = "RFOTM", ~close_all
               PROVE  /\ Cardinality(Sessions) <= 1
                      /\ \A c \in Sessions : peers[c] = "doc"
    BY DEF DocIsExclusive
  <2>1. \A c, d \in Sessions : c = d /\ peers[c] = "doc"
    BY <1>1 DEF IInv, DocInv
  <2>2. CASE Sessions = {}
    BY <2>2, FS_EmptySet
  <2>3. CASE Sessions # {}
    <3>1. PICK c : Sessions = {c}
      BY <2>1, <2>3
    <3>2. Cardinality(Sessions) = 1
      <4>1. Cardinality({c}) = 1
        BY FS_Singleton
      <4> QED
        BY <3>1, <4>1
    <3> QED
      BY <2>1, <3>2
  <2> QED
    BY <2>2, <2>3
<1> QED
  BY <1>1, InvAlways, PTL

\* While the program runs, the state becomes RFOTM only when doxm has no
\* owner: at the end of a reset, which has wiped doxm first, or on a request
\* that pstat_check_state has passed.
THEOREM RFOTMIsUnowned == Spec => EntersRFOTMUnowned
<1>1. ASSUME IInv, [Next]_vars
      PROVE  [main = "up" /\ dos # "RFOTM" /\ dos' = "RFOTM" =>
                ~svr'.doxm.owned /\ svr'.doxm.devowneruuid = Nil]_vars
  <2> SUFFICES ASSUME Next, main = "up", dos # "RFOTM", dos' = "RFOTM"
               PROVE  ~svr'.doxm.owned /\ svr'.doxm.devowneruuid = Nil
    BY <1>1 DEF vars
  <2> USE <1>1 DEF IInv, TypeOK, Resources, dos
  <2>1. CASE ResetStep
    <3>1. svr'.doxm = svr.doxm /\ step # "idle"
      BY <2>1 DEF ResetStep, ResetCred, ResetAcl, ResetKeypairFails,
                  ResetKeypair, EnterRFOTM, ResetDump
    <3> QED
      BY <3>1 DEF ResetInv, DefaultDoxm
  <2>2. CASE \/ ResetDevice \/ ResetDeviceDelayed \/ DelayedReset
             \/ PostOxmsel \/ CloseAll \/ Crash
    BY <2>2 DEF ResetDevice, DelayedReset, BeginReset, PostOxmsel, CloseAll,
                Crash, ResetDeviceDelayed, SetDelayedReset
  <2>3. ASSUME NEW c \in Client, OpenSession(c) \/ CloseSession(c)
        PROVE  FALSE
    BY <2>3 DEF OpenSession, CloseSession, SetDelayedReset
  <2>4. ASSUME NEW c \in Client, Request(c)
        PROVE  ~svr'.doxm.owned /\ svr'.doxm.devowneruuid = Nil
    <3>1. ASSUME NEW p \in {"owned", "devowneruuid", "rowneruuid"},
                 NEW v \in BOOLEAN, PostDoxm(c, p, v)
          PROVE  FALSE
      BY <3>1 DEF PostDoxm
    <3>2. ~PostCred(c) /\ ~DeleteCred(c)
      BY DEF PostCred, DeleteCred
    <3>3. ASSUME NEW v \in BOOLEAN,
                 PostCredRowner(c, v) \/ PostAclRowner(c, v)
          PROVE  FALSE
      BY <3>3 DEF PostCredRowner, PostAclRowner
    <3>4. ASSUME NEW r \in {"set", "clear"}, PostPstatOwner(c, r)
          PROVE  FALSE
      BY <3>4 DEF PostPstatOwner, DecodedPstat
    <3>5. ~PostPstatReset(c)
      BY DEF PostPstatReset, SetDelayedReset
    <3>6. ASSUME NEW r \in {"keep", "set", "clear"}, PostPstatRFOTM(c, r)
          PROVE  ~svr'.doxm.owned /\ svr'.doxm.devowneruuid = Nil
      BY <3>6 DEF PostPstatRFOTM, EnterRFOTM, pstat_unowned
    <3>7. ASSUME NEW to \in {"RFPRO", "RFNOP", "SRESET"}, NEW at \in Dos,
                 NEW r \in {"keep", "set", "clear"}, PostPstat(c, to, r, at)
          PROVE  FALSE
      BY <3>7 DEF PostPstat, DecodedPstat
    <3> QED
      BY <2>4, <3>1, <3>2, <3>3, <3>4, <3>5, <3>6, <3>7 DEF Request
  <2>5. CASE Shutdown
    BY <2>5 DEF Shutdown, BeginReset
  <2>6. ~Start
    BY DEF Start, StartOwned, StartUnowned
  <2> QED
    BY <2>1, <2>2, <2>3, <2>4, <2>5, <2>6 DEF Next
<1> QED
  BY <1>1, InvAlways, PTL DEF Spec, EntersRFOTMUnowned
=============================================================================
