------------------------------ MODULE KeysProofs ------------------------------
(***************************************************************************)
(* What the services beside single keys guarantee for every instance:      *)
(* Hysteria2 keys and their auth process, the removal of a protocol, proxy *)
(* accesses, and key bundles.                                              *)
(***************************************************************************)
EXTENDS HysteriaKeys, ProtocolUninstall, ProxyAccess, KeyBundles, FiniteSetTheorems, WellFoundedInduction,
        TLAPS

-----------------------------------------------------------------------------
(* Hysteria2.                                                              *)

\* The auth process never holds an older file than it believes, and a handshake that has
\* passed the check reads a file at least as new as its beginning.
AuthInv ==
  /\ auth \in [conn : Nat, fileId : Nat, pc : {"closed", "stat", "open"}]
  /\ DOMAIN shake = {"key", "ok", "began", "pc"} /\ shake.began \in Nat /\ disk \in Nat
  /\ shake.began <= disk
  /\ auth.pc = "stat" => auth.conn = disk
  /\ auth.pc = "open" => auth.conn = auth.fileId
  /\ shake.pc = "query" => auth.pc = "open" /\ auth.conn >= shake.began

\* While the first file is on disk, the active keys of a blocked owner are those that the
\* sweep of the block has still to revoke.
SweepInv ==
  /\ db \in [1 .. MaxInodes -> [HyKeys -> HyStatuses]]
  /\ disk \in 1 .. MaxInodes /\ botConn = disk
  /\ \A k \in HyKeys : disk = 1 /\ HyOwner[k] \in blockedOf /\ Row(k) \in HyRevocable =>
       hySweep.owner = HyOwner[k] /\ k \in hySweep.left

\* A handshake is answered from a file at least as new as the one it began under: the inode
\* is compared before every read, and the connection reopened (_reopen_if_replaced).
LEMMA AuthStep ==
  ASSUME AuthInv, HyNext, ~SwapWhileOpening
  PROVE  AuthInv'
  <1> USE DEF AuthInv, NoShake, NoConn
  <1>1. ASSUME NEW k \in HyKeys, Issue(k) \/ RevokeHysteriaKey(k) \/ Delete(k) \/ SweepKey(k) \/ SessionEnds(k)
        PROVE  UNCHANGED <<auth, shake, disk>>
    BY <1>1 DEF Issue, RevokeHysteriaKey, Delete, SweepKey, SessionEnds
  <1>2. ASSUME NEW o \in Owners, BlockHolder(o) \/ UnblockHolder(o) PROVE UNCHANGED <<auth, shake, disk>>
    BY <1>2 DEF BlockHolder, UnblockHolder
  <1>3. CASE UNCHANGED <<auth, shake, disk>>  BY <1>3
  <1>4. ASSUME NEW k \in HyKeys, Handshake(k) PROVE AuthInv'  BY <1>4 DEF Handshake
  <1>5. ASSUME NEW rows, SwapFile(rows) PROVE AuthInv'  BY <1>5 DEF SwapFile
  <1>6. CASE OpenConn \/ OpenStat  BY <1>6 DEF OpenConn, OpenStat
  <1>7. CASE CheckFile
    <2>1. CASE Replaced
      <3>1. auth' = [auth EXCEPT !.conn = NoConn, !.pc = "closed"] /\ UNCHANGED <<shake, disk>> /\ shake.pc = "check"
        BY <1>7, <2>1 DEF CheckFile
      <3> QED BY <3>1
    <2>2. CASE ~Replaced
      <3>1. /\ shake' = [shake EXCEPT !.pc = "query"] /\ UNCHANGED <<auth, disk>>
            /\ auth.pc = "open" /\ auth.fileId = disk
        BY <1>7, <2>2 DEF CheckFile, Replaced
      <3>2. shake'.began = shake.began /\ DOMAIN shake' = DOMAIN shake  BY <3>1
      <3> QED BY <3>1, <3>2
    <2> QED BY <2>1, <2>2
  <1>8. CASE ReadRows
    <2>1. /\ UNCHANGED <<auth, disk>> /\ shake'.began = shake.began /\ shake'.pc = "answer"
          /\ DOMAIN shake' = DOMAIN shake
      BY <1>8 DEF ReadRows
    <2> QED BY <2>1
  <1>9. CASE Answer  BY <1>9 DEF Answer
  <1> QED BY <1>1, <1>2, <1>3, <1>4, <1>5, <1>6, <1>7, <1>8, <1>9 DEF HyNext, SweepEnds

\* A block reaches every key of its owner: none is issued once the role is written, and the
\* sweep lists what is there (block_user, revoke_user_keys).
LEMMA SweepStep ==
  ASSUME SweepInv, HyNext
  PROVE  SweepInv'
  <1> USE HyAssumption DEF SweepInv, HyStatuses, HyRevocable, Row, SetHyRow
  <1>1. ASSUME NEW k \in HyKeys, Issue(k) PROVE SweepInv'
    <2>1. PICK s \in {"active", "apply_failed", "pending_apply"} : db' = [db EXCEPT ![botConn][k] = s]
      BY <1>1 DEF Issue
    <2> QED BY <1>1, <2>1 DEF Issue
  <1>2. ASSUME NEW k \in HyKeys, RevokeHysteriaKey(k) \/ Delete(k) PROVE SweepInv'
    <2>1. PICK s \in {"revoked", "none"} : db' = [db EXCEPT ![botConn][k] = s]
      BY <1>2 DEF RevokeHysteriaKey, Delete
    <2>2. UNCHANGED <<blockedOf, disk, botConn, hySweep>>  BY <1>2 DEF RevokeHysteriaKey, Delete
    <2> QED BY <2>1, <2>2
  <1>3. ASSUME NEW k \in HyKeys, SweepKey(k) PROVE SweepInv'
    BY <1>3 DEF SweepKey
  <1>4. ASSUME NEW o \in Owners, BlockHolder(o) PROVE SweepInv'
    BY <1>4 DEF BlockHolder, NoHySweep
  <1>5. ASSUME NEW o \in Owners, UnblockHolder(o) PROVE SweepInv'
    BY <1>5 DEF UnblockHolder
  <1>6. CASE SweepEnds  BY <1>6 DEF SweepEnds
  <1>7. ASSUME NEW rows \in [HyKeys -> {"none", "active", "revoked"}], SwapFile(rows) PROVE SweepInv'
    BY <1>7 DEF SwapFile
  <1>8. ASSUME NEW k \in HyKeys, Handshake(k) \/ SessionEnds(k) PROVE SweepInv'
    BY <1>8 DEF Handshake, SessionEnds
  <1>9. CASE OpenConn \/ OpenStat \/ CheckFile \/ ReadRows \/ Answer
    BY <1>9 DEF OpenConn, OpenStat, CheckFile, ReadRows, Answer
  <1> QED BY <1>1, <1>2, <1>3, <1>4, <1>5, <1>6, <1>7, <1>8, <1>9 DEF HyNext

\* A client is let in on rows at least as new as its handshake, and a blocked owner keeps no
\* key a client could use.  The file is not replaced between the auth process's connect and
\* its stat: in that gap the inode it remembers is not the one it has open.
THEOREM HysteriaLetsIn == ASSUME ~SwapWhileOpening PROVE HySpec => []OnlyLiveRowsLetIn
  <1>1. HyInit => AuthInv /\ SweepInv
    BY HyAssumption DEF HyInit, AuthInv, SweepInv, NoShake, NoConn, NoHySweep, HyStatuses, HyRevocable, Row
  <1>2. AuthInv /\ SweepInv /\ UNCHANGED hyVars => AuthInv' /\ SweepInv'
    BY DEF AuthInv, SweepInv, hyVars, Row
  <1>3. AuthInv /\ SweepInv => OnlyLiveRowsLetIn
    BY DEF AuthInv, SweepInv, OnlyLiveRowsLetIn, AuthReadsTheLiveFile, BlockedCannotConnect, HyRevocable
  <1> QED BY <1>1, <1>2, <1>3, AuthStep, SweepStep, PTL DEF HySpec

-----------------------------------------------------------------------------
(* The removal of a protocol.                                              *)

\* The record of the task that runs, and the keys it is about
UninstallFrame ==
    /\ ukey \in [UKeys -> {"none", "wanted", "live", "stuck", "gone"}]
    /\ DOMAIN utask = {"what", "at", "todo", "failed", "sha", "listed"}
    /\ utask.at \in {"idle", "purge", "helper", "record"}

\* A purge that has not failed so far has taken off the backend all that it has looked at,
\* and every client that an uninstall listed is off before the helper runs.
PurgeInv ==
    /\ utask.at = "purge" => utask.todo \subseteq utask.listed /\ utask.listed \subseteq UKeys
    /\ utask.at = "purge" /\ ~utask.failed => \A k \in utask.listed \ utask.todo : ukey[k] = "gone"
    /\ utask.at \in {"helper", "record"} =>
         utask.listed \subseteq UKeys /\ \A k \in utask.listed : ukey[k] = "gone"

\* The plan that an uninstall under way would have removed is the one that was confirmed.
ConfirmedInv ==
    /\ utask.at = "purge" /\ utask.what = "uninstall" => utask.sha = confirmed
    /\ utask.at = "helper" => utask.sha = confirmed

\* The three together are inductive.
UninstallInv == UninstallFrame /\ PurgeInv /\ ConfirmedInv

\* A step of a key, a purge, a switch or the helper keeps them; no key comes back from
\* "gone", and the plan is compared again where the button is pressed.
LEMMA UninstallStep ==
  ASSUME UninstallInv, UninstallNext
  PROVE  UninstallInv'
  <1> USE DEF UninstallInv, UninstallFrame, PurgeInv, ConfirmedInv, UIdle
  <1>1. ASSUME NEW k \in UKeys, CreateChecks(k) \/ CreateLands(k) PROVE UninstallInv'
    <2>1. PICK s \in {"wanted", "live", "gone"} : ukey' = [ukey EXCEPT ![k] = s]
      BY <1>1 DEF CreateChecks, CreateLands
    <2>2. UNCHANGED <<utask, confirmed>> /\ ukey[k] # "gone"  BY <1>1 DEF CreateChecks, CreateLands
    <2> QED BY <2>1, <2>2
  <1>2. ASSUME NEW k \in UKeys, PurgeKey(k) PROVE UninstallInv'
    <2>1. /\ utask.at = "purge" /\ k \in utask.todo /\ confirmed' = confirmed
          /\ utask'.at = "purge" /\ utask'.todo = utask.todo \ {k} /\ utask'.listed = utask.listed
          /\ utask'.what = utask.what /\ utask'.sha = utask.sha /\ DOMAIN utask' = DOMAIN utask
      BY <1>2 DEF PurgeKey
    <2>2. \/ ukey' = [ukey EXCEPT ![k] = "gone"] /\ utask'.failed = utask.failed
          \/ ukey' = [ukey EXCEPT ![k] = "stuck"] /\ utask'.failed = TRUE
      BY <1>2 DEF PurgeKey
    <2> QED BY <2>1, <2>2
  <1>3. CASE DisableExec
    BY <1>3 DEF DisableExec, CollectIds, RowsIn
  <1>4. CASE SwitchOff
    <2>1. utask.at = "purge" /\ utask.todo = {} /\ UNCHANGED <<ukey, confirmed>>  BY <1>4 DEF SwitchOff
    <2>2. CASE utask.what = "uninstall" /\ ~utask.failed
      <3>1. utask' = [utask EXCEPT !.at = "helper"]  BY <1>4, <2>2 DEF SwitchOff
      <3> QED BY <2>1, <2>2, <3>1
    <2>3. CASE ~(utask.what = "uninstall" /\ ~utask.failed)
      BY <1>4, <2>1, <2>3 DEF SwitchOff
    <2> QED BY <2>2, <2>3
  <1>5. CASE EnableProtocol \/ PlanUninstall \/ PlanExpires \/ NothingToDo \/ HostChanges \/ Reinstall
    BY <1>5 DEF EnableProtocol, PlanUninstall, PlanExpires, NothingToDo, HostChanges, Reinstall
  <1>6. ASSUME NEW button \in 1..MaxVersion, PressUninstall(button) PROVE UninstallInv'
    BY <1>6 DEF PressUninstall, ApplyUninstall, CollectIds, RowsIn
  <1>7. CASE HelperPlanChanged \/ HelperFails \/ HelperTimesOut \/ RecordUninstalled
    BY <1>7 DEF HelperPlanChanged, HelperFails, HelperTimesOut, RecordUninstalled
  <1>8. CASE HelperRemoves
    <2>1. /\ utask.at = "helper" /\ utask' = [utask EXCEPT !.at = "record"]
          /\ UNCHANGED <<ukey, confirmed>>
      BY <1>8 DEF HelperRemoves
    <2> QED BY <2>1
  <1>9. CASE RestartReconcile
    BY <1>9 DEF RestartReconcile
  <1> QED BY <1>1, <1>2, <1>3, <1>4, <1>5, <1>6, <1>7, <1>8, <1>9 DEF UninstallNext

\* The invariant holds from the start on.
LEMMA UninstallHolds == UninstallSpec => []UninstallInv
  <1>1. UninstallInit => UninstallInv
    BY DEF UninstallInit, UninstallInv, UninstallFrame, PurgeInv, ConfirmedInv, UIdle
  <1>2. UninstallInv /\ UNCHANGED uninstallVars => UninstallInv'
    BY DEF UninstallInv, UninstallFrame, PurgeInv, ConfirmedInv, uninstallVars
  <1> QED BY <1>1, <1>2, UninstallStep, PTL DEF UninstallSpec

\* Once the helper may run, every client that the purge listed is off the backend.
THEOREM PurgeFirst == UninstallSpec => []PurgedBeforeRemoval
  <1>1. UninstallInv => PurgedBeforeRemoval
    BY DEF UninstallInv, PurgeInv, PurgedBeforeRemoval
  <1> QED BY <1>1, UninstallHolds, PTL

\* What the helper removes is what the administrator confirmed.
THEOREM ConfirmedPlan == UninstallSpec => OnlyConfirmedPlanRuns
  <1>1. ASSUME UninstallInv, [UninstallNext]_uninstallVars, host' = "removed", host # "removed"
        PROVE  version = confirmed
    <2>1. UninstallNext  BY <1>1 DEF uninstallVars
    <2>2. HelperRemoves \/ HelperTimesOut
      <3>1. ASSUME NEW k \in UKeys, CreateChecks(k) \/ CreateLands(k) \/ PurgeKey(k) PROVE host' = host
        BY <3>1 DEF CreateChecks, CreateLands, PurgeKey
      <3>2. ASSUME NEW button, PressUninstall(button) PROVE host' = host
        BY <3>2 DEF PressUninstall, ApplyUninstall
      <3> QED BY <1>1, <2>1, <3>1, <3>2 DEF UninstallNext, DisableExec, SwitchOff, EnableProtocol, PlanUninstall,
              PlanExpires, NothingToDo, HelperPlanChanged, HelperFails, RecordUninstalled, HostChanges,
              Reinstall, RestartReconcile
    <2> QED BY <1>1, <2>2 DEF HelperRemoves, HelperTimesOut, UninstallInv, ConfirmedInv
  <1> QED BY <1>1, UninstallHolds, PTL DEF UninstallSpec, OnlyConfirmedPlanRuns

-----------------------------------------------------------------------------
(* Proxy accesses.                                                         *)

\* The types of what a proxy access is, and which halves of the host a backend uses
ProxyFrame ==
    /\ ptype \in {"socks5", "mtproto"}
    /\ prow \in [PIds -> MayExist \cup Off] /\ amode \in [PIds -> {"managed", "static"}]
    /\ linux \in [PIds -> {"absent", "nopass", "open", "locked"}]
    /\ store \subseteq PIds
    /\ ptype = "socks5" => store = {} /\ \A a \in PIds : amode[a] = "managed"
    /\ ptype = "mtproto" => \A a \in PIds : linux[a] = "absent"

\* The mutation that has the service lock
ProxyTask ==
    /\ DOMAIN ptask = {"op", "a", "prev"}
    /\ ptask.op \in {"none", "apply", "mark", "compensate", "revoke", "delete"}
    /\ pphase = "boot" => ptask.op = "none" /\ ~sweep.on
    /\ ptask.op # "none" => ptask.a \in PIds /\ amode[ptask.a] = "managed"
    /\ ptask.op \in {"apply", "mark", "compensate"} => prow[ptask.a] = "pending_apply"
    /\ ptask.op = "mark" => IF ptype = "socks5" THEN linux[ptask.a] # "absent" ELSE ptask.a \in store
    /\ ptask.op = "revoke" =>
         /\ prow[ptask.a] = "pending_revoke" /\ ptask.prev \in MayExist
         /\ ptype = "socks5" /\ ptask.prev = "active" => linux[ptask.a] # "absent"
    /\ ptask.op = "delete" => ptype = "socks5" /\ prow[ptask.a] = "pending_delete"

\* A secret in the file belongs to a managed access that is not off; one that was never
\* issued is still managed.
StoreInv ==
    /\ \A a \in store : prow[a] \in MayExist /\ amode[a] = "managed"
    /\ \A a \in PIds : prow[a] = "none" => amode[a] = "managed"

\* The inductive invariant of both services
ProxyInv == ProxyFrame /\ ProxyTask /\ StoreInv /\ RowsMatchBackend

\* Every list that is written holds all active accesses and none that is off.
LEMMA DesiredSecrets ==
  ASSUME ProxyInv, NEW extra, NEW without
  PROVE  /\ Desired(extra, without) \subseteq ActiveManaged \cup extra
         /\ ActiveManaged \ without \subseteq Desired(extra, without)
         /\ \A a \in without : a \notin Desired(extra, without)
  BY DEF Desired

\* A row is set by a step that leaves the host alone.
LEMMA ProxyRowSteps ==
  ASSUME ProxyInv, NEW a \in PIds,
         \/ IssueStatic(a) \/ IssueStart(a) \/ Revoke(a) \/ DeactivateStatic(a)
         \/ DeleteSocksStart(a) \/ DeleteMtproto(a) \/ SweepRevoke(a)
  PROVE  ProxyInv'
  <1> USE ProxyAssumption DEF ProxyInv, ProxyFrame, ProxyTask, StoreInv, RowsMatchBackend, NoGhostProxy,
          ActiveHasBackend, MayExist, Off, SetRow, rowVars, hostVars, PIdle
  <1>1. CASE IssueStatic(a)  BY <1>1 DEF IssueStatic, CanIssue
  <1>2. CASE IssueStart(a)  BY <1>2 DEF IssueStart, CanIssue
  <1>3. CASE Revoke(a)  BY <1>3 DEF Revoke, RevokeBegin, CanRevoke
  <1>4. CASE DeactivateStatic(a)  BY <1>4 DEF DeactivateStatic
  <1>5. CASE DeleteSocksStart(a)
    <2>1. /\ prow' = [prow EXCEPT ![a] = "pending_delete"] /\ ptask' = [op |-> "delete", a |-> a, prev |-> prow[a]]
          /\ UNCHANGED <<ptype, amode, linux, store, pphase, sweep>> /\ pphase = "up"
          /\ ptype = "socks5" /\ prow[a] \notin {"none", "deleted"}
      BY <1>5 DEF DeleteSocksStart
    <2>2. ProxyFrame'
      BY <2>1
    <2>3. ProxyTask'
      BY <2>1
    <2>4. StoreInv' /\ RowsMatchBackend'
      BY <2>1
    <2>. QED BY <2>2, <2>3, <2>4
  <1>6. CASE DeleteMtproto(a)  BY <1>6 DEF DeleteMtproto
  <1>7. CASE SweepRevoke(a)
    <2>1. CASE CanRevoke(a)  BY <1>7, <2>1 DEF SweepRevoke, RevokeBegin, CanRevoke, SweepRows
    <2>2. CASE ~CanRevoke(a)  BY <1>7, <2>2 DEF SweepRevoke, SweepRows
    <2> QED BY <2>1, <2>2
  <1> QED BY <1>1, <1>2, <1>3, <1>4, <1>5, <1>6, <1>7

\* The steps of an issue: what an apply leaves behind belongs to the access it was for.
LEMMA ProxyIssueSteps ==
  ASSUME ProxyInv, IssueApply \/ IssueMark \/ CompensateSocks \/ CompensateMtproto
  PROVE  ProxyInv'
  <1> USE ProxyAssumption DEF ProxyInv, ProxyFrame, ProxyTask, StoreInv, RowsMatchBackend, NoGhostProxy,
          ActiveHasBackend, MayExist, Off, SetRow, rowVars, hostVars, PIdle, Desired, ActiveManaged
  <1>1. CASE IssueApply /\ ptype = "socks5"
    <2>1. /\ ptask.op = "apply" /\ UNCHANGED <<ptype, amode, sweep, pphase, store>>
          /\ \E u \in {"absent", "nopass", "open"} : linux' = [linux EXCEPT ![ptask.a] = u]
      BY <1>1 DEF IssueApply, CreateUser, CreateUserFails
    <2>2. CASE ptask' = [ptask EXCEPT !.op = "mark"] /\ prow' = prow /\ linux' = [linux EXCEPT ![ptask.a] = "open"]
      BY <1>1, <2>1, <2>2
    <2>3. CASE ptask' = PIdle /\ (prow' = prow \/ prow' = [prow EXCEPT ![ptask.a] = "apply_failed"])
      BY <1>1, <2>1, <2>3
    <2> QED BY <1>1, <2>2, <2>3 DEF IssueApply, CreateUser
  <1>2. CASE IssueApply /\ ptype = "mtproto"
    <2>1. /\ ptask.op = "apply" /\ UNCHANGED <<ptype, amode, sweep, pphase, linux>>
          /\ store' \in {store, Desired({ptask.a}, {})}
      BY <1>2 DEF IssueApply, ApplySecrets, ApplySecretsFails
    <2>2. CASE ptask' = [ptask EXCEPT !.op = "mark"] /\ prow' = prow /\ store' = Desired({ptask.a}, {})
      BY <1>2, <2>1, <2>2
    <2>3. CASE ptask' = PIdle /\ (prow' = prow \/ prow' = [prow EXCEPT ![ptask.a] = "apply_failed"])
      BY <1>2, <2>1, <2>3
    <2> QED BY <1>2, <2>2, <2>3 DEF IssueApply, ApplySecrets
  <1>3. CASE IssueMark
    BY <1>3 DEF IssueMark
  <1>4. CASE CompensateSocks
    BY <1>4 DEF CompensateSocks, DeleteUser, LockUser, LockUserFails
  <1>5. CASE CompensateMtproto
    <2>1. /\ ptask.op = "compensate" /\ ptype = "mtproto" /\ UNCHANGED <<ptype, amode, sweep, pphase, linux>>
          /\ store' \in {store, Desired({}, {ptask.a})} /\ ptask' = PIdle
          /\ prow' = prow \/ prow' = [prow EXCEPT ![ptask.a] = "apply_failed"]
      BY <1>5 DEF CompensateMtproto, ApplySecrets, ApplySecretsFails
    <2>2. ProxyFrame'  BY <2>1
    <2>3. ProxyTask'  BY <2>1
    <2>4. StoreInv'  BY <2>1
    <2>5. RowsMatchBackend'  BY <2>1
    <2> QED BY <2>2, <2>3, <2>4, <2>5
  <1> QED BY <1>1, <1>2, <1>3, <1>4, <1>5

\* The steps of a revoke or delete: the row follows only what is known to be off.
LEMMA ProxyRevokeSteps ==
  ASSUME ProxyInv, RevokeSocks \/ RevokeMtproto \/ DeleteSocks
  PROVE  ProxyInv'
  <1> USE ProxyAssumption DEF ProxyInv, ProxyFrame, ProxyTask, StoreInv, RowsMatchBackend, NoGhostProxy,
          ActiveHasBackend, MayExist, Off, SetRow, rowVars, hostVars, PIdle, Desired, ActiveManaged
  <1>1. CASE RevokeSocks
    <2>1. /\ ptask.op = "revoke" /\ ptype = "socks5" /\ UNCHANGED <<ptype, amode, sweep, pphase, store>>
          /\ ptask' = PIdle
      BY <1>1 DEF RevokeSocks
    <2>2. CASE LockUser(ptask.a) /\ (prow' = prow \/ prow' = [prow EXCEPT ![ptask.a] = "revoked"])
      BY <2>1, <2>2 DEF LockUser
    <2>3. CASE LockUserFails(ptask.a) /\ prow' = [prow EXCEPT ![ptask.a] = ptask.prev]
      BY <2>1, <2>3 DEF LockUser, LockUserFails
    <2> QED BY <1>1, <2>2, <2>3 DEF RevokeSocks
  <1>2. CASE RevokeMtproto
    <2>1. /\ ptask.op = "revoke" /\ ptype = "mtproto" /\ UNCHANGED <<ptype, amode, sweep, pphase, linux>>
          /\ ptask' = PIdle
      BY <1>2 DEF RevokeMtproto
    <2>2. CASE store' = Desired({}, {ptask.a}) /\ (prow' = prow \/ prow' = [prow EXCEPT ![ptask.a] = "revoked"])
      BY <2>1, <2>2
    <2>3. CASE store' \in {store, Desired({}, {ptask.a})} /\ prow' = [prow EXCEPT ![ptask.a] = "revoke_failed"]
      BY <2>1, <2>3
    <2> QED BY <1>2, <2>2, <2>3 DEF RevokeMtproto, ApplySecrets, ApplySecretsFails
  <1>3. CASE DeleteSocks
    BY <1>3 DEF DeleteSocks, DeleteUser, DeleteUserFails
  <1> QED BY <1>1, <1>2, <1>3

\* A restart leaves what the command under way may have done, and startup settles each row
\* by what it finds.
LEMMA ProxyBootSteps ==
  ASSUME ProxyInv,
         \/ ProxyRestart \/ BootSocksEnd \/ BootDrift
         \/ \E a \in PIds : BootSocks(a) \/ BootMtproto(a) \/ BootMtprotoRemoval(a)
  PROVE  ProxyInv'
  <1> USE ProxyAssumption DEF ProxyInv, ProxyFrame, ProxyTask, StoreInv, RowsMatchBackend, NoGhostProxy,
          ActiveHasBackend, MayExist, Off, SetRow, rowVars, hostVars, PIdle, Desired, ActiveManaged
  <1>1. CASE ProxyRestart
    <2>1. UNCHANGED <<ptype, prow, amode>> /\ ptask' = PIdle /\ sweep' = NoSweep
      BY <1>1 DEF ProxyRestart
    <2>2. \/ linux' = linux
          \/ /\ ptype = "socks5" /\ ptask.op = "apply"
             /\ \E u \in {"absent", "nopass", "open"} : linux' = [linux EXCEPT ![ptask.a] = u]
      BY <1>1 DEF ProxyRestart, CreateUserFails
    <2>3. \/ store' = store
          \/ ptype = "mtproto" /\ ptask.op = "apply" /\ store' = Desired({ptask.a}, {})
          \/ ptype = "mtproto" /\ ptask.op = "revoke" /\ store' = Desired({}, {ptask.a})
      BY <1>1 DEF ProxyRestart
    <2>4. ProxyFrame'
      <3>1. store' \subseteq PIds /\ (ptype = "socks5" => store' = {})  BY <2>3
      <3>2. linux' \in [PIds -> {"absent", "nopass", "open", "locked"}]  BY <2>2
      <3>3. ptype = "mtproto" => linux' = linux  BY <2>2
      <3> QED BY <2>1, <3>1, <3>2, <3>3
    <2>5. ProxyTask'  BY <2>1, <2>2, <2>3 DEF NoSweep
    <2>6. StoreInv'  BY <2>1, <2>2, <2>3 DEF NoSweep
    <2>7. RowsMatchBackend'  BY <2>1, <2>2, <2>3 DEF NoSweep
    <2> QED BY <2>4, <2>5, <2>6, <2>7
  <1>2. CASE BootSocksEnd  BY <1>2 DEF BootSocksEnd
  <1>3. CASE BootDrift
    <2>1. /\ UNCHANGED <<ptype, prow, amode, linux, ptask, sweep>> /\ ptype = "mtproto" /\ pphase' = "up"
          /\ pphase = "boot" /\ store' \in {store, Desired({}, {})}
      BY <1>3 DEF BootDrift, ApplySecrets, ApplySecretsFails, BootFatal
    <2>2. ProxyFrame'  BY <2>1
    <2>3. ProxyTask'  BY <2>1
    <2>4. StoreInv'  BY <2>1
    <2>5. RowsMatchBackend'  BY <2>1
    <2> QED BY <2>2, <2>3, <2>4, <2>5
  <1>4. ASSUME NEW a \in PIds, BootSocks(a) PROVE ProxyInv'
    <2>1. /\ ptype = "socks5" /\ pphase = "boot"
          /\ UNCHANGED <<ptype, amode, store, ptask, sweep, pphase>>
      BY <1>4 DEF BootSocks, NextRow
    <2>2. CASE UNCHANGED <<prow, linux>>  BY <2>1, <2>2
    <2>3. CASE UNCHANGED linux /\ linux[a] # "absent" /\ prow' = [prow EXCEPT ![a] = "active"]  BY <2>1, <2>3
    <2>4. CASE UNCHANGED linux /\ prow' = [prow EXCEPT ![a] = "apply_failed"]  BY <2>1, <2>4
    <2>5. CASE LockUser(a) /\ prow' = [prow EXCEPT ![a] = "revoked"]  BY <2>1, <2>5 DEF LockUser
    <2>6. CASE DeleteUser(a) /\ prow' = [prow EXCEPT ![a] = "deleted"]  BY <2>1, <2>6 DEF DeleteUser
    <2> QED BY <1>4, <2>2, <2>3, <2>4, <2>5, <2>6 DEF BootSocks
  <1>5. ASSUME NEW a \in PIds, BootMtproto(a) PROVE ProxyInv'
    <2>1. /\ ptype = "mtproto" /\ pphase = "boot" /\ prow[a] = "pending_apply"
          /\ UNCHANGED <<ptype, amode, linux, ptask, sweep, pphase>>
      BY <1>5 DEF BootMtproto, NextRow
    <2>2. CASE a \in store /\ store' = store /\ prow' = [prow EXCEPT ![a] = "active"]  BY <2>1, <2>2
    <2>3. CASE store' \in {store, Desired({}, {a})} /\ (prow' = prow \/ prow' = [prow EXCEPT ![a] = "apply_failed"])
      BY <2>1, <2>3
    <2> QED BY <1>5, <2>2, <2>3 DEF BootMtproto, ApplySecrets, ApplySecretsFails
  <1>6. ASSUME NEW a \in PIds, BootMtprotoRemoval(a) PROVE ProxyInv'
    <2>1. /\ ptype = "mtproto" /\ pphase = "boot"
          /\ UNCHANGED <<ptype, amode, linux, ptask, sweep>>
      BY <1>6 DEF BootMtprotoRemoval, NextRow
    <2>2. CASE store' \in {store, Desired({}, {})} /\ prow' = prow  BY <2>1, <2>2
    <2>3. CASE /\ store' = Desired({}, {}) /\ prow[a] \in {"pending_revoke", "revoke_failed"}
               /\ prow' = [prow EXCEPT ![a] = "revoked"]
      BY <2>1, <2>3
    <2> QED BY <1>6, <2>2, <2>3 DEF BootMtprotoRemoval, ApplySecrets, ApplySecretsFails, BootFatal
  <1> QED BY <1>1, <1>2, <1>3, <1>4, <1>5, <1>6

\* Nobody is let in whom the bot calls revoked, and nobody is shut out whom it calls active,
\* for every set of accesses and owners, and whatever fails or crashes.
THEOREM ProxyRows == ProxySpec => []RowsMatchBackend
  <1>1. ProxyInit => ProxyInv
    BY ProxyAssumption DEF ProxyInit, ProxyInv, ProxyFrame, ProxyTask, StoreInv, RowsMatchBackend, NoGhostProxy,
       ActiveHasBackend, MayExist, Off, PIdle, NoSweep
  <1>2. ASSUME ProxyInv, ProxyNext PROVE ProxyInv'
    <2>1. ASSUME (\E o \in POwners : Block(o) \/ Unblock(o)) \/ SweepEnd PROVE ProxyInv'
      <3>1. UNCHANGED <<ptype, prow, amode, linux, store, ptask, pphase>>
        BY <2>1 DEF Block, Unblock, SweepEnd, rowVars, hostVars
      <3>2. pphase = "boot" => ~sweep'.on
        BY <1>2, <2>1 DEF Block, Unblock, SweepEnd, NoSweep, ProxyInv, ProxyTask
      <3> QED BY <1>2, <3>1, <3>2 DEF ProxyInv, ProxyFrame, ProxyTask, StoreInv, RowsMatchBackend,
              NoGhostProxy, ActiveHasBackend
    <2> QED BY <1>2, <2>1, ProxyRowSteps, ProxyIssueSteps, ProxyRevokeSteps, ProxyBootSteps DEF ProxyNext
  <1>3. ProxyInv /\ UNCHANGED proxyVars => ProxyInv'
    BY DEF ProxyInv, ProxyFrame, ProxyTask, StoreInv, RowsMatchBackend, NoGhostProxy, ActiveHasBackend, proxyVars
  <1>4. ProxyInv => RowsMatchBackend  BY DEF ProxyInv
  <1> QED BY <1>1, <1>2, <1>3, <1>4, PTL DEF ProxySpec

-----------------------------------------------------------------------------
(* The URL of a bundle.                                                    *)

\* A bundle whose revocation or deletion was asked for is never active again.
EndedInv ==
    /\ DOMAIN bundle = Bundles /\ \A b \in Bundles : DOMAIN bundle[b] = {"st", "kind", "tok"}
    /\ ended \subseteq Bundles
    /\ \A b \in ended : bundle[b].st \notin {"absent", "active"}

\* The status is written before anything else, and no later write, unwinding or
\* interruption takes it back: only create_bundle writes ACTIVE, and on a new row.
LEMMA EndedStep ==
  ASSUME EndedInv, BundlesNext
  PROVE  EndedInv'
  <1> USE DEF EndedInv, BundleStatuses, Kinds, SetBundle, others
  <1>1. ASSUME NEW b \in Bundles, CreateBundle(b) PROVE EndedInv'
    <2>1. PICK kind \in Kinds : bundle' = [bundle EXCEPT ![b] = [st |-> "active", kind |-> kind, tok |-> "issued"]]
      BY <1>1 DEF CreateBundle
    <2>2. bundle[b].st = "absent" /\ ended' = ended  BY <1>1 DEF CreateBundle
    <2> QED BY <2>1, <2>2
  <1>2. ASSUME NEW b \in Bundles, RevokeBundle(b) \/ DeleteBundle(b) PROVE EndedInv'
    <2>1. PICK s \in {"pending_revoke", "pending_delete"} : bundle' = [bundle EXCEPT ![b].st = s]
      BY <1>2 DEF RevokeBundle, DeleteBundle
    <2>2. ended' = ended \cup {b}  BY <1>2 DEF RevokeBundle, DeleteBundle
    <2> QED BY <2>1, <2>2
  <1>3. ASSUME NEW b \in Bundles, ChangeFingerprint(b) \/ ReconcileComposition(b) PROVE UNCHANGED <<bundle, ended>>
    BY <1>3 DEF ChangeFingerprint, ReconcileComposition, StartReconcile
  <1>4. CASE UnwindRow \/ MarkBundleFailed \/ RetireBundle \/ RemoveRow
    <2>1. ended' = ended  BY <1>4 DEF UnwindRow, MarkBundleFailed, RetireBundle, RemoveRow
    <2>2. \/ bundle' = bundle
          \/ \E s \in {"gone", "delete_failed", "revoked"} : bundle' = [bundle EXCEPT ![bop.b].st = s]
      BY <1>4 DEF UnwindRow, MarkBundleFailed, RetireBundle, RemoveRow
    <2> QED BY <2>1, <2>2
  <1>5. CASE RotateToken
    <2>1. ended' = ended /\ (bundle' = bundle \/ bundle' = [bundle EXCEPT ![bop.b].tok = "rotated"])
      BY <1>5 DEF RotateToken
    <2> QED BY <2>1
  <1>6. CASE SetKind
    <2>1. ended' = ended /\ (bundle' = bundle \/ bundle' = [bundle EXCEPT ![bop.b].kind = bop.kind])
      BY <1>6 DEF SetKind
    <2> QED BY <2>1
  <1>7. CASE \/ Provision \/ ProvisionFails \/ AttachChild \/ AttachFails \/ CreateDone \/ UnwindChild
             \/ RevokeChild \/ StampChild \/ StampDone \/ RemoveChild \/ ReconcileMade \/ ReconcileFailed \/ DropChild
    BY <1>7 DEF Provision, ProvisionFails, AttachChild, AttachFails, CreateDone, UnwindChild, RevokeChild, StampChild,
       StampDone, RemoveChild, ReconcileMade, ReconcileFailed, DropChild
  <1>8. CASE BulkStep \/ BundleWorld
    BY <1>8 DEF BulkStep, BulkStart, BulkBundle, StartReconcile, BulkSkips, BulkEnd, BulkStop, BundleWorld, Interrupt,
       OtherRevokes, OtherDeletes, ModuleSwitch, RelaySwitch, HealthChanges, DeadlinePasses
  <1> QED BY <1>1, <1>2, <1>3, <1>4, <1>5, <1>6, <1>7, <1>8 DEF BundlesNext, BundleCall, BundleStep

\* From the first status that revoke_bundle or delete_bundle writes, the URL yields no link,
\* whether or not the children could be revoked and the token rotated.
THEOREM DeadUrl == BundlesSpec => []RevokedUrlIsDead
  <1>1. BundlesInit => EndedInv  BY DEF BundlesInit, EndedInv
  <1>2. EndedInv /\ UNCHANGED bundleVars => EndedInv'  BY DEF EndedInv, bundleVars
  <1>3. EndedInv => RevokedUrlIsDead
    BY DEF EndedInv, RevokedUrlIsDead, Served, RenderLinks, LoadActiveBundle
  <1> QED BY <1>1, <1>2, <1>3, EndedStep, PTL DEF BundlesSpec

-----------------------------------------------------------------------------
(* The children of a bundle.                                               *)

\* A larger member of a finite set has more members below it.
LEMMA MoreBelow ==
  ASSUME NEW S \in SUBSET Nat, IsFiniteSet(S), NEW x \in S, NEW y \in S, x < y
  PROVE  Cardinality({z \in S : z < x}) < Cardinality({z \in S : z < y})
  <1> DEFINE A == {z \in S : z < x}
             B == {z \in S : z < y}
  <1>1. \A z \in S : z < x => z < y
    <2>1. \A z \in S : z \in Nat  OBVIOUS
    <2> QED BY <2>1
  <1>2. A \in SUBSET B /\ B \in SUBSET S  BY <1>1
  <1>3. x \in B /\ x \notin A  OBVIOUS
  <1> HIDE DEF A, B
  <1>4. IsFiniteSet(B) /\ IsFiniteSet(A)  BY <1>2, FS_Subset
  <1>5. Cardinality(A) <= Cardinality(B) /\ Cardinality(A) # Cardinality(B)  BY <1>2, <1>3, <1>4, FS_Subset
  <1>6. Cardinality(A) \in Nat /\ Cardinality(B) \in Nat  BY <1>4, FS_CardinalityType
  <1>7. Cardinality(A) < Cardinality(B)  BY <1>5, <1>6
  <1> QED BY <1>7 DEF A, B

\* Every place up to its size is the number of smaller members of one member of a finite set.
LEMMA Ranks ==
  ASSUME NEW S \in SUBSET Nat, IsFiniteSet(S), NEW n \in 0 .. Cardinality(S) - 1
  PROVE  \E x \in S : Cardinality({y \in S : y < x}) = n
  <1> DEFINE Below(x) == {y \in S : y < x}
             rank == [x \in S |-> Cardinality(Below(x))]
             places == 0 .. Cardinality(S) - 1
             R == {rank[x] : x \in S}
  <1>0. Cardinality(S) \in Nat  BY FS_CardinalityType
  <1>1. ASSUME NEW x \in S PROVE IsFiniteSet(Below(x)) /\ rank[x] \in places
    <2>1. Below(x) \in SUBSET S /\ x \notin Below(x)  OBVIOUS
    <2>2. IsFiniteSet(Below(x)) /\ Cardinality(Below(x)) <= Cardinality(S) /\ Cardinality(Below(x)) # Cardinality(S)
      BY <2>1, FS_Subset
    <2>3. Cardinality(Below(x)) \in Nat  BY <2>2, FS_CardinalityType
    <2> QED BY <1>0, <2>2, <2>3
  <1>2. ASSUME NEW x \in S, NEW y \in S, x < y PROVE rank[x] < rank[y]
    BY <1>2, MoreBelow
  <1>3. rank \in [S -> R] /\ R \in SUBSET places  BY <1>1
  <1>4. ASSUME NEW x \in S, NEW y \in S, rank[x] = rank[y] PROVE x = y
    <2>1. rank[x] \in Nat /\ rank[y] \in Nat  BY <1>1
    <2> HIDE DEF rank
    <2>2. ~(x < y)  BY <2>1, <1>2, <1>4
    <2>3. ~(y < x)  BY <2>1, <1>2, <1>4
    <2> QED BY <2>2, <2>3
  <1>5. rank \in Bijection(S, R)
    <2> HIDE DEF rank
    <2>1. R = {rank[x] : x \in S}  OBVIOUS
    <2> HIDE DEF R
    <2> QED BY <1>3, <1>4, <2>1 DEF Bijection, Injection, Surjection, IsInjective
  <1>6. Cardinality(R) = Cardinality(S) /\ IsFiniteSet(R)
    <2> HIDE DEF rank, R
    <2> QED BY <1>5, FS_Bijection DEF ExistsBijection
  <1>7. IsFiniteSet(places) /\ Cardinality(places) = Cardinality(S)
    BY <1>0, FS_Interval
  <1>8. R = places
    <2> HIDE DEF R, places
    <2> QED BY <1>3, <1>6, <1>7, FS_Subset
  <1>9. PICK x \in S : rank[x] = n  BY <1>8
  <1> QED BY <1>9

\* Ascending lists each member of the set.
LEMMA Listed ==
  ASSUME NEW S \in SUBSET Nat, IsFiniteSet(S)
  PROVE  Ascending(S) \in Seq(S) /\ Range(Ascending(S)) = S /\ Len(Ascending(S)) = Cardinality(S)
  <1> DEFINE Below(x) == {y \in S : y < x}
             n == Cardinality(S)
  <1>0. n \in Nat  BY FS_CardinalityType
  <1>1. Ascending(S) = [i \in 1..n |-> CHOOSE x \in S : Cardinality(Below(x)) = i - 1]  BY DEF Ascending
  <1>2. ASSUME NEW i \in 1..n PROVE Ascending(S)[i] \in S /\ Cardinality(Below(Ascending(S)[i])) = i - 1
    <2>1. \E x \in S : Cardinality(Below(x)) = i - 1
      <3>1. i - 1 \in 0 .. Cardinality(S) - 1  BY <1>0
      <3> QED BY <3>1, Ranks
    <2>2. Ascending(S)[i] = CHOOSE x \in S : Cardinality(Below(x)) = i - 1  BY <1>1
    <2> HIDE DEF Below
    <2> QED BY <2>1, <2>2
  <1>3. Ascending(S) \in [1..n -> S]
    <2>1. DOMAIN Ascending(S) = 1..n  BY <1>1
    <2>2. Ascending(S) = [i \in 1..n |-> Ascending(S)[i]]  BY <1>1
    <2> QED BY <1>2, <2>1, <2>2
  <1>4. Ascending(S) \in Seq(S) /\ Len(Ascending(S)) = n /\ DOMAIN Ascending(S) = 1..n
    <2> HIDE DEF n
    <2> QED BY <1>0, <1>3
  <1>5. ASSUME NEW x \in S PROVE x \in Range(Ascending(S))
    <2> DEFINE r == Cardinality(Below(x))
    <2>1. Below(x) \in SUBSET S /\ x \notin Below(x)  OBVIOUS
    <2>2. IsFiniteSet(Below(x)) /\ r <= n /\ r # n
      BY <2>1, FS_Subset
    <2>3. r \in Nat  BY <2>2, FS_CardinalityType
    <2>4. r + 1 \in 1..n  BY <1>0, <2>2, <2>3
    <2> DEFINE z == Ascending(S)[r + 1]
    <2>5. z \in S /\ Cardinality(Below(z)) = r
      <3>1. z \in S /\ Cardinality(Below(z)) = (r + 1) - 1  BY <1>2, <2>4
      <3> QED BY <3>1, <2>3
    <2>6. ASSUME z # x PROVE FALSE
      <3>1. z < x \/ x < z
        <4>1. x \in Nat /\ z \in Nat  BY <2>5
        <4> HIDE DEF z
        <4> QED BY <4>1, <2>6
      <3>2. CASE z < x
        <4>1. Cardinality(Below(z)) < r  BY <2>5, <3>2, MoreBelow
        <4> QED BY <4>1, <2>3, <2>5
      <3>3. CASE x < z
        <4>1. r < Cardinality(Below(z))  BY <2>5, <3>3, MoreBelow
        <4> QED BY <4>1, <2>3, <2>5
      <3> QED BY <3>1, <3>2, <3>3
    <2> QED BY <2>4, <2>6, <1>4 DEF Range
  <1>6. Range(Ascending(S)) \subseteq S  BY <1>2, <1>4 DEF Range
  <1> QED BY <1>4, <1>5, <1>6

\* Keep returns the members of the sequence that are in the set.
LEMMA Kept ==
  ASSUME NEW T, NEW s \in Seq(T), NEW A
  PROVE  Keep(s, A) \in Seq(T) /\ Range(Keep(s, A)) = Range(s) \cap A
  <1> DEFINE D == {i \in DOMAIN s : s[i] \in A}
             at == Ascending(D)
  <1>1. D \in SUBSET Nat /\ D \in SUBSET (1..Len(s)) /\ Len(s) \in Nat  OBVIOUS
  <1>2. IsFiniteSet(D)
    <2>1. IsFiniteSet(1..Len(s))  BY <1>1, FS_Interval
    <2> HIDE DEF D
    <2> QED BY <1>1, <2>1, FS_Subset
  <1>3. at \in Seq(D) /\ Range(at) = D
    <2> HIDE DEF D
    <2> QED BY <1>1, <1>2, Listed
  <1>4. Keep(s, A) = [i \in DOMAIN at |-> s[at[i]]]  BY DEF Keep
  <1> HIDE DEF at
  <1>5. DOMAIN at = 1..Len(at) /\ Len(at) \in Nat /\ \A i \in DOMAIN at : at[i] \in D
    BY <1>3
  <1>6. Keep(s, A) \in [1..Len(at) -> T]
    <2>1. \A i \in DOMAIN at : s[at[i]] \in T  BY <1>5
    <2> HIDE DEF D
    <2> QED BY <1>4, <1>5, <2>1
  <1>7. Keep(s, A) \in Seq(T) /\ DOMAIN Keep(s, A) = DOMAIN at
    <2> HIDE DEF D
    <2> QED BY <1>5, <1>6
  <1>8. ASSUME NEW x \in Range(s) \cap A PROVE x \in Range(Keep(s, A))
    <2>1. PICK i \in DOMAIN s : s[i] = x  BY <1>8 DEF Range
    <2>2. i \in Range(at)  BY <1>3, <2>1, <1>8
    <2>3. PICK j \in DOMAIN at : at[j] = i  BY <2>2 DEF Range
    <2>4. Keep(s, A)[j] = x  BY <1>4, <2>1, <2>3
    <2> HIDE DEF D
    <2> QED BY <1>7, <2>3, <2>4 DEF Range
  <1>9. ASSUME NEW x \in Range(Keep(s, A)) PROVE x \in Range(s) \cap A
    <2>1. PICK j \in DOMAIN at : x = s[at[j]]  BY <1>4, <1>7, <1>9 DEF Range
    <2>2. at[j] \in DOMAIN s /\ s[at[j]] \in A  BY <1>5
    <2> QED BY <2>1, <2>2 DEF Range
  <1> QED BY <1>7, <1>8, <1>9

\* The lists of an operation: taking from either end, adding at the end.
LEMMA Lists ==
  ASSUME NEW T, NEW s \in Seq(T)
  PROVE  /\ s # <<>> => /\ Head(s) \in Range(s) /\ Tail(s) \in Seq(T) /\ Len(Tail(s)) = Len(s) - 1 /\ Len(s) \in Nat
                        /\ Range(Tail(s)) \subseteq Range(s) /\ Range(s) \subseteq {Head(s)} \cup Range(Tail(s))
                        /\ Last(s) \in Range(s) /\ Front(s) \in Seq(T) /\ Range(Front(s)) \subseteq Range(s)
                        /\ Range(s) \subseteq {Last(s)} \cup Range(Front(s))
         /\ Range(s) \subseteq T /\ (s = <<>> => Range(s) = {})
         /\ \A x \in T : Append(s, x) \in Seq(T) /\ Range(Append(s, x)) = Range(s) \cup {x}
  <1>1. ASSUME s # <<>> PROVE Range(s) \subseteq {Head(s)} \cup Range(Tail(s)) /\ Range(Tail(s)) \subseteq Range(s)
    <2>1. Tail(s) \in Seq(T) /\ Len(Tail(s)) = Len(s) - 1 /\ Len(s) \in Nat \ {0} /\ Head(s) = s[1]  BY <1>1
    <2>2. \A i \in 1..Len(Tail(s)) : Tail(s)[i] = s[i + 1]  BY <1>1
    <2>3. ASSUME NEW i \in 1..Len(s), i # 1 PROVE i - 1 \in DOMAIN Tail(s) /\ Tail(s)[i - 1] = s[i]
      BY <2>1, <2>2, <2>3
    <2>4. ASSUME NEW x \in Range(s) PROVE x \in {Head(s)} \cup Range(Tail(s))
      <3>1. PICK i \in 1..Len(s) : s[i] = x  BY <2>4 DEF Range
      <3> QED BY <3>1, <2>1, <2>3 DEF Range
    <2>5. ASSUME NEW x \in Range(Tail(s)) PROVE x \in Range(s)
      <3>1. PICK i \in 1..Len(Tail(s)) : Tail(s)[i] = x  BY <2>1, <2>5 DEF Range
      <3>2. i + 1 \in DOMAIN s /\ s[i + 1] = x  BY <3>1, <2>1, <2>2
      <3> QED BY <3>2 DEF Range
    <2> QED BY <2>4, <2>5
  <1>2. ASSUME s # <<>> PROVE /\ Last(s) \in Range(s) /\ Front(s) \in Seq(T) /\ Range(Front(s)) \subseteq Range(s)
                              /\ Range(s) \subseteq {Last(s)} \cup Range(Front(s))
    <2>1. Len(s) \in Nat \ {0} /\ DOMAIN s = 1..Len(s) /\ Last(s) = s[Len(s)]  BY <1>2 DEF Last
    <2>2. Front(s) = SubSeq(s, 1, Len(s) - 1)  BY DEF Front
    <2>3. Front(s) \in Seq(T) /\ Len(Front(s)) = Len(s) - 1 /\ \A i \in 1..(Len(s) - 1) : Front(s)[i] = s[i]
      BY <2>1, <2>2
    <2>4. DOMAIN Front(s) = 1..(Len(s) - 1)  BY <2>1, <2>3
    <2> QED BY <2>1, <2>3, <2>4 DEF Range
  <1>3. ASSUME NEW x \in T PROVE Append(s, x) \in Seq(T) /\ Range(Append(s, x)) = Range(s) \cup {x}
    <2>1. Append(s, x) \in Seq(T) /\ DOMAIN Append(s, x) = 1..(Len(s) + 1) /\ Len(s) \in Nat
      OBVIOUS
    <2>2. Append(s, x)[Len(s) + 1] = x /\ \A i \in 1..Len(s) : Append(s, x)[i] = s[i]  OBVIOUS
    <2> QED BY <2>1, <2>2 DEF Range
  <1>4. s # <<>> => Head(s) \in Range(s) /\ Tail(s) \in Seq(T) /\ Len(Tail(s)) = Len(s) - 1 /\ Len(s) \in Nat
    BY DEF Range
  <1>5. Range(s) \subseteq T /\ (s = <<>> => Range(s) = {})  BY DEF Range
  <1> QED BY <1>1, <1>2, <1>3, <1>4, <1>5

\* The members of the groups, numbered through: a member of the group and a group.
LEMMA Cells ==
  ASSUME NEW m \in Nat, NEW n \in Nat, NEW j \in Nat, j < m * n
  PROVE  j % m \in 0 .. m - 1 /\ j \div m \in 0 .. n - 1
  <1> DEFINE q == j \div m
             r == j % m
  <1>1. m # 0
    <2>1. m = 0 => m * n = 0  OBVIOUS
    <2> QED BY <2>1
  <1>2. q \in Nat /\ r \in 0 .. m - 1 /\ j = (m * q) + r
    BY <1>1
  <1> HIDE DEF q, r
  <1>3. ASSUME q >= n PROVE FALSE
    <2> DEFINE d == q - n
    <2>1. d \in Nat /\ q = n + d  BY <1>2, <1>3
    <2> HIDE DEF d
    <2>2. m * q = (m * n) + (m * d)  BY <2>1
    <2>3. m * d \in Nat /\ m * n \in Nat /\ m * q \in Nat  BY <1>2, <2>1
    <2> QED BY <2>2, <2>3, <1>2
  <1>4. q \in 0 .. n - 1  BY <1>2, <1>3
  <1> QED BY <1>2, <1>4 DEF q, r

\* What a composition includes is a sequence of slots.
LEMMA Composed ==
  ASSUME BundlesTypeOK, NEW kind \in Kinds
  PROVE  Included(kind) \in Seq(Slots)
  <1> USE BundlesAssumption
  <1>1. DirectMembers(kind) \in Seq(Range(Extended))  BY DEF DirectMembers, Kinds
  <1> DEFINE R == {r \in Range(Relays) : relayAt[r] = "subs"}
             subs == Keep(Relays, R)
             size == Len(DirectMembers(kind))
  <1>2. subs \in Seq(Range(Relays))
    <2> HIDE DEF R
    <2> QED BY Kept
  <1> HIDE DEF subs
  <1>3. size \in Nat /\ Len(subs) \in Nat  BY <1>1, <1>2
  <1> DEFINE members == [i \in 1..size |-> <<DirectMembers(kind)[i], Direct>>]
             through == [i \in 1..size * Len(subs) |->
                           <<DirectMembers(kind)[((i - 1) % size) + 1], subs[((i - 1) \div size) + 1]>>]
  <1>4. members \in Seq(Slots)
    <2>1. \A i \in 1..size : DirectMembers(kind)[i] \in Range(Extended)  BY <1>1
    <2>2. \A i \in 1..size : <<DirectMembers(kind)[i], Direct>> \in Slots  BY <2>1 DEF Slots
    <2> QED BY <1>3, <2>2
  <1>5. through \in Seq(Slots)
    <2>1. ASSUME NEW i \in 1..size * Len(subs)
          PROVE  ((i - 1) % size) + 1 \in 1..size /\ ((i - 1) \div size) + 1 \in 1..Len(subs)
      <3>1. size * Len(subs) \in Nat  BY <1>3
      <3>2. i - 1 \in Nat /\ i - 1 < size * Len(subs)
        <4> HIDE DEF size
        <4> QED BY <3>1
      <3>3. (i - 1) % size \in 0 .. size - 1 /\ (i - 1) \div size \in 0 .. Len(subs) - 1
        <4> HIDE DEF size
        <4> QED BY <3>2, <1>3, Cells
      <3> QED BY <3>3, <1>3
    <2>2. ASSUME NEW i \in 1..size * Len(subs) PROVE through[i] \in Slots
      <3>1. DirectMembers(kind)[((i - 1) % size) + 1] \in Range(Extended)  BY <2>1, <1>1
      <3>2. subs[((i - 1) \div size) + 1] \in Range(Relays)  BY <2>1, <1>2
      <3> QED BY <3>1, <3>2 DEF Slots
    <2>3. size * Len(subs) \in Nat  BY <1>3
    <2>4. through \in [1..size * Len(subs) -> Slots]  BY <2>2
    <2> DEFINE total == size * Len(subs)
    <2>5. total \in Nat /\ through \in [1..total -> Slots]  BY <2>3, <2>4
    <2> HIDE DEF through, total
    <2> QED BY <2>5
  <1>6. Composition(kind, subs) = members \o through  BY DEF Composition
  <1>7. Composition(kind, subs) \in Seq(Slots)
    <2> HIDE DEF members, through
    <2> QED BY <1>4, <1>5, <1>6
  <1>8. Included(kind) = Keep(Composition(kind, subs), {s \in Slots : MemberEnabled(s)})
    BY DEF Included, subs
  <1> QED BY <1>7, <1>8, Kept

\* Where an operation is fits what it does, and the row says so while it runs.
OpFrame ==
    /\ bop.b = NoBundle <=> bop.what = "none"
    /\ bop.what = "none" => bop.at = "idle"
    /\ bop.what = "create" => bop.at \in {"make", "attach", "unwind", "mark"}
    /\ bop.what = "reconcile" => bop.at \in {"make", "attach", "unwind", "drop"}
    /\ bop.what = "revoke" => bop.at \in {"revoke", "retire"}
    /\ bop.what = "delete" => bop.at \in {"remove", "mark"}
    /\ bop.what = "print" => bop.at = "stamp" /\ bop.b \in split
    /\ bop.cur \in Ids <=> bop.at = "attach"
    /\ bop.what \in {"create", "reconcile", "print"} => bundle[bop.b].st = "active"
    /\ bop.what = "revoke" => bundle[bop.b].st = "pending_revoke"
    /\ bop.what = "delete" => bundle[bop.b].st = "pending_delete"

\* A child was made for its bundle, whose row is there.
KidInv == \A k \in Ids :
    /\ child[k].st \in {"absent", "gone"} => child[k].in = NoBundle /\ child[k].for = NoBundle
    /\ child[k].in # NoBundle => child[k].for = child[k].in /\ bundle[child[k].in].st \notin {"absent", "gone"}

\* The keys an operation works on are its own.
WorkInv ==
    /\ bop.at = "attach" =>
         /\ child[bop.cur].st # "absent" /\ child[bop.cur].in = NoBundle
         /\ child[bop.cur].st # "gone" => child[bop.cur].for = bop.b
    /\ \A k \in Range(bop.made) \cup Range(bop.drop) :
         child[k].st # "absent" /\ child[k].in \in {bop.b, NoBundle}
    /\ bop.at \in {"make", "attach"} => Room(Len(bop.todo))

\* A live key is attached to the bundle it was made for, or about to be, or the rollback
\* never learned of it.
OwnInv == \A k \in Ids :
    child[k].st = "active" /\ child[k].in = NoBundle => k \in lost \/ (bop.at = "attach" /\ k = bop.cur)

\* What a revocation has not reached yet is on its list.
RevInv ==
    /\ bop.at = "revoke" /\ ~bop.bad => \A k \in KidsOf(bop.b) : child[k].st = "revoked" \/ k \in Range(bop.drop)
    /\ bop.at = "retire" /\ ~bop.bad => \A k \in KidsOf(bop.b) : child[k].st = "revoked"

\* Keys are made in the fingerprint the bundle has; a change of it has the others on its list.
PrintInv ==
    /\ bop.what \in {"create", "reconcile"} /\ bop.b \notin split =>
         \A k \in VlessKids(bop.b) : child[k].fp = bop.fp
    /\ bop.at = "attach" /\ BackendOfKey(bop.cur) = "xray" /\ child[bop.cur].st # "gone" => child[bop.cur].fp = bop.fp
    /\ bop.at = "stamp" => \A k \in VlessKids(bop.b) : child[k].fp = bop.fp \/ k \in Range(bop.drop)

\* What a reconcile has still to make is all that is missing, and what it is going to
\* remove covers nothing.
CoverInv == bop.what = "reconcile" =>
    /\ \A k \in Range(bop.drop) : child[k].st = "active" => child[k].slot \notin bop.target
    /\ bop.at \in {"make", "attach"} => \A s \in bop.target :
         \/ s \in SlotsOf(ActiveKids(bop.b)) \cup bop.taken \cup Range(bop.todo)
         \/ bop.at = "attach" /\ child[bop.cur].st = "active" /\ s = child[bop.cur].slot

\* The inductive invariant of the bundles
BunInv == BundlesTypeOK /\ OpFrame /\ KidInv /\ WorkInv /\ OwnInv /\ RevInv /\ PrintInv /\ CoverInv
          /\ RevokedHasNoLiveChild /\ CompositionHolds

\* A set of naturals that is not empty has a least member.
LEMMA Least ==
  ASSUME NEW S \in SUBSET Nat, S # {}
  PROVE  \E x \in S : \A y \in S : x <= y
<1>1. PICK x \in S : \A y \in S : ~(<<y, x>> \in OpToRel(<, Nat))
  <2>1. IsWellFoundedOn(OpToRel(<, Nat), Nat)
    BY NatLessThanWellFounded
  <2>2. DEFINE R == OpToRel(<, Nat)
  <2> HIDE DEF R
  <2>3. IsWellFoundedOn(R, Nat)
    BY <2>1 DEF R
  <2>4. \E x \in S : \A y \in S : ~(<<y, x>> \in R)
    BY <2>3, WFMin
  <2>. QED BY <2>4 DEF R
<1>2. ASSUME NEW y \in S PROVE x <= y
  <2>1. ~(y < x)
    <3>1. ASSUME y < x PROVE FALSE
      <4>1. <<y, x>> \in Nat \X Nat
        OBVIOUS
      <4>2. <<y, x>> \in OpToRel(<, Nat)
        BY <4>1, <3>1 DEF OpToRel
      <4>. QED BY <4>2, <1>1
    <3>. QED BY <3>1
  <2>. QED BY <2>1
<1>. QED BY <1>2

\* What the empty operation and the empty row say
NoOpTypes ==
  /\ NoOp \in Operations /\ NoChild \in ChildRows /\ NoChild.st = "absent" /\ NoChild.in = NoBundle
  /\ NoChild.for = NoBundle

\* The empty operation and the empty row are of their types.
LEMMA Nothing == NoOpTypes
  <1> USE BundlesAssumption
  <1>1. (CHOOSE p \in Prints : TRUE) \in Prints  OBVIOUS
  <1>2. Range(Extended) # {}
    <2>1. Extended \in Seq(Range(Extended)) /\ Extended # <<>>  OBVIOUS
    <2> QED BY <2>1, Lists
  <1>3. (CHOOSE s \in Slots : TRUE) \in Slots
    <2>1. PICK n \in Range(Extended) : TRUE  BY <1>2
    <2>2. <<n, Direct>> \in Slots  BY <2>1 DEF Slots
    <2>3. Slots # {}  BY <2>2
    <2> QED BY <2>3
  <1> QED BY <1>1, <1>3 DEF NoOpTypes, NoOp, NoChild, Operations, ChildRows, ChildStatuses, Kinds

\* While there is something to make there is a number for it.
LEMMA NextKey ==
  ASSUME BundlesTypeOK, WorkInv, bop.at = "make", bop.todo # <<>>
  PROVE  /\ Min(Fresh) \in Ids /\ child[Min(Fresh)].st = "absent"
         /\ Len(Tail(bop.todo)) <= Cardinality(Fresh \ {Min(Fresh)})
  <1>1. IsFiniteSet(Ids) /\ Ids \in SUBSET Nat  BY BundlesAssumption, FS_Interval DEF Ids
  <1>2. IsFiniteSet(Fresh) /\ Fresh \in SUBSET Nat
    <2>1. Fresh \in SUBSET Ids  BY DEF Fresh
    <2> QED BY <1>1, <2>1, FS_Subset
  <1>3. bop.todo \in Seq(Slots)  BY DEF BundlesTypeOK, Operations
  <1>4. Len(bop.todo) \in Nat \ {0} /\ Len(Tail(bop.todo)) = Len(bop.todo) - 1  BY <1>3
  <1>5. Len(bop.todo) <= Cardinality(Fresh)  BY DEF WorkInv, Room
  <1>6. Cardinality(Fresh) \in Nat  BY <1>2, FS_CardinalityType
  <1>7. Fresh # {}
    <2>1. Cardinality(Fresh) # 0  BY <1>4, <1>5, <1>6
    <2> QED BY <2>1, FS_EmptySet
  <1>8. Min(Fresh) \in Fresh
    <2>1. \E x \in Fresh : \A y \in Fresh : x <= y  BY <1>2, <1>7, Least
    <2>2. Min(Fresh) = CHOOSE x \in Fresh : \A y \in Fresh : x <= y  BY DEF Min
    <2> HIDE DEF Min
    <2> QED BY <2>1, <2>2
  <1>9. Cardinality(Fresh \ {Min(Fresh)}) = Cardinality(Fresh) - 1  BY <1>2, <1>8, FS_RemoveElement
  <1> QED BY <1>4, <1>5, <1>6, <1>8, <1>9 DEF Fresh

\* A step that leaves the rows, the keys and the operation alone
Quietly == UNCHANGED <<bundle, child, bop, lost, ended, split>>

\* The rest of the system moves.
LEMMA WorldTypes ==
  ASSUME BundlesTypeOK,
         BulkStart \/ BulkSkips \/ BulkEnd \/ BulkStop \/ ModuleSwitch \/ RelaySwitch \/ HealthChanges \/ DeadlinePasses
  PROVE  BundlesTypeOK' /\ Quietly
  <1> USE BundlesAssumption DEF Quietly, BundlesTypeOK, Turn
  <1>1. CASE BulkStart
    <2>1. PICK kind \in {"own", "basic"}, ids \in SetToSeqs(ActiveBundles) :
            bulk' = [on |-> TRUE, stop |-> FALSE, kind |-> kind, todo |-> ids]
      BY <1>1 DEF BulkStart
    <2>2. ids \in Seq(Bundles)
      <3>1. IsFiniteSet(ActiveBundles) /\ ActiveBundles \in SUBSET Bundles
        <4>1. ActiveBundles \in SUBSET Bundles  BY DEF ActiveBundles
        <4> QED BY <4>1, FS_Subset
      <3>2. Cardinality(ActiveBundles) \in Nat  BY <3>1, FS_CardinalityType
      <3>3. ids \in [1..Cardinality(ActiveBundles) -> ActiveBundles]  BY <2>1 DEF SetToSeqs
      <3>4. ids \in Seq(ActiveBundles)
        <4> DEFINE n == Cardinality(ActiveBundles)
        <4>1. n \in Nat /\ ids \in [1..n -> ActiveBundles]  BY <3>2, <3>3
        <4> HIDE DEF n
        <4> QED BY <4>1
      <3> QED BY <3>1, <3>4
    <2> QED BY <1>1, <2>1, <2>2 DEF BulkStart
  <1>2. CASE BulkSkips
    <2>1. bulk' = [bulk EXCEPT !.todo = Tail(@)] /\ bulk.todo # <<>>  BY <1>2 DEF BulkSkips
    <2>2. Tail(bulk.todo) \in Seq(Bundles)  BY <2>1
    <2>3. bulk' \in [on : BOOLEAN, stop : BOOLEAN, kind : {"own", "basic"}, todo : Seq(Bundles)]
      BY <2>1, <2>2
    <2>4. UNCHANGED <<bundle, child, modOn, relayAt, sick, late, bop, faults, turns, lost, ended, split>>
      BY <1>2 DEF BulkSkips
    <2> QED BY <2>3, <2>4
  <1>3. CASE BulkEnd  BY <1>3 DEF BulkEnd, NoBulk
  <1>4. CASE BulkStop  BY <1>4 DEF BulkStop
  <1>5. CASE ModuleSwitch  BY <1>5 DEF ModuleSwitch
  <1>6. CASE RelaySwitch  BY <1>6 DEF RelaySwitch
  <1>7. CASE HealthChanges  BY <1>7 DEF HealthChanges
  <1>8. CASE DeadlinePasses  BY <1>8 DEF DeadlinePasses
  <1> QED BY <1>1, <1>2, <1>3, <1>4, <1>5, <1>6, <1>7, <1>8

\* A key that is withdrawn, one way or another, does not come back.
Fades ==
  /\ child' \in [Ids -> ChildRows]
  /\ \A k \in Ids :
      \/ child'[k] = child[k]
      \/ /\ child[k].st \notin {"absent", "gone"} /\ child'[k].st \notin {"absent", "active"}
         /\ \/ child'[k].st = "gone" /\ child'[k].in = NoBundle /\ child'[k].for = NoBundle
            \/ child'[k] = [child[k] EXCEPT !.st = child'[k].st] /\ child'[k].st # "gone"

\* A row with another status.
LEMMA Restated ==
  ASSUME NEW r \in ChildRows, NEW st \in ChildStatuses
  PROVE  /\ [r EXCEPT !.st = st] \in ChildRows /\ [r EXCEPT !.st = st].st = st
         /\ [r EXCEPT !.st = st].in = r.in /\ [r EXCEPT !.st = st].for = r.for
  BY DEF ChildRows

\* A deletion, whole or half, makes a key fade and leaves the others alone.
LEMMA DeleteFades ==
  ASSUME BundlesTypeOK, NEW k \in Ids, child[k].st # "absent", MayDelete(k),
         \/ child' = Gone(k)
         \/ \E st \in AfterFailedDelete(k) : child' = [child EXCEPT ![k].st = st]
  PROVE  Fades /\ \A j \in Ids : j # k => child'[j] = child[j]
  <1> USE DEF BundlesTypeOK
  <1>1. child[k] \in ChildRows /\ child[k].st \notin {"absent", "gone"}  BY DEF MayDelete
  <1>2. CASE child' = Gone(k)
    <2> DEFINE r == [NoChild EXCEPT !.st = "gone"]
    <2>1. r \in ChildRows /\ r.st = "gone" /\ r.in = NoBundle /\ r.for = NoBundle
      <3>1. "gone" \in ChildStatuses  BY DEF ChildStatuses
      <3> QED BY <3>1, Nothing, Restated DEF NoOpTypes
    <2> HIDE DEF r
    <2>2. child' = [child EXCEPT ![k] = r]  BY <1>2 DEF Gone, r
    <2> QED BY <1>1, <2>1, <2>2 DEF Fades
  <1>3. ASSUME NEW st \in AfterFailedDelete(k), child' = [child EXCEPT ![k].st = st]
        PROVE  Fades /\ \A j \in Ids : j # k => child'[j] = child[j]
    <2>1. st \in ChildStatuses /\ (st = child[k].st \/ st \in {"delete_failed", "pending_delete"})
      BY <1>1 DEF AfterFailedDelete, ChildRows, ChildStatuses
    <2> DEFINE r == [child[k] EXCEPT !.st = st]
    <2>2. r \in ChildRows /\ r.st = st  BY <1>1, <2>1, Restated
    <2>3. child' = [child EXCEPT ![k] = r]  BY <1>3
    <2>4. st = child[k].st => r = child[k]
      <3>1. [child[k] EXCEPT !.st = child[k].st] = child[k]  BY <1>1, <2>1 DEF ChildRows
      <3> QED BY <3>1
    <2>5. r = [child[k] EXCEPT !.st = r.st]  BY <2>2
    <2> HIDE DEF r
    <2> QED BY <1>1, <2>1, <2>2, <2>3, <2>4, <2>5 DEF Fades
  <1> QED BY <1>2, <1>3

\* So does a revocation.
LEMMA RevokeFades ==
  ASSUME BundlesTypeOK, NEW k \in Ids, child[k].st # "absent", MayRevoke(k),
         \/ child' = [child EXCEPT ![k].st = "revoked"]
         \/ \E st \in AfterFailedRevoke(k) : child' = [child EXCEPT ![k].st = st]
  PROVE  Fades /\ \A j \in Ids : j # k => child'[j] = child[j]
  <1> USE DEF BundlesTypeOK
  <1>1. child[k] \in ChildRows /\ child[k].st \notin {"absent", "gone"}  BY DEF MayRevoke
  <1>2. PICK st \in ChildStatuses : /\ child' = [child EXCEPT ![k].st = st]
                                    /\ st = child[k].st \/ st \in {"revoked", "pending_revoke"}
    BY <1>1 DEF AfterFailedRevoke, ChildRows, ChildStatuses
  <1> DEFINE r == [child[k] EXCEPT !.st = st]
  <1>3. r \in ChildRows /\ r.st = st  BY <1>1, <1>2, Restated
  <1>4. child' = [child EXCEPT ![k] = r]  BY <1>2
  <1>5. st = child[k].st => r = child[k]
    <2>1. [child[k] EXCEPT !.st = child[k].st] = child[k]  BY <1>1 DEF ChildRows
    <2> QED BY <2>1
  <1>6. r = [child[k] EXCEPT !.st = r.st]  BY <1>3
  <1> HIDE DEF r
  <1> QED BY <1>1, <1>2, <1>3, <1>4, <1>5, <1>6 DEF Fades

\* What the rest of the system does, and the end of the operation where it is
LEMMA QuietKeeps ==
  ASSUME BunInv, BundlesTypeOK', Quietly
  PROVE  BunInv'
  BY DEF BunInv, Quietly, OpFrame, KidInv, WorkInv, OwnInv, RevInv, PrintInv, CoverInv, RevokedHasNoLiveChild,
     CompositionHolds, TargetStaysCovered, OneFingerprint, VlessKids, ActiveKids, KidsOf, SlotsOf, BackendOfKey,
     At, Room, Fresh

\* With no operation under way, what is left to say is about the keys and the rows.
LEMMA IdleHolds ==
  ASSUME BundlesTypeOK', bop' = NoOp, KidInv', RevokedHasNoLiveChild', OneFingerprint',
         \A k \in Ids : child'[k].st = "active" /\ child'[k].in = NoBundle => k \in lost'
  PROVE  BunInv'
  <1>1. /\ NoOp.b = NoBundle /\ NoOp.what = "none" /\ NoOp.at = "idle" /\ NoOp.cur = NoKeyId
        /\ NoOp.made = <<>> /\ NoOp.drop = <<>>
    BY DEF NoOp
  <1>2. Range(NoOp.made) = {} /\ Range(NoOp.drop) = {}  BY <1>1 DEF Range
  <1>3. NoOp.cur \notin Ids  BY <1>1, BundlesAssumption DEF Ids
  <1>4. OpFrame'  BY <1>1, <1>3 DEF OpFrame
  <1>5. WorkInv'  BY <1>1, <1>2 DEF WorkInv
  <1>6. OwnInv' /\ RevInv' /\ PrintInv' /\ CoverInv' /\ TargetStaysCovered'
    BY <1>1 DEF OwnInv, RevInv, PrintInv, CoverInv, TargetStaysCovered, At
  <1> QED BY <1>4, <1>5, <1>6 DEF BunInv, CompositionHolds

\* An operation that is interrupted leaves the key in its hands to nobody.
LEMMA InterruptKeeps ==
  ASSUME BunInv, Interrupt
  PROVE  BunInv'
  <1> USE DEF BunInv
  <1>1. bop' = NoOp /\ bulk' = NoBulk /\ UNCHANGED <<bundle, child, modOn, relayAt, sick, late, turns, ended, split>>
    BY DEF Interrupt
  <1>2. lost' \in SUBSET Ids /\ lost \subseteq lost' /\ (bop.cur \in Ids => bop.cur \in lost')
    BY BundlesAssumption DEF Interrupt, BundlesTypeOK, Operations, Ids
  <1>3. BundlesTypeOK'
    BY <1>1, <1>2, Nothing DEF Interrupt, Fault, BundlesTypeOK, NoOpTypes, NoBulk
  <1>4. KidInv' /\ RevokedHasNoLiveChild' /\ OneFingerprint'
    BY <1>1 DEF KidInv, RevokedHasNoLiveChild, CompositionHolds, OneFingerprint, VlessKids, ActiveKids, KidsOf, BackendOfKey
  <1>5. \A k \in Ids : child'[k].st = "active" /\ child'[k].in = NoBundle => k \in lost'
    BY <1>1, <1>2 DEF OwnInv, OpFrame
  <1> QED BY <1>1, <1>3, <1>4, <1>5, IdleHolds

\* A fading key keeps what it is; it only leaves.
LEMMA FadeFacts ==
  ASSUME BundlesTypeOK, KidInv, Fades
  PROVE  /\ \A k \in Ids : child'[k].st = "active" => child'[k] = child[k]
         /\ \A k \in Ids : child'[k].in # NoBundle =>
              /\ child'[k].in = child[k].in /\ child'[k].for = child[k].for /\ child'[k].st \notin {"absent", "gone"}
         /\ \A k \in Ids : child'[k].st = "absent" <=> child[k].st = "absent"
         /\ \A k \in Ids : child'[k].st = "gone" => child'[k].in = NoBundle /\ child'[k].for = NoBundle
         /\ \A k \in Ids : child'[k].st # "gone" => child'[k].for = child[k].for /\ child'[k].fp = child[k].fp
                             /\ child'[k].slot = child[k].slot /\ child'[k].in = child[k].in
         /\ Fresh' = Fresh
  <1> USE DEF Fades, KidInv, BundlesTypeOK
  <1>1. ASSUME NEW k \in Ids
        PROVE  /\ child'[k].st = "active" => child'[k] = child[k]
               /\ child'[k].in # NoBundle =>
                    /\ child'[k].in = child[k].in /\ child'[k].for = child[k].for /\ child'[k].st \notin {"absent", "gone"}
               /\ child'[k].st = "absent" <=> child[k].st = "absent"
               /\ child'[k].st = "gone" => child'[k].in = NoBundle /\ child'[k].for = NoBundle
               /\ child'[k].st # "gone" => child'[k].for = child[k].for /\ child'[k].fp = child[k].fp
                             /\ child'[k].slot = child[k].slot /\ child'[k].in = child[k].in
    <2>1. CASE child'[k] = child[k]  BY <2>1
    <2>2. CASE /\ child[k].st \notin {"absent", "gone"} /\ child'[k].st \notin {"absent", "active"}
               /\ child'[k].st = "gone" /\ child'[k].in = NoBundle /\ child'[k].for = NoBundle
      BY <2>2
    <2>3. ASSUME child[k].st \notin {"absent", "gone"}, child'[k].st \notin {"absent", "active"},
                 child'[k] = [child[k] EXCEPT !.st = child'[k].st], child'[k].st # "gone"
          PROVE  /\ child'[k].in = child[k].in /\ child'[k].for = child[k].for /\ child'[k].fp = child[k].fp
                 /\ child'[k].slot = child[k].slot
      <3>1. child[k] \in ChildRows  OBVIOUS
      <3> DEFINE r == child[k]
                 q == child'[k]
                 v == child'[k].st
      <3>2. r \in ChildRows /\ q = [r EXCEPT !.st = v]  BY <3>1, <2>3
      <3> HIDE DEF r, q, v
      <3>3. q.in = r.in /\ q.for = r.for /\ q.fp = r.fp /\ q.slot = r.slot  BY <3>2 DEF ChildRows
      <3> QED BY <3>3 DEF r, q
    <2> QED BY <2>1, <2>2, <2>3
  <1>2. Fresh' = Fresh  BY <1>1 DEF Fresh
  <1> QED BY <1>1, <1>2

\* So it disturbs nothing that is said of the keys and the rows alone.
LEMMA FadeKeeps ==
  ASSUME BunInv, Fades, bundle' = bundle, split' = split,
         \A k \in Ids : \/ child'[k] = child[k] \/ child'[k].st \in {"revoked", "gone"}
                        \/ child[k].in = NoBundle \/ bundle[child[k].in].st # "revoked"
  PROVE  KidInv' /\ RevokedHasNoLiveChild' /\ OneFingerprint'
  <1> USE FadeFacts DEF BunInv
  <1>1. KidInv'  BY DEF KidInv
  <1>2. RevokedHasNoLiveChild'
    <2>1. ASSUME NEW b \in Bundles, bundle'[b].st = "revoked", NEW k \in Ids, child'[k].in = b
          PROVE  child'[k].st = "revoked"
      <3>1. b # NoBundle  BY BundlesAssumption
      <3>2. child[k].in = b /\ child'[k].st # "gone"  BY <2>1, <3>1
      <3>3. child[k].st = "revoked"  BY <2>1, <3>2 DEF RevokedHasNoLiveChild, KidsOf
      <3>4. bundle[child[k].in].st = "revoked" /\ child[k].in # NoBundle  BY <2>1, <3>1, <3>2
      <3>5. child'[k] = child[k] \/ child'[k].st \in {"revoked", "gone"}  BY <3>4
      <3> QED BY <3>2, <3>3, <3>5
    <2> QED BY <2>1 DEF RevokedHasNoLiveChild, KidsOf
  <1>3. OneFingerprint'
    <2>1. ASSUME NEW b \in Bundles, b \notin split, NEW k \in Ids, k \in VlessKids(b)'
          PROVE  k \in VlessKids(b) /\ child'[k].fp = child[k].fp
      BY <2>1 DEF VlessKids, ActiveKids, KidsOf, BackendOfKey
    <2>2. \A b \in Bundles : VlessKids(b)' \subseteq Ids  BY DEF VlessKids, ActiveKids, KidsOf
    <2>3. ASSUME NEW b \in Bundles \ split', NEW j \in VlessKids(b)', NEW k \in VlessKids(b)'
          PROVE  child'[j].fp = child'[k].fp
      <3>1. OneFingerprint  BY DEF CompositionHolds
      <3>2. j \in Ids /\ k \in Ids  BY <2>2
      <3>3. j \in VlessKids(b) /\ k \in VlessKids(b) /\ child'[j].fp = child[j].fp /\ child'[k].fp = child[k].fp
        BY <2>1, <2>3, <3>2
      <3> QED BY <3>1, <3>3, <2>3 DEF OneFingerprint
    <2> QED BY <2>3 DEF OneFingerprint
  <1> QED BY <1>1, <1>2, <1>3

\* An operation that goes on with the same key, and the same lists, while a key fades
LEMMA OthersKeep ==
  ASSUME BunInv, OtherRevokes \/ OtherDeletes
  PROVE  BunInv'
  <1> USE DEF BunInv
  <1>1. PICK k \in Ids : /\ child[k].st \notin {"absent", "gone"} /\ bop' = TakenBy(k)
                         /\ \/ child' = Gone(k) /\ MayDelete(k)
                            \/ child[k].st = "active" /\ MayRevoke(k) /\ child' = [child EXCEPT ![k].st = "revoked"]
                         /\ Turn /\ UNCHANGED <<bundle, modOn, relayAt, sick, late, bulk, faults, lost, ended, split>>
    BY DEF OtherRevokes, OtherDeletes, MayRevoke
  <1>2. Fades /\ \A j \in Ids : j # k => child'[j] = child[j]  BY <1>1, DeleteFades, RevokeFades
  <1>3. child'[k].st \in {"revoked", "gone"}
    <2>1. child \in [Ids -> ChildRows] /\ child[k] \in ChildRows  BY DEF BundlesTypeOK
    <2>2. CASE child' = Gone(k)
      <3>1. NoChild \in ChildRows  BY Nothing DEF NoOpTypes
      <3>2. [NoChild EXCEPT !.st = "gone"].st = "gone"  BY <3>1 DEF ChildRows
      <3> QED BY <2>1, <2>2, <3>2 DEF Gone
    <2>3. CASE child' = [child EXCEPT ![k].st = "revoked"]  BY <2>1, <2>3 DEF ChildRows
    <2> QED BY <1>1, <2>2, <2>3
  <1>4. KidInv' /\ RevokedHasNoLiveChild' /\ OneFingerprint'
    BY <1>1, <1>2, <1>3, FadeKeeps
  <1>5. /\ bop'.what = bop.what /\ bop'.b = bop.b /\ bop'.at = bop.at /\ bop'.cur = bop.cur /\ bop'.todo = bop.todo
        /\ bop'.made = bop.made /\ bop'.drop = bop.drop /\ bop'.bad = bop.bad /\ bop'.fp = bop.fp
        /\ bop'.target = bop.target /\ bop.taken \subseteq bop'.taken /\ bop' \in Operations
        /\ child[k].for = bop.b => child[k].slot \in bop'.taken
    <2>1. bop \in Operations /\ child[k].slot \in Slots  BY DEF BundlesTypeOK, ChildRows
    <2>2. bop' = IF child[k].for = bop.b THEN [bop EXCEPT !.taken = bop.taken \cup {child[k].slot}] ELSE bop
      BY <1>1 DEF TakenBy
    <2> QED BY <2>1, <2>2 DEF Operations
  <1>6. BundlesTypeOK'  BY <1>1, <1>2, <1>5 DEF BundlesTypeOK, Turn, Fades
  <1>7. OpFrame'  BY <1>1, <1>5 DEF OpFrame
  <1>8. WorkInv'
    <2>1. bop.made \in Seq(Ids) /\ bop.drop \in Seq(Ids) /\ (bop.at = "attach" => bop.cur \in Ids)
      BY DEF BundlesTypeOK, Operations, OpFrame
    <2>2. Range(bop.made) \cup Range(bop.drop) \subseteq Ids  BY <2>1, Lists
    <2>3. \A j \in Ids : child[j].in \in {bop.b, NoBundle} => child'[j].in \in {bop.b, NoBundle}
      BY <1>2, FadeFacts
    <2>4. Fresh' = Fresh /\ \A j \in Ids : child'[j].st = "absent" <=> child[j].st = "absent"  BY <1>2, FadeFacts
    <2>5. Len(bop'.todo) = Len(bop.todo) /\ Range(bop'.made) = Range(bop.made) /\ Range(bop'.drop) = Range(bop.drop)
      BY <1>5
    <2>6. bop.at \in {"make", "attach"} => Len(bop'.todo) <= Cardinality(Fresh')
      BY <2>4, <2>5 DEF WorkInv, Room
    <2>7. bop.at = "attach" =>
            /\ child'[bop.cur].st # "absent" /\ child'[bop.cur].in = NoBundle
            /\ child'[bop.cur].st # "gone" => child'[bop.cur].for = bop.b
      <3>1. ASSUME bop.at = "attach"
            PROVE  /\ child'[bop.cur].st # "absent" /\ child'[bop.cur].in = NoBundle
                   /\ child'[bop.cur].st # "gone" => child'[bop.cur].for = bop.b
        <4>1. bop.cur \in Ids /\ child[bop.cur].st # "absent" /\ child[bop.cur].in = NoBundle
              /\ (child[bop.cur].st # "gone" => child[bop.cur].for = bop.b)
          BY <2>1, <3>1 DEF WorkInv
        <4>2. child'[bop.cur].st # "gone" => child[bop.cur].st # "gone"  BY <1>2, <4>1 DEF Fades
        <4> QED BY <1>2, <4>1, <4>2, FadeFacts
      <3> QED BY <3>1
    <2>8. \A j \in Range(bop.made) \cup Range(bop.drop) : child'[j].st # "absent" /\ child'[j].in \in {bop.b, NoBundle}
      BY <2>2, <2>3, <2>4 DEF WorkInv
    <2> QED BY <1>5, <2>5, <2>6, <2>7, <2>8 DEF WorkInv, Room
  <1>9. OwnInv'
    BY <1>1, <1>2, <1>5, FadeFacts DEF OwnInv
  <1>10. RevInv'
    <2>1. ASSUME NEW j \in Ids, child'[j].in = bop.b, bop.b # NoBundle
          PROVE  child[j].in = bop.b /\ (child[j].st = "revoked" => child'[j].st = "revoked")
      <3>1. child[j].in = bop.b /\ child'[j].st # "gone"  BY <2>1, <1>2, FadeFacts
      <3> QED BY <1>2, <1>3, <3>1
    <2>2. bop.at \in {"revoke", "retire"} => bop.b # NoBundle  BY DEF OpFrame
    <2> QED BY <1>5, <2>1, <2>2 DEF RevInv, KidsOf
  <1>11. PrintInv'
    <2>1. ASSUME NEW j \in Ids, j \in VlessKids(bop.b)', bop.b # NoBundle
          PROVE  j \in VlessKids(bop.b) /\ child'[j].fp = child[j].fp
      BY <1>2, <1>5, <2>1, FadeFacts DEF VlessKids, ActiveKids, KidsOf, BackendOfKey
    <2>2. VlessKids(bop.b)' \subseteq Ids  BY DEF VlessKids, ActiveKids, KidsOf
    <2>3. bop.what \in {"create", "reconcile"} \/ bop.at = "stamp" => bop.b # NoBundle  BY DEF OpFrame
    <2>4. bop.at = "attach" /\ BackendOfKey(bop.cur)' = "xray" /\ child'[bop.cur].st # "gone"
            => child'[bop.cur].fp = bop.fp
      <3>1. bop.at = "attach" => bop.cur \in Ids  BY DEF OpFrame
      <3>2. ASSUME bop.at = "attach", child'[bop.cur].st # "gone"
            PROVE  child'[bop.cur].slot = child[bop.cur].slot /\ child[bop.cur].st # "gone"
                   /\ child'[bop.cur].fp = child[bop.cur].fp
        <4>1. child[bop.cur].st # "gone"  BY <1>2, <3>1, <3>2 DEF Fades
        <4> QED BY <1>2, <3>1, <3>2, <4>1, FadeFacts
      <3> QED BY <1>5, <3>2 DEF PrintInv, BackendOfKey
    <2>5. bop.what \in {"create", "reconcile"} /\ bop.b \notin split =>
            \A j \in VlessKids(bop.b)' : child'[j].fp = bop.fp
      BY <2>1, <2>2, <2>3 DEF PrintInv
    <2>6. bop.at = "stamp" => \A j \in VlessKids(bop.b)' : child'[j].fp = bop.fp \/ j \in Range(bop.drop)
      BY <2>1, <2>2, <2>3 DEF PrintInv
    <2> QED BY <1>1, <1>5, <2>4, <2>5, <2>6 DEF PrintInv
  <1>12. \A s \in SlotsOf(ActiveKids(bop.b)) : bop.b # NoBundle => s \in SlotsOf(ActiveKids(bop.b))' \cup bop'.taken
    <2>1. ASSUME NEW j \in Ids, child[j].in = bop.b, child[j].st = "active", bop.b # NoBundle
          PROVE  child[j].slot \in SlotsOf(ActiveKids(bop.b))' \cup bop'.taken
      <3>1. CASE j # k
        <4>1. child'[j] = child[j]  BY <1>2, <3>1
        <4> QED BY <1>5, <2>1, <4>1 DEF SlotsOf, ActiveKids, KidsOf
      <3>2. CASE j = k
        <4>1. child[k].for = bop.b  BY <2>1, <3>2 DEF KidInv
        <4> QED BY <1>5, <3>2, <4>1
      <3> QED BY <3>1, <3>2
    <2> QED BY <2>1 DEF SlotsOf, ActiveKids, KidsOf
  <1>13. CoverInv'
    <2>1. bop.drop \in Seq(Ids)  BY DEF BundlesTypeOK, Operations
    <2>2. \A j \in Range(bop.drop) : child'[j].st = "active" => child'[j] = child[j]
      BY <1>2, <2>1, Lists, FadeFacts
    <2>3. ASSUME bop.what = "reconcile", bop.at \in {"make", "attach"}, NEW s \in bop.target
          PROVE  \/ s \in SlotsOf(ActiveKids(bop.b))' \cup bop'.taken \cup Range(bop.todo)
                 \/ bop.at = "attach" /\ child'[bop.cur].st = "active" /\ s = child'[bop.cur].slot
      <3>1. bop.b # NoBundle  BY <2>3 DEF OpFrame
      <3>2. CASE s \in SlotsOf(ActiveKids(bop.b)) \cup bop.taken \cup Range(bop.todo)
        BY <1>5, <1>12, <3>1, <3>2
      <3>3. CASE bop.at = "attach" /\ child[bop.cur].st = "active" /\ s = child[bop.cur].slot
        <4>1. CASE bop.cur = k
          <5>1. child[k].for = bop.b  BY <1>1, <3>3, <4>1 DEF WorkInv
          <5> QED BY <1>5, <3>3, <4>1, <5>1
        <4>2. CASE bop.cur # k
          <5>1. child'[bop.cur] = child[bop.cur]  BY <1>2, <3>3, <4>2 DEF OpFrame
          <5> QED BY <3>3, <5>1
        <4> QED BY <4>1, <4>2
      <3> QED BY <2>3, <3>2, <3>3 DEF CoverInv
    <2> QED BY <1>5, <2>2, <2>3 DEF CoverInv
  <1>14. TargetStaysCovered'
    <2>1. bop.what = "reconcile" => bop.b # NoBundle  BY DEF OpFrame
    <2>2. TargetStaysCovered  BY DEF CompositionHolds
    <2> QED BY <1>5, <1>12, <2>1, <2>2 DEF TargetStaysCovered, At
  <1> QED BY <1>4, <1>6, <1>7, <1>8, <1>9, <1>10, <1>11, <1>13, <1>14 DEF CompositionHolds

\* The keys of a bundle are a finite set of numbers.
LEMMA KidsListed ==
  ASSUME BundlesTypeOK, NEW S \in SUBSET Ids
  PROVE  Ascending(S) \in Seq(Ids) /\ Range(Ascending(S)) = S
  <1>1. IsFiniteSet(Ids) /\ Ids \in SUBSET Nat  BY BundlesAssumption, FS_Interval DEF Ids
  <1>2. S \in SUBSET Nat /\ IsFiniteSet(S)  BY <1>1, FS_Subset
  <1> DEFINE q == Ascending(S)
  <1>3. q \in Seq(S) /\ Range(q) = S  BY <1>2, Listed
  <1> HIDE DEF q
  <1>4. q \in Seq(Ids)  BY <1>3
  <1> QED BY <1>3, <1>4 DEF q

\* Before it does anything an operation has made nothing and disturbed nothing.
LEMMA BeginHolds ==
  ASSUME BunInv, bop = NoOp, UNCHANGED <<child, lost>>,
         bop' \in Operations, bop'.made = <<>>,
         OpFrame', KidInv', RevokedHasNoLiveChild', OneFingerprint', BundlesTypeOK',
         \A k \in Range(bop'.drop) : k \in Ids /\ child[k].in = bop'.b /\ bop'.b # NoBundle,
         bop'.at \in {"make", "stamp", "remove", "revoke"},
         bop'.at = "make" => Len(bop'.todo) <= Cardinality(Fresh),
         bop'.at = "revoke" => \A k \in KidsOf(bop'.b) : k \in Range(bop'.drop),
         PrintInv', CoverInv'
  PROVE  BunInv'
  <1> USE DEF BunInv
  <1>0. bop.at = "idle"  BY DEF NoOp
  <1>1. WorkInv'
    <2>1. Range(bop'.made) = {}  BY DEF Range
    <2>2. \A k \in Ids : child[k].in # NoBundle => child[k].st # "absent"  BY DEF KidInv
    <2> QED BY <2>1, <2>2 DEF WorkInv, Room, Fresh
  <1>2. OwnInv'  BY <1>0 DEF OwnInv
  <1>3. RevInv'  BY DEF RevInv, KidsOf
  <1>4. TargetStaysCovered'  BY DEF TargetStaysCovered, At
  <1> QED BY <1>1, <1>2, <1>3, <1>4 DEF CompositionHolds

\* A new bundle has no child, and a plan of what to make.
LEMMA CreateKeeps ==
  ASSUME BunInv, NEW b \in Bundles, CreateBundle(b)
  PROVE  BunInv'
  <1> USE BundlesAssumption DEF BunInv
  <1>1. PICK kind \in Kinds, due \in BOOLEAN, fp \in Prints :
          /\ bundle[b].st = "absent" /\ bop = NoOp
          /\ Len(Included(kind)) <= Cardinality(Fresh)
          /\ bundle' = [bundle EXCEPT ![b] = [st |-> "active", kind |-> kind, tok |-> "issued"]]
          /\ bop' = [NoOp EXCEPT !.what = "create", !.b = b, !.at = "make", !.kind = kind, !.todo = Included(kind),
                          !.target = Range(Included(kind)), !.fp = fp, !.due = due]
          /\ UNCHANGED <<child, others, faults, lost, ended, split>>
    BY DEF CreateBundle, Begin, Room
  <1> DEFINE slots == Included(kind)
  <1>2. slots \in Seq(Slots) /\ Range(slots) \in SUBSET Slots
    <2>1. slots \in Seq(Slots)  BY Composed
    <2> HIDE DEF slots
    <2> QED BY <2>1, Lists
  <1> HIDE DEF slots
  <1>3. bop' = [what |-> "create", b |-> b, at |-> "make", kind |-> kind, todo |-> slots,
                cur |-> NoKeyId, made |-> <<>>, drop |-> <<>>, target |-> Range(slots), taken |-> {},
                bad |-> FALSE, bulk |-> FALSE, fp |-> fp, due |-> due]
    BY <1>1 DEF NoOp, slots
  <1>4. bop' \in Operations  BY <1>2, <1>3 DEF Operations
  <1>5. BundlesTypeOK'
    BY <1>1, <1>4 DEF BundlesTypeOK, BundleStatuses, Kinds, others
  <1>6. b \in Bundles /\ bundle'[b].st = "active" /\ (\A c \in Bundles : c # b => bundle'[c] = bundle[c])
    BY <1>1 DEF BundlesTypeOK
  <1>7. \A k \in Ids : child[k].in # b  BY <1>1 DEF KidInv
  <1>8. OpFrame'  BY <1>3, <1>6 DEF OpFrame, Ids
  <1>9. KidInv'
    <2>1. \A k \in Ids : child[k].in # NoBundle => child[k].in \in Bundles  BY DEF BundlesTypeOK, ChildRows
    <2> QED BY <1>1, <1>6, <1>7, <2>1 DEF KidInv
  <1>10. RevokedHasNoLiveChild'
    BY <1>1, <1>6 DEF RevokedHasNoLiveChild, KidsOf
  <1>11. OneFingerprint'
    BY <1>1 DEF CompositionHolds, OneFingerprint, VlessKids, ActiveKids, KidsOf, BackendOfKey
  <1>12. PrintInv'
    <2>1. KidsOf(b)' = {}  BY <1>1, <1>7 DEF KidsOf
    <2> QED BY <1>3, <2>1 DEF PrintInv, VlessKids, ActiveKids
  <1>13. CoverInv'  BY <1>3 DEF CoverInv
  <1>14. Range(bop'.drop) = {}  BY <1>3 DEF Range
  <1>15. bop'.at = "make" /\ bop'.made = <<>> /\ Len(bop'.todo) <= Cardinality(Fresh)
    <2>1. Len(slots) <= Cardinality(Fresh)  BY <1>1 DEF slots
    <2>2. bop'.at = "make" /\ bop'.made = <<>> /\ bop'.todo = slots  BY <1>3
    <2> QED BY <2>1, <2>2
  <1> QED BY <1>1, <1>4, <1>5, <1>8, <1>9, <1>10, <1>11, <1>12, <1>13, <1>14, <1>15, BeginHolds

\* A revocation and a deletion list every child of the bundle first.
LEMMA EndingKeeps ==
  ASSUME BunInv, NEW b \in Bundles, RevokeBundle(b) \/ DeleteBundle(b)
  PROVE  BunInv'
  <1> USE BundlesAssumption DEF BunInv
  <1>1. PICK w \in {"revoke", "delete"} :
          /\ bop = NoOp /\ bundle[b].st # "absent" /\ bundle[b].st # "gone"
          /\ bundle' = [bundle EXCEPT ![b].st = IF w = "revoke" THEN "pending_revoke" ELSE "pending_delete"]
          /\ bop' = [NoOp EXCEPT !.what = w, !.b = b, !.at = IF w = "revoke" THEN "revoke" ELSE "remove",
                                 !.drop = Ascending(KidsOf(b))]
          /\ ended' = ended \cup {b} /\ UNCHANGED <<child, others, faults, lost, split>>
    BY DEF RevokeBundle, DeleteBundle, Begin, SetBundle, BundleRevocable, BundleDeletable, BundleStatuses
  <1> DEFINE kids == Ascending(KidsOf(b))
  <1>2. kids \in Seq(Ids) /\ Range(kids) = KidsOf(b)
    <2>1. KidsOf(b) \in SUBSET Ids  BY DEF KidsOf
    <2> QED BY <2>1, KidsListed
  <1> HIDE DEF kids
  <1>3. bop' = [what |-> w, b |-> b, at |-> IF w = "revoke" THEN "revoke" ELSE "remove", kind |-> "basic", todo |-> <<>>,
                cur |-> NoKeyId, made |-> <<>>, drop |-> kids, target |-> {}, taken |-> {},
                bad |-> FALSE, bulk |-> FALSE, fp |-> CHOOSE p \in Prints : TRUE, due |-> FALSE]
    BY <1>1 DEF NoOp, kids
  <1>4. bop' \in Operations
    <2>1. (CHOOSE p \in Prints : TRUE) \in Prints  OBVIOUS
    <2>2. <<>> \in Seq(Slots) /\ <<>> \in Seq(Ids)  OBVIOUS
    <2> QED BY <1>2, <1>3, <2>1, <2>2 DEF Operations, Kinds
  <1>5. BundlesTypeOK'
    BY <1>1, <1>4 DEF BundlesTypeOK, BundleStatuses, others
  <1>6. /\ bundle'[b].st = IF w = "revoke" THEN "pending_revoke" ELSE "pending_delete"
        /\ (\A c \in Bundles : c # b => bundle'[c] = bundle[c])
    BY <1>1 DEF BundlesTypeOK
  <1>7. OpFrame'  BY <1>3, <1>6 DEF OpFrame, Ids
  <1>8. KidInv'
    <2>1. \A k \in Ids : child[k].in # NoBundle => child[k].in \in Bundles  BY DEF BundlesTypeOK, ChildRows
    <2> QED BY <1>1, <1>6, <2>1 DEF KidInv
  <1>9. RevokedHasNoLiveChild'
    BY <1>1, <1>6 DEF RevokedHasNoLiveChild, KidsOf
  <1>10. OneFingerprint'
    BY <1>1 DEF CompositionHolds, OneFingerprint, VlessKids, ActiveKids, KidsOf, BackendOfKey
  <1>11. PrintInv' /\ CoverInv'  BY <1>3 DEF PrintInv, CoverInv
  <1>12. \A k \in Range(bop'.drop) : k \in Ids /\ child[k].in = bop'.b /\ bop'.b # NoBundle
    BY <1>2, <1>3 DEF KidsOf
  <1>13. bop'.at \in {"remove", "revoke"} /\ bop'.made = <<>> /\ \A k \in KidsOf(bop'.b) : k \in Range(bop'.drop)
    BY <1>2, <1>3
  <1> QED BY <1>1, <1>4, <1>5, <1>7, <1>8, <1>9, <1>10, <1>11, <1>12, <1>13, BeginHolds

\* A change of fingerprint lists the live VLESS children.
LEMMA PrintKeeps ==
  ASSUME BunInv, NEW b \in Bundles, ChangeFingerprint(b)
  PROVE  BunInv'
  <1> USE BundlesAssumption DEF BunInv
  <1>1. PICK fp \in Prints :
          /\ bop = NoOp /\ bundle[b].st = "active"
          /\ bop' = [NoOp EXCEPT !.what = "print", !.b = b, !.at = "stamp", !.fp = fp, !.drop = Ascending(VlessKids(b))]
          /\ split' = split \cup {b} /\ UNCHANGED <<bundle, child, others, faults, lost, ended>>
    BY DEF ChangeFingerprint, Begin
  <1> DEFINE kids == Ascending(VlessKids(b))
  <1>2. kids \in Seq(Ids) /\ Range(kids) = VlessKids(b)
    <2>1. VlessKids(b) \in SUBSET Ids  BY DEF VlessKids, ActiveKids, KidsOf
    <2> QED BY <2>1, KidsListed
  <1> HIDE DEF kids
  <1>3. bop' = [what |-> "print", b |-> b, at |-> "stamp", kind |-> "basic", todo |-> <<>>,
                cur |-> NoKeyId, made |-> <<>>, drop |-> kids, target |-> {}, taken |-> {},
                bad |-> FALSE, bulk |-> FALSE, fp |-> fp, due |-> FALSE]
    BY <1>1 DEF NoOp, kids
  <1>4. bop' \in Operations
    <2>2. <<>> \in Seq(Slots) /\ <<>> \in Seq(Ids)  OBVIOUS
    <2> QED BY <1>2, <1>3, <2>2 DEF Operations, Kinds
  <1>5. BundlesTypeOK'
    BY <1>1, <1>4 DEF BundlesTypeOK, others
  <1>6. OpFrame'
    <2>1. bundle'[b].st = "active" /\ b \in split' /\ b # NoBundle  BY <1>1
    <2>2. /\ bop'.what = "print" /\ bop'.b = b /\ bop'.at = "stamp" /\ bop'.cur = NoKeyId
      BY <1>3
    <2> QED BY <2>1, <2>2 DEF OpFrame, Ids
  <1>7. KidInv' /\ RevokedHasNoLiveChild'  BY <1>1 DEF KidInv, RevokedHasNoLiveChild, KidsOf
  <1>8. OneFingerprint'
    BY <1>1 DEF CompositionHolds, OneFingerprint, VlessKids, ActiveKids, KidsOf, BackendOfKey
  <1>9. PrintInv'
    <2>1. VlessKids(b)' = VlessKids(b)  BY <1>1 DEF VlessKids, ActiveKids, KidsOf, BackendOfKey
    <2> QED BY <1>2, <1>3, <2>1 DEF PrintInv
  <1>10. CoverInv'  BY <1>3 DEF CoverInv
  <1>11. \A k \in Range(bop'.drop) : k \in Ids /\ child[k].in = bop'.b /\ bop'.b # NoBundle
    BY <1>2, <1>3 DEF VlessKids, ActiveKids, KidsOf
  <1>12. bop = NoOp /\ UNCHANGED <<child, lost>> /\ bop'.at = "stamp" /\ bop'.made = <<>>
    <2>1. bop = NoOp /\ UNCHANGED <<child, lost>>  BY <1>1
    <2>2. bop'.at = "stamp" /\ bop'.made = <<>>  BY <1>3
    <2> QED BY <2>1, <2>2
  <1> QED BY <1>12, <1>4, <1>5, <1>6, <1>7, <1>8, <1>9, <1>10, <1>11, BeginHolds

\* What a reconcile plans covers, with what is there, the target, and removes nothing of it.
LEMMA Planned ==
  ASSUME BundlesTypeOK, NEW b \in Bundles, NEW kind \in Kinds
  PROVE  /\ ToCreate(b, kind) \in Seq(Slots) /\ Range(Included(kind)) \in SUBSET Slots
         /\ Range(Included(kind)) \subseteq SlotsOf(ActiveKids(b)) \cup Range(ToCreate(b, kind))
         /\ ToDelete(b, kind) \in Seq(Ids)
         /\ \A k \in Range(ToDelete(b, kind)) :
              k \in KidsOf(b) /\ (child[k].st = "active" => child[k].slot \notin Range(Included(kind)))
  <1> DEFINE slots == Included(kind)
             covered == SlotsOf(ActiveKids(b))
             over == {k \in ActiveKids(b) : child[k].slot \notin Range(slots)} \cup Dead(b)
  <1>1. slots \in Seq(Slots)  BY Composed
  <1>2. ToCreate(b, kind) = Keep(slots, Slots \ covered)  BY DEF ToCreate
  <1>3. ToDelete(b, kind) = Ascending(over)  BY DEF ToDelete
  <1>4. over \in SUBSET Ids  BY DEF Dead, ActiveKids, KidsOf
  <1>5. \A k \in over : k \in KidsOf(b) /\ (child[k].st = "active" => child[k].slot \notin Range(slots))
    BY DEF Dead, ActiveKids, KidsOf
  <1> HIDE DEF slots, covered, over
  <1>6. Range(slots) \in SUBSET Slots  BY <1>1, Lists
  <1>7. Keep(slots, Slots \ covered) \in Seq(Slots)
        /\ Range(Keep(slots, Slots \ covered)) = Range(slots) \cap (Slots \ covered)
    BY <1>1, Kept
  <1>8. Ascending(over) \in Seq(Ids) /\ Range(Ascending(over)) = over  BY <1>4, KidsListed
  <1>9. Range(slots) \subseteq covered \cup Range(ToCreate(b, kind))  BY <1>2, <1>6, <1>7
  <1> QED BY <1>2, <1>3, <1>5, <1>6, <1>7, <1>8, <1>9 DEF slots, covered

\* The fingerprint of a bundle is that of one of its VLESS children, if it has any.
LEMMA PrintFound ==
  ASSUME BundlesTypeOK, NEW b \in Bundles
  PROVE  /\ BundleFingerprint(b) \in Prints
         /\ VlessKids(b) # {} => \E k \in VlessKids(b) : BundleFingerprint(b) = child[k].fp
  <1>0. VlessKids(b) \in SUBSET Ids  BY DEF VlessKids, ActiveKids, KidsOf
  <1>1. CASE VlessKids(b) = {}
    BY <1>1, BundlesAssumption DEF BundleFingerprint
  <1>2. CASE VlessKids(b) # {}
    <2> DEFINE rank(k) == ServingRank(child[k].slot)
               R == {rank(k) : k \in VlessKids(b)}
               first == CHOOSE k \in VlessKids(b) : \A j \in VlessKids(b) : rank(k) <= rank(j)
    <2>1. \A k \in VlessKids(b) : rank(k) \in Nat
      <3>1. ASSUME NEW s \in Slots PROVE ServingRank(s) \in Nat
        <4> DEFINE group == IF s[2] = Direct THEN 0 ELSE CHOOSE i \in DOMAIN Relays : Relays[i] = s[2]
                   place == CHOOSE i \in DOMAIN Extended : Extended[i] = s[1]
        <4>1. s[1] \in Range(Extended) /\ s[2] \in Range(Relays) \cup {Direct}  BY <3>1 DEF Slots
        <4>2. place \in Nat
          <5>1. \E i \in DOMAIN Extended : Extended[i] = s[1]  BY <4>1 DEF Range
          <5>2. place \in DOMAIN Extended  BY <5>1
          <5>3. DOMAIN Extended \subseteq Nat  BY BundlesAssumption
          <5> QED BY <5>2, <5>3
        <4>3. group \in Nat
          <5>1. CASE s[2] = Direct  BY <5>1
          <5>2. CASE s[2] # Direct
            <6>1. \E i \in DOMAIN Relays : Relays[i] = s[2]  BY <4>1, <5>2 DEF Range
            <6>2. group \in DOMAIN Relays  BY <5>2, <6>1
            <6>3. DOMAIN Relays \subseteq Nat  BY BundlesAssumption
            <6> QED BY <6>2, <6>3
          <5> QED BY <5>1, <5>2
        <4>4. Len(Extended) \in Nat  BY BundlesAssumption
        <4>5. ServingRank(s) = group * (Len(Extended) + 1) + place  BY DEF ServingRank
        <4> HIDE DEF group, place
        <4> QED BY <4>2, <4>3, <4>4, <4>5
      <3> QED BY <1>0, <3>1 DEF BundlesTypeOK, ChildRows
    <2> HIDE DEF rank
    <2>2. R \in SUBSET Nat /\ R # {}  BY <1>2, <2>1
    <2>3. \E k \in VlessKids(b) : \A j \in VlessKids(b) : rank(k) <= rank(j)
      <3>1. PICK x \in R : \A y \in R : x <= y
        <4> HIDE DEF R
        <4> QED BY <2>2, Least
      <3> QED BY <3>1
    <2>4. first \in VlessKids(b)  BY <2>3
    <2>5. BundleFingerprint(b) = child[first].fp  BY <1>2 DEF BundleFingerprint, rank
    <2> HIDE DEF first
    <2>6. child[first].fp \in Prints  BY <1>0, <2>4 DEF BundlesTypeOK, ChildRows
    <2> QED BY <2>4, <2>5, <2>6
  <1> QED BY <1>1, <1>2

\* A reconcile lists what is missing and what is superfluous.
LEMMA ReconcileKeeps ==
  ASSUME BunInv, NEW b \in Bundles, NEW kind \in Kinds, NEW inBulk \in BOOLEAN, StartReconcile(b, kind, inBulk),
         bulk' \in [on : BOOLEAN, stop : BOOLEAN, kind : {"own", "basic"}, todo : Seq(Bundles)]
  PROVE  BunInv'
  <1> USE BundlesAssumption DEF BunInv
  <1>1. /\ bundle[b].st = "active" /\ bop = NoOp /\ Len(ToCreate(b, kind)) <= Cardinality(Fresh)
        /\ bop' = [ReconcilePlan(b, kind) EXCEPT !.bulk = inBulk]
        /\ UNCHANGED <<bundle, child, modOn, relayAt, sick, late, faults, turns, lost, ended, split>>
    BY DEF StartReconcile, Begin, Room, Plannable
  <1> DEFINE make == ToCreate(b, kind)
             drop == ToDelete(b, kind)
             target == Range(Included(kind))
             fp == BundleFingerprint(b)
             due == \E k \in ActiveKids(b) : child[k].due
  <1>2. make \in Seq(Slots) /\ drop \in Seq(Ids) /\ target \in SUBSET Slots /\ fp \in Prints /\ due \in BOOLEAN
    BY Planned, PrintFound
  <1>3. bop' = [what |-> "reconcile", b |-> b, at |-> "make", kind |-> kind, todo |-> make,
                cur |-> NoKeyId, made |-> <<>>, drop |-> drop, target |-> target, taken |-> {},
                bad |-> FALSE, bulk |-> inBulk, fp |-> fp, due |-> due]
    BY <1>1 DEF ReconcilePlan, NoOp
  <1>4. /\ target \subseteq SlotsOf(ActiveKids(b)) \cup Range(make)
        /\ \A k \in Range(drop) : k \in KidsOf(b) /\ (child[k].st = "active" => child[k].slot \notin target)
    BY Planned
  <1>5. ASSUME b \notin split, NEW k \in VlessKids(b) PROVE child[k].fp = fp
    <2>1. PICK j \in VlessKids(b) : fp = child[j].fp  BY <1>5, PrintFound
    <2> QED BY <1>5, <2>1 DEF CompositionHolds, OneFingerprint
  <1> HIDE DEF make, drop, target, fp, due
  <1>6. bop' \in Operations  BY <1>2, <1>3 DEF Operations
  <1>7. bop = NoOp /\ UNCHANGED <<bundle, child, modOn, relayAt, sick, late, faults, turns, lost, ended, split>>
    BY <1>1
  <1>8. BundlesTypeOK'  BY <1>6, <1>7 DEF BundlesTypeOK
  <1>9. /\ bop'.what = "reconcile" /\ bop'.b = b /\ bop'.at = "make" /\ bop'.cur = NoKeyId /\ bop'.made = <<>>
        /\ bop'.drop = drop /\ bop'.target = target /\ bop'.todo = make /\ bop'.fp = fp /\ bop'.taken = {}
    BY <1>3
  <1>10. OpFrame'  BY <1>1, <1>9 DEF OpFrame, Ids
  <1>11. KidInv' /\ RevokedHasNoLiveChild' /\ OneFingerprint'
    BY <1>7 DEF KidInv, RevokedHasNoLiveChild, CompositionHolds, OneFingerprint, VlessKids, ActiveKids, KidsOf, BackendOfKey
  <1>12. PrintInv'
    <2>1. VlessKids(b)' = VlessKids(b)  BY <1>7 DEF VlessKids, ActiveKids, KidsOf, BackendOfKey
    <2> QED BY <1>5, <1>7, <1>9, <2>1 DEF PrintInv
  <1>13. CoverInv'
    <2>1. SlotsOf(ActiveKids(b))' = SlotsOf(ActiveKids(b))  BY <1>7 DEF SlotsOf, ActiveKids, KidsOf
    <2> QED BY <1>4, <1>7, <1>9, <2>1 DEF CoverInv
  <1>14. \A k \in Range(bop'.drop) : k \in Ids /\ child[k].in = bop'.b /\ bop'.b # NoBundle
    BY <1>4, <1>9 DEF KidsOf
  <1>15. Len(bop'.todo) <= Cardinality(Fresh)
    <2>1. Len(make) <= Cardinality(Fresh)  BY <1>1 DEF make
    <2> QED BY <1>9, <2>1
  <1> QED BY <1>6, <1>7, <1>8, <1>9, <1>10, <1>11, <1>12, <1>13, <1>14, <1>15, BeginHolds

\* The lists of the operation under way.
LEMMA OpLists ==
  ASSUME BundlesTypeOK
  PROVE  /\ bop.todo \in Seq(Slots) /\ bop.made \in Seq(Ids) /\ bop.drop \in Seq(Ids)
         /\ Range(bop.todo) \subseteq Slots /\ Range(bop.made) \subseteq Ids /\ Range(bop.drop) \subseteq Ids
         /\ bop.todo = <<>> => Range(bop.todo) = {}
         /\ bop.drop = <<>> => Range(bop.drop) = {}
         /\ bop.todo # <<>> => Tail(bop.todo) \in Seq(Slots) /\ Range(bop.todo) \subseteq {Head(bop.todo)} \cup Range(Tail(bop.todo))
         /\ bop.drop # <<>> => /\ Tail(bop.drop) \in Seq(Ids) /\ Head(bop.drop) \in Range(bop.drop)
                               /\ Range(Tail(bop.drop)) \subseteq Range(bop.drop)
                               /\ Range(bop.drop) \subseteq {Head(bop.drop)} \cup Range(Tail(bop.drop))
         /\ bop.made # <<>> => /\ Front(bop.made) \in Seq(Ids) /\ Last(bop.made) \in Range(bop.made)
                               /\ Range(Front(bop.made)) \subseteq Range(bop.made)
         /\ \A k \in Ids : Append(bop.made, k) \in Seq(Ids) /\ Range(Append(bop.made, k)) = Range(bop.made) \cup {k}
  <1>1. bop.todo \in Seq(Slots) /\ bop.made \in Seq(Ids) /\ bop.drop \in Seq(Ids)
    BY DEF BundlesTypeOK, Operations
  <1> DEFINE t == bop.todo
             m == bop.made
             d == bop.drop
  <1>2. t \in Seq(Slots) /\ m \in Seq(Ids) /\ d \in Seq(Ids)  BY <1>1
  <1> HIDE DEF t, m, d
  <1>3. /\ Range(t) \subseteq Slots /\ (t = <<>> => Range(t) = {})
        /\ t # <<>> => Tail(t) \in Seq(Slots) /\ Range(t) \subseteq {Head(t)} \cup Range(Tail(t))
    BY <1>2, Lists
  <1>4. /\ Range(d) \subseteq Ids /\ (d = <<>> => Range(d) = {})
        /\ d # <<>> => /\ Tail(d) \in Seq(Ids) /\ Head(d) \in Range(d) /\ Range(Tail(d)) \subseteq Range(d)
                       /\ Range(d) \subseteq {Head(d)} \cup Range(Tail(d))
    BY <1>2, Lists
  <1>5. /\ Range(m) \subseteq Ids
        /\ m # <<>> => /\ Front(m) \in Seq(Ids) /\ Last(m) \in Range(m) /\ Range(Front(m)) \subseteq Range(m)
        /\ \A k \in Ids : Append(m, k) \in Seq(Ids) /\ Range(Append(m, k)) = Range(m) \cup {k}
    BY <1>2, Lists
  <1> QED BY <1>1, <1>3, <1>4, <1>5 DEF t, m, d

\* The row of a new key.
LEMMA NewRow ==
  ASSUME BundlesTypeOK, bop.todo # <<>>, NEW st \in ChildStatuses
  PROVE  /\ NewChild(st) \in ChildRows /\ NewChild(st).st = st /\ NewChild(st).in = NoBundle
         /\ NewChild(st).for = bop.b /\ NewChild(st).slot = Head(bop.todo)
         /\ BackendOf[NewChild(st).slot[1]] = "xray" => NewChild(st).fp = bop.fp
  <1>1. bop.todo \in Seq(Slots) /\ bop.b \in Bundles \cup {NoBundle} /\ bop.due \in BOOLEAN /\ bop.fp \in Prints
    BY DEF BundlesTypeOK, Operations
  <1>2. Head(bop.todo) \in Slots  BY <1>1
  <1>3. NoChild.fp \in Prints  BY Nothing DEF NoOpTypes, ChildRows
  <1> QED BY <1>1, <1>2, <1>3 DEF NewChild, ChildRows

\* A new key is nobody's child yet.
LEMMA AddFacts ==
  ASSUME BunInv, bop.at = "make", bop.todo # <<>>, NEW st \in {"active", "apply_failed"},
         child' = [child EXCEPT ![Min(Fresh)] = NewChild(st)]
  PROVE  /\ child' \in [Ids -> ChildRows] /\ child'[Min(Fresh)] = NewChild(st)
         /\ \A k \in Ids : child'[k] = child[k] \/ (k = Min(Fresh) /\ child[k].st = "absent")
         /\ \A b \in Bundles : KidsOf(b)' = KidsOf(b) /\ ActiveKids(b)' = ActiveKids(b) /\ VlessKids(b)' = VlessKids(b)
         /\ \A b \in Bundles : \A k \in KidsOf(b) : child'[k] = child[k]
         /\ Fresh' = Fresh \ {Min(Fresh)}
  <1> USE DEF BunInv
  <1> DEFINE m == Min(Fresh)
             r == NewChild(st)
  <1>1. m \in Ids /\ child[m].st = "absent"  BY NextKey
  <1>2. r \in ChildRows /\ r.st = st /\ r.in = NoBundle
    <2>1. st \in ChildStatuses  BY DEF ChildStatuses
    <2> QED BY <2>1, NewRow
  <1> HIDE DEF m, r
  <1>3. child' = [child EXCEPT ![m] = r] /\ child \in [Ids -> ChildRows]  BY DEF m, r, BundlesTypeOK
  <1>4. child' \in [Ids -> ChildRows] /\ child'[m] = r /\ \A k \in Ids : k # m => child'[k] = child[k]
    BY <1>1, <1>2, <1>3
  <1>5. child[m].in = NoBundle  BY <1>1 DEF KidInv
  <1>6. ASSUME NEW b \in Bundles
        PROVE  /\ KidsOf(b)' = KidsOf(b) /\ m \notin KidsOf(b) /\ ActiveKids(b)' = ActiveKids(b)
               /\ VlessKids(b)' = VlessKids(b)
    <2>1. b # NoBundle  BY BundlesAssumption
    <2>2. KidsOf(b)' = KidsOf(b) /\ m \notin KidsOf(b)  BY <1>2, <1>4, <1>5, <2>1 DEF KidsOf
    <2>3. \A k \in KidsOf(b) : child'[k] = child[k]  BY <1>4, <2>2 DEF KidsOf
    <2>4. ActiveKids(b)' = ActiveKids(b)  BY <2>2, <2>3 DEF ActiveKids
    <2>5. VlessKids(b)' = VlessKids(b)  BY <2>3, <2>4 DEF VlessKids, ActiveKids, BackendOfKey
    <2> QED BY <2>2, <2>4, <2>5
  <1>7. \A b \in Bundles : \A k \in KidsOf(b) : child'[k] = child[k]  BY <1>4, <1>6 DEF KidsOf
  <1>8. Fresh' = Fresh \ {m}  BY <1>1, <1>2, <1>4 DEF Fresh
  <1> QED BY <1>1, <1>4, <1>6, <1>7, <1>8 DEF m, r

\* A key is live before it is attached.
LEMMA ProvisionKeeps ==
  ASSUME BunInv, Provision
  PROVE  BunInv'
  <1> USE BundlesAssumption DEF BunInv
  <1> DEFINE m == Min(Fresh)
             r == NewChild("active")
  <1>1. /\ bop.at = "make" /\ bop.todo # <<>> /\ child' = [child EXCEPT ![m] = r]
        /\ bop' = [bop EXCEPT !.at = "attach", !.cur = m, !.todo = Tail(bop.todo)]
        /\ UNCHANGED <<bundle, others, faults, lost, ended, split>>
    BY DEF Provision, At, Step, NoFault
  <1>2. m \in Ids /\ child[m].st = "absent" /\ Len(Tail(bop.todo)) <= Cardinality(Fresh \ {m})
    BY <1>1, NextKey
  <1>3. r \in ChildRows /\ r.st = "active" /\ r.in = NoBundle /\ r.for = bop.b /\ r.slot = Head(bop.todo)
        /\ (BackendOf[r.slot[1]] = "xray" => r.fp = bop.fp)
    <2>1. "active" \in ChildStatuses  BY DEF ChildStatuses
    <2> QED BY <1>1, <2>1, NewRow
  <1>4. /\ child' \in [Ids -> ChildRows] /\ child'[m] = r
        /\ \A k \in Ids : child'[k] = child[k] \/ (k = m /\ child[k].st = "absent")
        /\ \A b \in Bundles : KidsOf(b)' = KidsOf(b) /\ ActiveKids(b)' = ActiveKids(b) /\ VlessKids(b)' = VlessKids(b)
        /\ \A b \in Bundles : \A k \in KidsOf(b) : child'[k] = child[k]
        /\ Fresh' = Fresh \ {m}
    BY <1>1, AddFacts
  <1> HIDE DEF m, r
  <1>5. bop \in Operations /\ bop.todo \in Seq(Slots) /\ bop.made \in Seq(Ids) /\ bop.drop \in Seq(Ids)
    BY DEF BundlesTypeOK, Operations
  <1>6. /\ bop' \in Operations /\ bop'.what = bop.what /\ bop'.b = bop.b /\ bop'.at = "attach" /\ bop'.cur = m
        /\ bop'.todo = Tail(bop.todo) /\ bop'.made = bop.made /\ bop'.drop = bop.drop /\ bop'.fp = bop.fp
        /\ bop'.target = bop.target /\ bop'.taken = bop.taken
    <2>1. Tail(bop.todo) \in Seq(Slots)  BY <1>1, <1>5
    <2> QED BY <1>1, <1>2, <1>5, <2>1 DEF Operations
  <1>7. BundlesTypeOK'  BY <1>1, <1>4, <1>6 DEF BundlesTypeOK, others
  <1>8. OpFrame'
    <2>1. bundle' = bundle /\ split' = split  BY <1>1
    <2>2. bop.at = "make"  BY <1>1
    <2> QED BY <1>2, <1>6, <2>1, <2>2 DEF OpFrame
  <1>9. bop.b \in Bundles /\ bop.what \in {"create", "reconcile"}
    BY <1>1, <1>5 DEF OpFrame, Operations
  <1>10. bundle' = bundle /\ lost' = lost /\ split' = split /\ bop.at = "make" /\ bop.todo # <<>>  BY <1>1
  <1>11. KidInv'
    BY <1>3, <1>4, <1>9, <1>10 DEF KidInv
  <1>12. WorkInv'
    <2>1. Range(bop.made) \cup Range(bop.drop) \subseteq Ids  BY OpLists
    <2>2. \A k \in Range(bop.made) \cup Range(bop.drop) : child'[k] = child[k]
      BY <1>4, <2>1 DEF WorkInv
    <2>3. Len(bop'.todo) <= Cardinality(Fresh')
      BY <1>2, <1>4, <1>6
    <2>4. child'[m].st # "absent" /\ child'[m].in = NoBundle /\ child'[m].for = bop.b  BY <1>3, <1>4
    <2>5. \A k \in Range(bop'.made) \cup Range(bop'.drop) : child'[k].st # "absent" /\ child'[k].in \in {bop'.b, NoBundle}
      BY <1>6, <2>2 DEF WorkInv
    <2> QED BY <1>6, <2>3, <2>4, <2>5 DEF WorkInv, Room
  <1>13. OwnInv'
    BY <1>4, <1>6, <1>10 DEF OwnInv
  <1>14. RevInv'  BY <1>6 DEF RevInv
  <1>15. RevokedHasNoLiveChild'
    BY <1>4, <1>10 DEF RevokedHasNoLiveChild
  <1>16. OneFingerprint'
    <2>1. OneFingerprint  BY DEF CompositionHolds
    <2>2. \A b \in Bundles : VlessKids(b) \subseteq KidsOf(b)  BY DEF VlessKids, ActiveKids
    <2> QED BY <1>4, <1>10, <2>1, <2>2 DEF OneFingerprint
  <1>17. PrintInv'
    <2>1. VlessKids(bop.b)' = VlessKids(bop.b) /\ VlessKids(bop.b) \subseteq KidsOf(bop.b)
      BY <1>4, <1>6, <1>9 DEF VlessKids, ActiveKids
    <2>2. bop.b \notin split => \A k \in VlessKids(bop.b) : child'[k].fp = bop.fp
      BY <1>4, <1>9, <2>1 DEF PrintInv
    <2>3. BackendOf[child'[m].slot[1]] = "xray" => child'[m].fp = bop.fp  BY <1>3, <1>4
    <2> QED BY <1>6, <1>10, <2>1, <2>2, <2>3 DEF PrintInv, BackendOfKey
  <1>18. CoverInv'
    <2>1. ASSUME bop.what = "reconcile" PROVE CoverInv'
      <3>1. \A k \in Range(bop.drop) : child'[k] = child[k]
        <4>1. Range(bop.drop) \subseteq Ids  BY OpLists
        <4> QED BY <1>4, <4>1 DEF WorkInv
      <3>2. SlotsOf(ActiveKids(bop.b))' = SlotsOf(ActiveKids(bop.b))
        <4>1. ActiveKids(bop.b)' = ActiveKids(bop.b) /\ ActiveKids(bop.b) \subseteq KidsOf(bop.b)
          BY <1>4, <1>6, <1>9 DEF ActiveKids
        <4> QED BY <1>4, <1>9, <4>1 DEF SlotsOf
      <3>3. Range(bop.todo) \subseteq {Head(bop.todo)} \cup Range(Tail(bop.todo))  BY <1>10, OpLists
      <3>4. child'[m].st = "active" /\ child'[m].slot = Head(bop.todo)  BY <1>3, <1>4
      <3>5. \A s \in bop.target : s \in SlotsOf(ActiveKids(bop.b)) \cup bop.taken \cup Range(bop.todo)
        BY <1>10, <2>1 DEF CoverInv
      <3>6. \A k \in Range(bop.drop) : child'[k].st = "active" => child'[k].slot \notin bop.target
        BY <2>1, <3>1 DEF CoverInv
      <3> QED BY <1>6, <3>2, <3>3, <3>4, <3>5, <3>6 DEF CoverInv
    <2> QED BY <1>6, <2>1 DEF CoverInv
  <1>19. TargetStaysCovered'  BY <1>6 DEF TargetStaysCovered, At
  <1> QED BY <1>7, <1>8, <1>11, <1>12, <1>13, <1>14, <1>15, <1>16, <1>17, <1>18, <1>19 DEF CompositionHolds

\* An operation under way has a bundle, whose row is there and not revoked.
LEMMA Busy ==
  ASSUME BunInv, bop.at # "idle"
  PROVE  /\ bop \in Operations /\ bop.b \in Bundles
         /\ bundle[bop.b].st \in {"active", "pending_revoke", "pending_delete"}
         /\ bop.at \in {"make", "attach"} => bop.what \in {"create", "reconcile"}
         /\ bop.at = "unwind" => bop.what \in {"create", "reconcile"}
         /\ bop.at = "drop" => bop.what = "reconcile"
         /\ bop.at \in {"revoke", "retire"} => bop.what = "revoke"
         /\ bop.at = "stamp" => bop.what = "print"
         /\ bop.at = "remove" => bop.what = "delete"
         /\ bop.at = "mark" => bop.what \in {"create", "delete"}
  BY DEF BunInv, BundlesTypeOK, OpFrame, Operations

\* An operation that withdraws keys goes on to withdraw the rest.
LEMMA GoesOn ==
  ASSUME BunInv, bop.at \notin {"idle", "attach"}, Fades, bundle' = bundle, split' = split, lost' = lost, BundlesTypeOK',
         \A k \in Ids : child'[k] = child[k] \/ child[k].in \in {bop.b, NoBundle},
         bop'.what = bop.what, bop'.b = bop.b, bop'.fp = bop.fp, bop'.target = bop.target, bop'.taken = bop.taken,
         bop'.at \notin {"idle", "make", "attach", "stamp"}, OpFrame',
         Range(bop'.made) \subseteq Range(bop.made), Range(bop'.drop) \subseteq Range(bop.drop),
         RevInv', TargetStaysCovered'
  PROVE  BunInv'
  <1> USE DEF BunInv
  <1>1. bop.b \in Bundles /\ bundle[bop.b].st # "revoked"  BY Busy
  <1>2. KidInv' /\ RevokedHasNoLiveChild' /\ OneFingerprint'
    <2>1. \A k \in Ids : \/ child'[k] = child[k] \/ child'[k].st \in {"revoked", "gone"}
                         \/ child[k].in = NoBundle \/ bundle[child[k].in].st # "revoked"
      BY <1>1
    <2> QED BY <2>1, FadeKeeps
  <1>3. Range(bop.made) \subseteq Ids /\ Range(bop.drop) \subseteq Ids  BY OpLists
  <1>4. WorkInv'
    <2>1. \A k \in Range(bop.made) \cup Range(bop.drop) : child'[k].st # "absent" /\ child'[k].in \in {bop.b, NoBundle}
      BY <1>3, FadeFacts DEF WorkInv
    <2>2. \A k \in Range(bop'.made) \cup Range(bop'.drop) : child'[k].st # "absent" /\ child'[k].in \in {bop'.b, NoBundle}
      BY <2>1
    <2> QED BY <2>2 DEF WorkInv
  <1>5. OwnInv'  BY FadeFacts DEF OwnInv
  <1>6. PrintInv'
    <2>1. \A k \in VlessKids(bop.b)' : k \in VlessKids(bop.b) /\ child'[k].fp = child[k].fp
      BY <1>1, FadeFacts, BundlesAssumption DEF VlessKids, ActiveKids, KidsOf, BackendOfKey
    <2> QED BY <2>1 DEF PrintInv
  <1>7. CoverInv'  BY <1>3, FadeFacts DEF CoverInv
  <1> QED BY <1>2, <1>4, <1>5, <1>6, <1>7 DEF CompositionHolds

\* The rows change, not what they say of their status to the keys.
LEMMA RowsKeep ==
  ASSUME BunInv, child' = child, split' = split,
         \A b \in Bundles : bundle'[b].st = bundle[b].st \/ (bundle[b].st # "absent" /\ bundle'[b].st \notin {"absent", "gone", "revoked"})
  PROVE  KidInv' /\ RevokedHasNoLiveChild' /\ OneFingerprint'
  <1> USE DEF BunInv
  <1>1. \A k \in Ids : child[k].in # NoBundle => child[k].in \in Bundles  BY DEF BundlesTypeOK, ChildRows
  <1>2. KidInv'  BY <1>1 DEF KidInv
  <1>3. RevokedHasNoLiveChild'  BY DEF RevokedHasNoLiveChild, KidsOf
  <1>4. OneFingerprint'
    BY DEF CompositionHolds, OneFingerprint, VlessKids, ActiveKids, KidsOf, BackendOfKey
  <1> QED BY <1>2, <1>3, <1>4

\* Nothing fades.
LEMMA NoFade ==
  ASSUME BundlesTypeOK, child' = child
  PROVE  Fades
  BY DEF Fades, BundlesTypeOK

\* The operation under way, somewhere else.
LEMMA OpMoves ==
  ASSUME BundlesTypeOK, NEW w \in {"unwind", "mark", "retire", "drop"}, bop' = [bop EXCEPT !.at = w]
  PROVE  /\ bop' \in Operations /\ bop'.at = w /\ bop'.what = bop.what /\ bop'.b = bop.b /\ bop'.fp = bop.fp
         /\ bop'.target = bop.target /\ bop'.taken = bop.taken /\ bop'.made = bop.made /\ bop'.drop = bop.drop
         /\ bop'.cur = bop.cur /\ bop'.bad = bop.bad
  <1>1. bop \in Operations  BY DEF BundlesTypeOK
  <1>2. bop' \in Operations  BY <1>1 DEF Operations
  <1>3. /\ bop'.at = w /\ bop'.what = bop.what /\ bop'.b = bop.b /\ bop'.fp = bop.fp
        /\ bop'.target = bop.target /\ bop'.taken = bop.taken /\ bop'.made = bop.made /\ bop'.drop = bop.drop
        /\ bop'.cur = bop.cur /\ bop'.bad = bop.bad
    BY <1>1 DEF Operations
  <1> QED BY <1>2, <1>3

\* The operation under way, with another list of what it made.
LEMMA OpMade ==
  ASSUME BundlesTypeOK, NEW q \in Seq(Ids), NEW bad \in BOOLEAN, bop' = [bop EXCEPT !.made = q, !.bad = bad]
  PROVE  /\ bop' \in Operations /\ bop'.at = bop.at /\ bop'.what = bop.what /\ bop'.b = bop.b /\ bop'.fp = bop.fp
         /\ bop'.target = bop.target /\ bop'.taken = bop.taken /\ bop'.made = q /\ bop'.drop = bop.drop
         /\ bop'.cur = bop.cur /\ bop'.bad = bad
  <1>1. bop \in Operations  BY DEF BundlesTypeOK
  <1>2. bop' \in Operations  BY <1>1 DEF Operations
  <1>3. /\ bop'.at = bop.at /\ bop'.what = bop.what /\ bop'.b = bop.b /\ bop'.fp = bop.fp
        /\ bop'.target = bop.target /\ bop'.taken = bop.taken /\ bop'.made = q /\ bop'.drop = bop.drop
        /\ bop'.cur = bop.cur /\ bop'.bad = bad
    BY <1>1 DEF Operations
  <1> QED BY <1>2, <1>3

\* The operation under way, with less left on its list.
LEMMA OpDrops ==
  ASSUME BundlesTypeOK, NEW q \in Seq(Ids), NEW bad \in BOOLEAN, bop' = [bop EXCEPT !.drop = q, !.bad = bad]
  PROVE  /\ bop' \in Operations /\ bop'.at = bop.at /\ bop'.what = bop.what /\ bop'.b = bop.b /\ bop'.fp = bop.fp
         /\ bop'.target = bop.target /\ bop'.taken = bop.taken /\ bop'.made = bop.made /\ bop'.drop = q
         /\ bop'.cur = bop.cur /\ bop'.bad = bad
  <1>1. bop \in Operations  BY DEF BundlesTypeOK
  <1>2. bop' \in Operations  BY <1>1 DEF Operations
  <1>3. /\ bop'.at = bop.at /\ bop'.what = bop.what /\ bop'.b = bop.b /\ bop'.fp = bop.fp
        /\ bop'.target = bop.target /\ bop'.taken = bop.taken /\ bop'.made = bop.made /\ bop'.drop = q
        /\ bop'.cur = bop.cur /\ bop'.bad = bad
    BY <1>1 DEF Operations
  <1> QED BY <1>2, <1>3

\* A key of the operation fades, or is left as it is.
LEMMA OneFades ==
  ASSUME BunInv, NEW k \in Ids, child[k].st # "absent", child[k].in \in {bop.b, NoBundle},
         \/ child' = child
         \/ MayDelete(k) /\ child' = Gone(k)
         \/ MayDelete(k) /\ \E st \in AfterFailedDelete(k) : child' = [child EXCEPT ![k].st = st]
         \/ MayRevoke(k) /\ child' = [child EXCEPT ![k].st = "revoked"]
         \/ MayRevoke(k) /\ \E st \in AfterFailedRevoke(k) : child' = [child EXCEPT ![k].st = st]
  PROVE  Fades /\ \A j \in Ids : child'[j] = child[j] \/ (j = k /\ child[j].in \in {bop.b, NoBundle})
  <1> USE DEF BunInv
  <1>1. CASE child' = child  BY <1>1, NoFade
  <1>2. CASE MayDelete(k) /\ (child' = Gone(k) \/ \E st \in AfterFailedDelete(k) : child' = [child EXCEPT ![k].st = st])
    BY <1>2, DeleteFades
  <1>3. CASE MayRevoke(k) /\ (child' = [child EXCEPT ![k].st = "revoked"]
                              \/ \E st \in AfterFailedRevoke(k) : child' = [child EXCEPT ![k].st = st])
    BY <1>3, RevokeFades
  <1> QED BY <1>1, <1>2, <1>3

\* The steps that withdraw a key stay well typed.
LEMMA FadeTypes ==
  ASSUME BundlesTypeOK, Fades, bop' \in Operations, UNCHANGED <<bundle, others, lost, ended, split>>, faults' \in Nat
  PROVE  BundlesTypeOK'
  BY DEF BundlesTypeOK, others, Fades

\* A failure more, or none.
LEMMA FaultTypes ==
  ASSUME BundlesTypeOK, Fault \/ NoFault
  PROVE  faults' \in Nat
  BY DEF BundlesTypeOK, Fault, NoFault

\* An operation that stops where it is while a key of it fades.
LEMMA FadeStops ==
  ASSUME BunInv, bop.at \notin {"idle", "attach"}, Fades, UNCHANGED <<bundle, others, lost, ended, split>>, faults' \in Nat,
         \A k \in Ids : child'[k] = child[k] \/ child[k].in \in {bop.b, NoBundle},
         bop' = NoOp
  PROVE  BunInv'
  <1> USE DEF BunInv
  <1>1. bop.b \in Bundles /\ bundle[bop.b].st # "revoked"  BY Busy
  <1>2. KidInv' /\ RevokedHasNoLiveChild' /\ OneFingerprint'
    <2>1. \A k \in Ids : \/ child'[k] = child[k] \/ child'[k].st \in {"revoked", "gone"}
                         \/ child[k].in = NoBundle \/ bundle[child[k].in].st # "revoked"
      BY <1>1
    <2> QED BY <2>1, FadeKeeps
  <1>3. BundlesTypeOK'  BY FadeTypes, Nothing DEF NoOpTypes
  <1>4. \A k \in Ids : child'[k].st = "active" /\ child'[k].in = NoBundle => k \in lost'
    BY FadeFacts DEF OwnInv
  <1> QED BY <1>2, <1>3, <1>4, IdleHolds

\* The rollback removes the keys it made, newest first.
LEMMA UnwindChildKeeps ==
  ASSUME BunInv, UnwindChild
  PROVE  BunInv'
  <1> USE DEF BunInv
  <1> DEFINE k == Last(bop.made)
             q == Front(bop.made)
  <1>1. /\ bop.at = "unwind" /\ bop.made # <<>> /\ UNCHANGED <<bundle, others, lost, ended, split>>
        /\ (Fault \/ NoFault)
        /\ \/ child' = child
           \/ MayDelete(k) /\ child' = Gone(k)
           \/ MayDelete(k) /\ \E st \in AfterFailedDelete(k) : child' = [child EXCEPT ![k].st = st]
        /\ bop' = [bop EXCEPT !.made = q] \/ bop' = [bop EXCEPT !.made = q, !.bad = TRUE]
    BY DEF UnwindChild, At, Step
  <1>2. q \in Seq(Ids) /\ k \in Range(bop.made) /\ Range(q) \subseteq Range(bop.made) /\ k \in Ids
    BY <1>1, OpLists
  <1> HIDE DEF k, q
  <1>3. PICK bad \in BOOLEAN : bop' = [bop EXCEPT !.made = q, !.bad = bad]
    <2>1. bop.bad \in BOOLEAN /\ [bop EXCEPT !.made = q, !.bad = bop.bad] = [bop EXCEPT !.made = q]
      BY DEF BundlesTypeOK, Operations
    <2> QED BY <1>1, <2>1
  <1>4. /\ bop' \in Operations /\ bop'.at = bop.at /\ bop'.what = bop.what /\ bop'.b = bop.b /\ bop'.fp = bop.fp
        /\ bop'.target = bop.target /\ bop'.taken = bop.taken /\ bop'.made = q /\ bop'.drop = bop.drop /\ bop'.cur = bop.cur
    BY <1>2, <1>3, OpMade
  <1>5. child[k].st # "absent" /\ child[k].in \in {bop.b, NoBundle}  BY <1>2 DEF WorkInv
  <1>6. Fades /\ \A j \in Ids : child'[j] = child[j] \/ (j = k /\ child[j].in \in {bop.b, NoBundle})
    BY <1>1, <1>2, <1>5, OneFades
  <1>7. bundle' = bundle /\ split' = split /\ lost' = lost /\ bop.at = "unwind"  BY <1>1
  <1>8. BundlesTypeOK'  BY <1>1, <1>4, <1>6, FadeTypes, FaultTypes
  <1>9. OpFrame'  BY <1>4, <1>7 DEF OpFrame
  <1>10. RevInv' /\ TargetStaysCovered'  BY <1>4, <1>7 DEF RevInv, TargetStaysCovered, At
  <1> QED BY <1>2, <1>4, <1>6, <1>7, <1>8, <1>9, <1>10, GoesOn

\* A revocation takes the children one by one, and goes on past the one that fails.
LEMMA RevokeChildKeeps ==
  ASSUME BunInv, RevokeChild
  PROVE  BunInv'
  <1> USE DEF BunInv
  <1> DEFINE k == Head(bop.drop)
             q == Tail(bop.drop)
  <1>1. /\ bop.at = "revoke" /\ bop.drop # <<>> /\ UNCHANGED <<bundle, others, lost, ended, split>>
        /\ (Fault \/ NoFault)
        /\ \/ MayRevoke(k) /\ child' = [child EXCEPT ![k].st = "revoked"] /\ bop' = [bop EXCEPT !.drop = q]
           \/ /\ \/ child' = child
                 \/ MayRevoke(k) /\ \E st \in AfterFailedRevoke(k) : child' = [child EXCEPT ![k].st = st]
              /\ bop' = [bop EXCEPT !.drop = q, !.bad = TRUE]
    BY DEF RevokeChild, At, Step
  <1>2. q \in Seq(Ids) /\ k \in Range(bop.drop) /\ Range(q) \subseteq Range(bop.drop) /\ k \in Ids
        /\ Range(bop.drop) \subseteq {k} \cup Range(q)
    BY <1>1, OpLists
  <1> HIDE DEF k, q
  <1>3. PICK bad \in BOOLEAN : /\ bop' = [bop EXCEPT !.drop = q, !.bad = bad]
                               /\ ~bad => ~bop.bad /\ child' = [child EXCEPT ![k].st = "revoked"]
    <2>1. bop.bad \in BOOLEAN /\ [bop EXCEPT !.drop = q, !.bad = bop.bad] = [bop EXCEPT !.drop = q]
      BY DEF BundlesTypeOK, Operations
    <2> QED BY <1>1, <2>1
  <1>4. /\ bop' \in Operations /\ bop'.at = bop.at /\ bop'.what = bop.what /\ bop'.b = bop.b /\ bop'.fp = bop.fp
        /\ bop'.target = bop.target /\ bop'.taken = bop.taken /\ bop'.made = bop.made /\ bop'.drop = q /\ bop'.cur = bop.cur
        /\ bop'.bad = bad
    BY <1>2, <1>3, OpDrops
  <1>5. child[k].st # "absent" /\ child[k].in \in {bop.b, NoBundle}  BY <1>2 DEF WorkInv
  <1>6. Fades /\ \A j \in Ids : child'[j] = child[j] \/ (j = k /\ child[j].in \in {bop.b, NoBundle})
    BY <1>1, <1>2, <1>5, OneFades
  <1>7. bundle' = bundle /\ split' = split /\ lost' = lost /\ bop.at = "revoke"  BY <1>1
  <1>8. BundlesTypeOK'  BY <1>1, <1>4, <1>6, FadeTypes, FaultTypes
  <1>9. OpFrame'  BY <1>4, <1>7 DEF OpFrame
  <1>10. TargetStaysCovered'  BY <1>4, <1>7 DEF TargetStaysCovered, At
  <1>11. RevInv'
    <2>1. ASSUME ~bad, NEW j \in Ids, child'[j].in = bop.b PROVE child'[j].st = "revoked" \/ j \in Range(q)
      <3>1. bop.b \in Bundles /\ bop.b # NoBundle  BY <1>7, Busy, BundlesAssumption
      <3>2. child[j].in = bop.b  BY <2>1, <3>1, <1>6, FadeFacts
      <3>3. child[j].st = "revoked" \/ j \in Range(bop.drop)  BY <1>3, <1>7, <2>1, <3>2 DEF RevInv, KidsOf
      <3>4. child'[k].st = "revoked"
        <4>1. child \in [Ids -> ChildRows] /\ child[k] \in ChildRows  BY <1>2 DEF BundlesTypeOK
        <4> QED BY <1>2, <1>3, <2>1, <4>1 DEF ChildRows
      <3>5. j # k => child'[j] = child[j]  BY <1>6
      <3> QED BY <1>2, <3>3, <3>4, <3>5
    <2> QED BY <1>4, <1>7, <2>1 DEF RevInv, KidsOf
  <1> QED BY <1>2, <1>4, <1>6, <1>7, <1>8, <1>9, <1>10, <1>11, GoesOn

\* A deletion stops at the first child that cannot go.
LEMMA RemoveChildKeeps ==
  ASSUME BunInv, RemoveChild
  PROVE  BunInv'
  <1> USE DEF BunInv
  <1> DEFINE k == Head(bop.drop)
             q == Tail(bop.drop)
  <1>1. /\ bop.at = "remove" /\ bop.drop # <<>> /\ UNCHANGED <<bundle, others, lost, ended, split>>
        /\ (Fault \/ NoFault)
        /\ \/ child' = child
           \/ MayDelete(k) /\ child' = Gone(k)
           \/ MayDelete(k) /\ \E st \in AfterFailedDelete(k) : child' = [child EXCEPT ![k].st = st]
        /\ bop' = [bop EXCEPT !.drop = q] \/ bop' = [bop EXCEPT !.at = "mark"]
    BY DEF RemoveChild, At, Step
  <1>2. q \in Seq(Ids) /\ k \in Range(bop.drop) /\ Range(q) \subseteq Range(bop.drop) /\ k \in Ids
    BY <1>1, OpLists
  <1> HIDE DEF k, q
  <1>3. bop' = [bop EXCEPT !.drop = q, !.bad = bop.bad] \/ bop' = [bop EXCEPT !.at = "mark"]
    <2>1. bop.bad \in BOOLEAN /\ [bop EXCEPT !.drop = q, !.bad = bop.bad] = [bop EXCEPT !.drop = q]
      BY DEF BundlesTypeOK, Operations
    <2> QED BY <1>1, <2>1
  <1>4. /\ bop' \in Operations /\ bop'.at \in {"remove", "mark"} /\ bop'.what = bop.what /\ bop'.b = bop.b /\ bop'.fp = bop.fp
        /\ bop'.target = bop.target /\ bop'.taken = bop.taken /\ bop'.made = bop.made
        /\ Range(bop'.drop) \subseteq Range(bop.drop) /\ bop'.cur = bop.cur
    <2>1. bop.bad \in BOOLEAN  BY DEF BundlesTypeOK, Operations
    <2>2. CASE bop' = [bop EXCEPT !.drop = q, !.bad = bop.bad]  BY <1>1, <1>2, <2>1, <2>2, OpDrops
    <2>3. CASE bop' = [bop EXCEPT !.at = "mark"]  BY <1>1, <2>3, OpMoves
    <2> QED BY <1>3, <2>2, <2>3
  <1>5. child[k].st # "absent" /\ child[k].in \in {bop.b, NoBundle}  BY <1>2 DEF WorkInv
  <1>6. Fades /\ \A j \in Ids : child'[j] = child[j] \/ (j = k /\ child[j].in \in {bop.b, NoBundle})
    BY <1>1, <1>2, <1>5, OneFades
  <1>7. bundle' = bundle /\ split' = split /\ lost' = lost /\ bop.at = "remove" /\ bop.what = "delete"  BY <1>1, Busy
  <1>8. BundlesTypeOK'  BY <1>1, <1>4, <1>6, FadeTypes, FaultTypes
  <1>9. OpFrame'  BY <1>4, <1>7 DEF OpFrame
  <1>10. RevInv' /\ TargetStaysCovered'  BY <1>4, <1>7 DEF RevInv, TargetStaysCovered, At
  <1> QED BY <1>2, <1>4, <1>6, <1>7, <1>8, <1>9, <1>10, GoesOn

\* A reconcile removes what covers nothing, and stops at the first removal that fails.
LEMMA DropChildKeeps ==
  ASSUME BunInv, DropChild
  PROVE  BunInv'
  <1> USE DEF BunInv
  <1> DEFINE k == Head(bop.drop)
             q == Tail(bop.drop)
  <1>1. /\ bop.at = "drop" /\ bop.drop # <<>> /\ UNCHANGED <<bundle, others, lost, ended, split>>
        /\ (Fault \/ NoFault)
        /\ \/ child' = child
           \/ MayDelete(k) /\ child' = Gone(k)
           \/ MayDelete(k) /\ \E st \in AfterFailedDelete(k) : child' = [child EXCEPT ![k].st = st]
        /\ bop' = [bop EXCEPT !.drop = q] \/ bop' = NoOp
    BY DEF DropChild, At, Step
  <1>2. q \in Seq(Ids) /\ k \in Range(bop.drop) /\ Range(q) \subseteq Range(bop.drop) /\ k \in Ids
    BY <1>1, OpLists
  <1> HIDE DEF k, q
  <1>3. child[k].st # "absent" /\ child[k].in \in {bop.b, NoBundle}  BY <1>2 DEF WorkInv
  <1>4. Fades /\ \A j \in Ids : child'[j] = child[j] \/ (j = k /\ child[j].in \in {bop.b, NoBundle})
    BY <1>1, <1>2, <1>3, OneFades
  <1>5. faults' \in Nat  BY <1>1, FaultTypes
  <1>6. bop.what = "reconcile" /\ bop.at = "drop" /\ bop.b \in Bundles /\ bop.b # NoBundle
    BY <1>1, Busy, BundlesAssumption
  <1>7. CASE bop' = NoOp  BY <1>1, <1>4, <1>5, <1>7, FadeStops
  <1>8. CASE bop' = [bop EXCEPT !.drop = q]
    <2>1. bop.bad \in BOOLEAN /\ bop' = [bop EXCEPT !.drop = q, !.bad = bop.bad]
      BY <1>8 DEF BundlesTypeOK, Operations
    <2>2. /\ bop' \in Operations /\ bop'.at = bop.at /\ bop'.what = bop.what /\ bop'.b = bop.b /\ bop'.fp = bop.fp
          /\ bop'.target = bop.target /\ bop'.taken = bop.taken /\ bop'.made = bop.made /\ bop'.drop = q /\ bop'.cur = bop.cur
      BY <1>2, <2>1, OpDrops
    <2>3. bundle' = bundle /\ split' = split /\ lost' = lost  BY <1>1
    <2>4. BundlesTypeOK'  BY <1>1, <1>4, <1>5, <2>2, FadeTypes
    <2>5. OpFrame'  BY <1>6, <2>2, <2>3 DEF OpFrame
    <2>6. RevInv'  BY <1>6, <2>2 DEF RevInv
    <2>7. TargetStaysCovered'
      <3>1. ASSUME NEW s \in bop.target PROVE s \in SlotsOf(ActiveKids(bop.b))' \cup bop.taken
        <4>1. s \in SlotsOf(ActiveKids(bop.b)) \cup bop.taken
          BY <1>6, <3>1 DEF CompositionHolds, TargetStaysCovered, At
        <4>2. CASE s \in SlotsOf(ActiveKids(bop.b))
          <5>1. PICK j \in ActiveKids(bop.b) : s = child[j].slot  BY <4>2 DEF SlotsOf
          <5>2. j \in Ids /\ child[j].in = bop.b /\ child[j].st = "active"  BY <5>1 DEF ActiveKids, KidsOf
          <5>3. child[k].st = "active" => child[k].slot \notin bop.target  BY <1>2, <1>6 DEF CoverInv
          <5>4. j # k  BY <3>1, <5>1, <5>2, <5>3
          <5>5. child'[j] = child[j]  BY <1>4, <5>2, <5>4
          <5> QED BY <2>2, <5>1, <5>2, <5>5 DEF SlotsOf, ActiveKids, KidsOf
        <4> QED BY <4>1, <4>2
      <3> QED BY <2>2, <3>1 DEF TargetStaysCovered
    <2> QED BY <1>2, <1>4, <1>6, <2>2, <2>3, <2>4, <2>5, <2>6, <2>7, GoesOn
  <1> QED BY <1>1, <1>7, <1>8

\* The steps that end the operation and touch the row alone, if anything
LEMMA EndsKeep ==
  ASSUME BunInv, CreateDone \/ MarkBundleFailed \/ ReconcileFailed \/ SetKind
                 \/ (RemoveRow /\ bundle' = bundle /\ bop' = NoOp) \/ (RetireBundle /\ bundle' = bundle)
  PROVE  BunInv'
  <1> USE DEF BunInv
  <1>1. /\ bop' = NoOp /\ bop.at \notin {"idle", "attach"} /\ UNCHANGED <<child, others, lost, ended, split>>
        /\ faults' \in Nat
        /\ \/ bundle' = bundle
           \/ bundle' = [bundle EXCEPT ![bop.b].st = "delete_failed"]
           \/ bundle' = [bundle EXCEPT ![bop.b].kind = bop.kind]
    BY FaultTypes DEF CreateDone, MarkBundleFailed, ReconcileFailed, SetKind, RemoveRow, RetireBundle, At, Step, SetBundle,
       BundlesTypeOK, NoFault
  <1>2. bop.b \in Bundles /\ bop.kind \in Kinds /\ bundle[bop.b].st \in {"active", "pending_revoke", "pending_delete"}
    BY <1>1, Busy DEF Operations
  <1>3. bundle' \in [Bundles -> [st : BundleStatuses, kind : Kinds, tok : {"issued", "rotated"}]]
        /\ \A b \in Bundles : bundle'[b].st = bundle[b].st \/ (bundle[b].st # "absent" /\ bundle'[b].st \notin {"absent", "gone", "revoked"})
    <2>1. "delete_failed" \in BundleStatuses  BY DEF BundleStatuses
    <2>2. bundle \in [Bundles -> [st : BundleStatuses, kind : Kinds, tok : {"issued", "rotated"}]]  BY DEF BundlesTypeOK
    <2>3. CASE bundle' = bundle  BY <2>2, <2>3
    <2>4. CASE bundle' = [bundle EXCEPT ![bop.b].st = "delete_failed"]  BY <1>2, <2>1, <2>2, <2>4
    <2>5. CASE bundle' = [bundle EXCEPT ![bop.b].kind = bop.kind]  BY <1>2, <2>2, <2>5
    <2> QED BY <1>1, <2>3, <2>4, <2>5
  <1>4. BundlesTypeOK'  BY <1>1, <1>3, Nothing DEF BundlesTypeOK, others, NoOpTypes
  <1>5. KidInv' /\ RevokedHasNoLiveChild' /\ OneFingerprint'  BY <1>1, <1>3, RowsKeep
  <1>6. \A k \in Ids : child'[k].st = "active" /\ child'[k].in = NoBundle => k \in lost'  BY <1>1 DEF OwnInv
  <1> QED BY <1>1, <1>4, <1>5, <1>6, IdleHolds

\* The row of a bundle with no child goes.
LEMMA GoneKeeps ==
  ASSUME BunInv, bop.at \in {"unwind", "remove"}, KidsOf(bop.b) = {}, SetBundle(bop.b, "gone"), faults' \in Nat,
         bop' = NoOp, UNCHANGED <<child, others, lost, ended, split>>
  PROVE  BunInv'
  <1> USE DEF BunInv
  <1>1. bop.b \in Bundles  BY Busy
  <1>2. bundle' \in [Bundles -> [st : BundleStatuses, kind : Kinds, tok : {"issued", "rotated"}]]
        /\ bundle'[bop.b].st = "gone" /\ \A b \in Bundles : b # bop.b => bundle'[b] = bundle[b]
    <2>1. "gone" \in BundleStatuses  BY DEF BundleStatuses
    <2> QED BY <1>1, <2>1 DEF BundlesTypeOK, SetBundle
  <1>3. BundlesTypeOK'  BY <1>2, Nothing DEF BundlesTypeOK, others, NoOpTypes
  <1>4. \A k \in Ids : child[k].in # bop.b  BY DEF KidsOf
  <1>5. \A k \in Ids : child[k].in # NoBundle => child[k].in \in Bundles  BY DEF BundlesTypeOK, ChildRows
  <1>6. KidInv'  BY <1>2, <1>4, <1>5 DEF KidInv
  <1>7. RevokedHasNoLiveChild'  BY <1>2 DEF RevokedHasNoLiveChild, KidsOf
  <1>8. OneFingerprint'
    BY DEF CompositionHolds, OneFingerprint, VlessKids, ActiveKids, KidsOf, BackendOfKey
  <1>9. \A k \in Ids : child'[k].st = "active" /\ child'[k].in = NoBundle => k \in lost'  BY DEF OwnInv
  <1> QED BY <1>3, <1>6, <1>7, <1>8, <1>9, IdleHolds

\* A bundle is revoked once every child is.
LEMMA RetireKeeps ==
  ASSUME BunInv, RetireBundle
  PROVE  BunInv'
  <1> USE DEF BunInv
  <1>1. /\ bop.at = "retire" /\ bop' = NoOp /\ UNCHANGED <<child, others, lost, ended, split>>
        /\ faults' \in Nat /\ (bundle' = bundle \/ (~bop.bad /\ SetBundle(bop.b, "revoked")))
    BY FaultTypes DEF RetireBundle, At, Step
  <1>2. CASE bundle' = bundle  BY <1>2, EndsKeep
  <1>3. CASE ~bop.bad /\ SetBundle(bop.b, "revoked")
    <2>1. bop.b \in Bundles /\ bundle[bop.b].st = "pending_revoke"  BY <1>1, Busy DEF OpFrame
    <2>2. bundle' \in [Bundles -> [st : BundleStatuses, kind : Kinds, tok : {"issued", "rotated"}]]
          /\ bundle'[bop.b].st = "revoked" /\ \A b \in Bundles : b # bop.b => bundle'[b] = bundle[b]
      <3>1. "revoked" \in BundleStatuses  BY DEF BundleStatuses
      <3> QED BY <1>3, <2>1, <3>1 DEF BundlesTypeOK, SetBundle
    <2>3. BundlesTypeOK'  BY <1>1, <2>2, Nothing DEF BundlesTypeOK, others, NoOpTypes
    <2>4. \A k \in Ids : child[k].in # NoBundle => child[k].in \in Bundles  BY DEF BundlesTypeOK, ChildRows
    <2>5. KidInv'  BY <1>1, <2>1, <2>2, <2>4 DEF KidInv
    <2>6. RevokedHasNoLiveChild'  BY <1>1, <1>3, <2>2 DEF RevokedHasNoLiveChild, KidsOf, RevInv
    <2>7. OneFingerprint'
      BY <1>1 DEF CompositionHolds, OneFingerprint, VlessKids, ActiveKids, KidsOf, BackendOfKey
    <2>8. \A k \in Ids : child'[k].st = "active" /\ child'[k].in = NoBundle => k \in lost'  BY <1>1 DEF OwnInv
    <2> QED BY <1>1, <2>3, <2>5, <2>6, <2>7, <2>8, IdleHolds
  <1> QED BY <1>1, <1>2, <1>3

\* An operation that moves on without touching a key.
LEMMA Moves ==
  ASSUME BunInv, bop.at \notin {"idle", "attach"}, UNCHANGED <<child, split, lost>>, BundlesTypeOK',
         \A b \in Bundles : bundle'[b].st = bundle[b].st,
         bop'.what = bop.what, bop'.b = bop.b, bop'.fp = bop.fp, bop'.target = bop.target, bop'.taken = bop.taken,
         bop'.at \in {"unwind", "mark", "retire", "drop"}, bop'.cur = bop.cur,
         bop.what = "create" => bop'.at \in {"unwind", "mark"},
         bop.what = "reconcile" => bop'.at \in {"unwind", "drop"},
         bop.what = "revoke" => bop'.at = "retire",
         bop.what = "delete" => bop'.at = "mark",
         bop.what # "print",
         Range(bop'.made) \subseteq Range(bop.made), bop'.drop = bop.drop,
         RevInv', TargetStaysCovered'
  PROVE  BunInv'
  <1> USE DEF BunInv
  <1>1. bop.b \in Bundles /\ bop.what # "none"  BY Busy, BundlesAssumption DEF OpFrame
  <1>2. KidInv' /\ RevokedHasNoLiveChild' /\ OneFingerprint'  BY RowsKeep
  <1>3. OpFrame'  BY <1>1 DEF OpFrame
  <1>4. WorkInv'  BY DEF WorkInv
  <1>5. OwnInv'  BY DEF OwnInv
  <1>6. VlessKids(bop.b)' = VlessKids(bop.b)  BY DEF VlessKids, ActiveKids, KidsOf, BackendOfKey
  <1>7. PrintInv'  BY <1>6 DEF PrintInv
  <1>8. CoverInv'  BY DEF CoverInv
  <1> QED BY <1>2, <1>3, <1>4, <1>5, <1>7, <1>8 DEF CompositionHolds

\* The token is replaced, or not, and the row of the bundle comes next.
LEMMA RotateKeeps ==
  ASSUME BunInv, RotateToken
  PROVE  BunInv'
  <1> USE DEF BunInv
  <1>1. /\ bop.at = "revoke" /\ bop.drop = <<>> /\ bop' = [bop EXCEPT !.at = "retire"]
        /\ UNCHANGED <<child, others, lost, ended, split>> /\ faults' \in Nat
        /\ bundle' = bundle \/ bundle' = [bundle EXCEPT ![bop.b].tok = "rotated"]
    BY FaultTypes DEF RotateToken, At, Step
  <1>2. bop.b \in Bundles /\ bop.what = "revoke"  BY <1>1, Busy
  <1>3. bundle' \in [Bundles -> [st : BundleStatuses, kind : Kinds, tok : {"issued", "rotated"}]]
        /\ \A b \in Bundles : bundle'[b].st = bundle[b].st
    <2>1. bundle \in [Bundles -> [st : BundleStatuses, kind : Kinds, tok : {"issued", "rotated"}]]  BY DEF BundlesTypeOK
    <2>2. CASE bundle' = bundle  BY <2>1, <2>2
    <2>3. CASE bundle' = [bundle EXCEPT ![bop.b].tok = "rotated"]  BY <1>2, <2>1, <2>3
    <2> QED BY <1>1, <2>2, <2>3
  <1>4. /\ bop' \in Operations /\ bop'.at = "retire" /\ bop'.what = bop.what /\ bop'.b = bop.b /\ bop'.fp = bop.fp
        /\ bop'.target = bop.target /\ bop'.taken = bop.taken /\ bop'.made = bop.made /\ bop'.drop = bop.drop
        /\ bop'.cur = bop.cur /\ bop'.bad = bop.bad
    BY <1>1, OpMoves
  <1>5. BundlesTypeOK'  BY <1>1, <1>3, <1>4 DEF BundlesTypeOK, others
  <1>6. RevInv'
    <2>1. Range(bop.drop) = {}  BY <1>1, OpLists
    <2> QED BY <1>1, <1>4, <2>1 DEF RevInv, KidsOf
  <1>7. TargetStaysCovered'  BY <1>4 DEF TargetStaysCovered, At
  <1>8. bop.at \notin {"idle", "attach"} /\ UNCHANGED <<child, split, lost>>  BY <1>1
  <1> QED BY <1>2, <1>3, <1>4, <1>5, <1>6, <1>7, <1>8, Moves

\* What is left of an operation goes to its last step.
LEMMA TurnKeeps ==
  ASSUME BunInv, bop.at \in {"make", "unwind", "remove"}, bop.what # "print", faults' \in Nat,
         NEW w \in {"unwind", "mark"}, bop' = [bop EXCEPT !.at = w], UNCHANGED <<bundle, child, others, lost, ended, split>>,
         bop.what = "reconcile" => w = "unwind",
         bop.what = "delete" => w = "mark"
  PROVE  BunInv'
  <1> USE DEF BunInv
  <1>1. /\ bop' \in Operations /\ bop'.at = w /\ bop'.what = bop.what /\ bop'.b = bop.b /\ bop'.fp = bop.fp
        /\ bop'.target = bop.target /\ bop'.taken = bop.taken /\ bop'.made = bop.made /\ bop'.drop = bop.drop
        /\ bop'.cur = bop.cur /\ bop'.bad = bop.bad
    BY OpMoves
  <1>2. BundlesTypeOK'  BY <1>1 DEF BundlesTypeOK, others
  <1>3. RevInv' /\ TargetStaysCovered'  BY <1>1 DEF RevInv, TargetStaysCovered, At
  <1>4. bop.what # "revoke"  BY DEF OpFrame
  <1> QED BY <1>1, <1>2, <1>3, <1>4, Moves

\* The row of a bundle is the last to go.
LEMMA RowGoes ==
  ASSUME BunInv, UnwindRow \/ RemoveRow
  PROVE  BunInv'
  <1>1. /\ bop.at \in {"unwind", "remove"} /\ UNCHANGED <<child, others, lost, ended, split>> /\ faults' \in Nat
        /\ bop.at = "unwind" => bop.what = "create"
        /\ \/ KidsOf(bop.b) = {} /\ SetBundle(bop.b, "gone") /\ bop' = NoOp
           \/ RemoveRow /\ bundle' = bundle /\ bop' = NoOp
           \/ bundle' = bundle /\ bop' = [bop EXCEPT !.at = "mark"]
    BY FaultTypes DEF BunInv, UnwindRow, RemoveRow, At, Step
  <1>2. bop.what \in {"create", "delete"}  BY <1>1, Busy
  <1>3. CASE KidsOf(bop.b) = {} /\ SetBundle(bop.b, "gone") /\ bop' = NoOp  BY <1>1, <1>3, GoneKeeps
  <1>4. CASE RemoveRow /\ bundle' = bundle /\ bop' = NoOp  BY <1>4, EndsKeep
  <1>5. CASE bundle' = bundle /\ bop' = [bop EXCEPT !.at = "mark"]  BY <1>1, <1>2, <1>5, TurnKeeps
  <1> QED BY <1>1, <1>3, <1>4, <1>5

\* With nothing left to make, the target is covered and the removals begin.
LEMMA MadeKeeps ==
  ASSUME BunInv, ReconcileMade
  PROVE  BunInv'
  <1> USE DEF BunInv
  <1>1. /\ bop.what = "reconcile" /\ bop.at = "make" /\ bop.todo = <<>> /\ bop' = [bop EXCEPT !.at = "drop", !.made = <<>>]
        /\ UNCHANGED <<bundle, child, others, faults, lost, ended, split>>
    BY DEF ReconcileMade, At, Step
  <1>2. /\ bop' \in Operations /\ bop'.at = "drop" /\ bop'.what = bop.what /\ bop'.b = bop.b /\ bop'.fp = bop.fp
        /\ bop'.target = bop.target /\ bop'.taken = bop.taken /\ bop'.made = <<>> /\ bop'.drop = bop.drop
        /\ bop'.cur = bop.cur
    <2>1. bop \in Operations /\ <<>> \in Seq(Ids)  BY DEF BundlesTypeOK
    <2>2. bop' \in Operations  BY <1>1, <2>1 DEF Operations
    <2>3. /\ bop'.at = "drop" /\ bop'.what = bop.what /\ bop'.b = bop.b /\ bop'.fp = bop.fp
          /\ bop'.target = bop.target /\ bop'.taken = bop.taken /\ bop'.made = <<>> /\ bop'.drop = bop.drop
          /\ bop'.cur = bop.cur
      BY <1>1, <2>1 DEF Operations
    <2> QED BY <2>2, <2>3
  <1>3. BundlesTypeOK'  BY <1>1, <1>2 DEF BundlesTypeOK, others
  <1>4. RevInv'  BY <1>2 DEF RevInv
  <1>5. TargetStaysCovered'
    <2>1. Range(bop.todo) = {}  BY <1>1, OpLists
    <2>2. \A s \in bop.target : s \in SlotsOf(ActiveKids(bop.b)) \cup bop.taken  BY <1>1, <2>1 DEF CoverInv
    <2>3. SlotsOf(ActiveKids(bop.b))' = SlotsOf(ActiveKids(bop.b))  BY <1>1, <1>2 DEF SlotsOf, ActiveKids, KidsOf
    <2> QED BY <1>2, <2>2, <2>3 DEF TargetStaysCovered
  <1>6. Range(bop'.made) \subseteq Range(bop.made)
    <2>1. Range(bop'.made) = {}  BY <1>2 DEF Range
    <2> QED BY <2>1
  <1>7. bop.at = "make" /\ bop.what = "reconcile" /\ UNCHANGED <<bundle, child, split, lost>>  BY <1>1
  <1> QED BY <1>2, <1>3, <1>4, <1>5, <1>6, <1>7, Moves

\* The last child has the new fingerprint.
LEMMA StampDoneKeeps ==
  ASSUME BunInv, StampDone
  PROVE  BunInv'
  <1> USE DEF BunInv
  <1>1. /\ bop.at = "stamp" /\ bop.drop = <<>> /\ bop' = NoOp /\ split' = split \ {bop.b}
        /\ UNCHANGED <<bundle, child, others, faults, lost, ended>>
    BY DEF StampDone, At, Step
  <1>2. BundlesTypeOK'  BY <1>1, Nothing DEF BundlesTypeOK, others, NoOpTypes
  <1>3. KidInv' /\ RevokedHasNoLiveChild'  BY <1>1 DEF KidInv, RevokedHasNoLiveChild, KidsOf
  <1>4. \A b \in Bundles : VlessKids(b)' = VlessKids(b)  BY <1>1 DEF VlessKids, ActiveKids, KidsOf, BackendOfKey
  <1>5. \A k \in VlessKids(bop.b) : child[k].fp = bop.fp
    <2>1. Range(bop.drop) = {}  BY <1>1, OpLists
    <2> QED BY <1>1, <2>1 DEF PrintInv
  <1>6. OneFingerprint'
    <2>1. child' = child /\ split' = split \ {bop.b}  BY <1>1
    <2>2. OneFingerprint  BY DEF CompositionHolds
    <2>3. ASSUME NEW b \in Bundles \ split', NEW j \in VlessKids(b), NEW k \in VlessKids(b) PROVE child[j].fp = child[k].fp
      <3>1. CASE b = bop.b  BY <1>5, <2>3, <3>1
      <3>2. CASE b # bop.b  BY <2>1, <2>2, <2>3, <3>2 DEF OneFingerprint
      <3> QED BY <3>1, <3>2
    <2> QED BY <1>4, <2>1, <2>3 DEF OneFingerprint
  <1>7. \A k \in Ids : child'[k].st = "active" /\ child'[k].in = NoBundle => k \in lost'  BY <1>1 DEF OwnInv
  <1> QED BY <1>1, <1>2, <1>3, <1>6, <1>7, IdleHolds

\* A child that cannot be made turns the operation back.
LEMMA ProvisionFailsKeeps ==
  ASSUME BunInv, ProvisionFails
  PROVE  BunInv'
  <1> USE BundlesAssumption DEF BunInv
  <1> DEFINE m == Min(Fresh)
             r == NewChild("apply_failed")
  <1>1. /\ bop.at = "make" /\ bop.todo # <<>> /\ bop' = [bop EXCEPT !.at = "unwind"]
        /\ child' = child \/ child' = [child EXCEPT ![m] = r]
        /\ UNCHANGED <<bundle, others, lost, ended, split>> /\ faults' \in Nat
    BY FaultTypes DEF ProvisionFails, At, Step
  <1>2. bop.b \in Bundles /\ bop.b # NoBundle /\ bop.what \in {"create", "reconcile"}  BY <1>1, Busy
  <1>3. CASE child' = child  BY <1>1, <1>2, <1>3, TurnKeeps
  <1>4. CASE child' = [child EXCEPT ![m] = r]
    <2>1. m \in Ids  BY <1>1, NextKey
    <2>2. r.st = "apply_failed" /\ r.in = NoBundle /\ r.for = bop.b
      <3>1. "apply_failed" \in ChildStatuses  BY DEF ChildStatuses
      <3> QED BY <1>1, <3>1, NewRow
    <2>3. /\ child' \in [Ids -> ChildRows] /\ child'[m] = r
          /\ \A k \in Ids : child'[k] = child[k] \/ (k = m /\ child[k].st = "absent")
          /\ \A b \in Bundles : KidsOf(b)' = KidsOf(b) /\ ActiveKids(b)' = ActiveKids(b) /\ VlessKids(b)' = VlessKids(b)
          /\ \A b \in Bundles : \A k \in KidsOf(b) : child'[k] = child[k]
      BY <1>1, <1>4, AddFacts
    <2> HIDE DEF m, r
    <2>4. /\ bop' \in Operations /\ bop'.at = "unwind" /\ bop'.what = bop.what /\ bop'.b = bop.b /\ bop'.fp = bop.fp
          /\ bop'.target = bop.target /\ bop'.made = bop.made /\ bop'.drop = bop.drop /\ bop'.cur = bop.cur
      BY <1>1, OpMoves
    <2>5. bundle' = bundle /\ lost' = lost /\ split' = split /\ bop.at = "make"  BY <1>1
    <2>6. BundlesTypeOK'  BY <1>1, <2>3, <2>4 DEF BundlesTypeOK, others
    <2>7. OpFrame'  BY <1>2, <2>4, <2>5 DEF OpFrame
    <2>8. KidInv'  BY <1>2, <2>2, <2>3, <2>5 DEF KidInv
    <2>9. Range(bop.made) \subseteq Ids /\ Range(bop.drop) \subseteq Ids  BY OpLists
    <2>10. \A k \in Range(bop.made) \cup Range(bop.drop) : child'[k] = child[k]
      BY <2>3, <2>9 DEF WorkInv
    <2>11. WorkInv'
      <3>1. \A k \in Range(bop'.made) \cup Range(bop'.drop) : child'[k].st # "absent" /\ child'[k].in \in {bop'.b, NoBundle}
        BY <2>4, <2>10 DEF WorkInv
      <3> QED BY <2>4, <3>1 DEF WorkInv
    <2>12. OwnInv'  BY <2>2, <2>3, <2>4, <2>5 DEF OwnInv
    <2>13. RevInv' /\ TargetStaysCovered'  BY <2>4 DEF RevInv, TargetStaysCovered, At
    <2>14. RevokedHasNoLiveChild'  BY <2>3, <2>5 DEF RevokedHasNoLiveChild
    <2>15. OneFingerprint'
      <3>1. OneFingerprint  BY DEF CompositionHolds
      <3>2. \A b \in Bundles : VlessKids(b) \subseteq KidsOf(b)  BY DEF VlessKids, ActiveKids
      <3> QED BY <2>3, <2>5, <3>1, <3>2 DEF OneFingerprint
    <2>16. PrintInv'
      <3>1. VlessKids(bop.b)' = VlessKids(bop.b) /\ VlessKids(bop.b) \subseteq KidsOf(bop.b)
        BY <1>2, <2>3, <2>4 DEF VlessKids, ActiveKids
      <3>2. bop.b \notin split => \A k \in VlessKids(bop.b) : child'[k].fp = bop.fp
        BY <1>2, <2>3, <3>1 DEF PrintInv
      <3> QED BY <2>4, <2>5, <3>1, <3>2 DEF PrintInv
    <2>17. CoverInv'  BY <2>4, <2>10 DEF CoverInv
    <2> QED BY <2>6, <2>7, <2>8, <2>11, <2>12, <2>13, <2>14, <2>15, <2>16, <2>17 DEF CompositionHolds
  <1> QED BY <1>1, <1>3, <1>4

\* A child is attached once its key is live, and keeps what it is.
LEMMA AttachKeeps ==
  ASSUME BunInv, AttachChild
  PROVE  BunInv'
  <1> USE BundlesAssumption DEF BunInv
  <1> DEFINE k == bop.cur
  <1>1. /\ bop.at = "attach" /\ bop' = [bop EXCEPT !.at = "make", !.cur = NoKeyId, !.made = Append(bop.made, bop.cur)]
        /\ child' = IF child[k].st = "gone" THEN child ELSE [child EXCEPT ![k].in = bop.b]
        /\ UNCHANGED <<bundle, others, faults, lost, ended, split>>
    BY DEF AttachChild, At, Step, NoFault
  <1>2. bop.b \in Bundles /\ bop.b # NoBundle /\ bop.what \in {"create", "reconcile"} /\ bundle[bop.b].st = "active" /\ k \in Ids
    BY <1>1, Busy DEF OpFrame
  <1>3. child[k].st # "absent" /\ child[k].in = NoBundle /\ (child[k].st # "gone" => child[k].for = bop.b)
    BY <1>1 DEF WorkInv
  <1> HIDE DEF k
  <1>4. /\ child' \in [Ids -> ChildRows] /\ \A j \in Ids : j # k => child'[j] = child[j]
        /\ child'[k].st = child[k].st /\ child'[k].for = child[k].for /\ child'[k].slot = child[k].slot
        /\ child'[k].fp = child[k].fp
        /\ child[k].st = "gone" => child'[k].in = NoBundle
        /\ child[k].st # "gone" => child'[k].in = bop.b
    <2>1. child \in [Ids -> ChildRows] /\ child[k] \in ChildRows  BY <1>2 DEF BundlesTypeOK
    <2>2. CASE child' = child /\ child[k].st = "gone"  BY <1>3, <2>1, <2>2
    <2>3. CASE child' = [child EXCEPT ![k].in = bop.b] /\ child[k].st # "gone"
      <3> DEFINE r == [child[k] EXCEPT !.in = bop.b]
      <3>1. r \in ChildRows /\ r.st = child[k].st /\ r.for = child[k].for /\ r.slot = child[k].slot /\ r.fp = child[k].fp
            /\ r.in = bop.b
        BY <1>2, <2>1 DEF ChildRows
      <3>2. child' = [child EXCEPT ![k] = r]  BY <2>3
      <3> HIDE DEF r
      <3> QED BY <1>2, <2>1, <2>3, <3>1, <3>2
    <2> QED BY <1>1, <2>2, <2>3
  <1>5. Append(bop.made, k) \in Seq(Ids) /\ Range(Append(bop.made, k)) = Range(bop.made) \cup {k}
        /\ Range(bop.made) \subseteq Ids /\ Range(bop.drop) \subseteq Ids
    BY <1>2, OpLists
  <1>6. /\ bop' \in Operations /\ bop'.at = "make" /\ bop'.what = bop.what /\ bop'.b = bop.b /\ bop'.fp = bop.fp
        /\ bop'.target = bop.target /\ bop'.taken = bop.taken /\ bop'.made = Append(bop.made, k) /\ bop'.drop = bop.drop
        /\ bop'.cur = NoKeyId /\ bop'.todo = bop.todo
    <2>1. bop \in Operations  BY DEF BundlesTypeOK
    <2> QED BY <1>1, <1>5, <2>1 DEF Operations, k
  <1>7. bundle' = bundle /\ lost' = lost /\ split' = split /\ bop.at = "attach" /\ k = bop.cur  BY <1>1 DEF k
  <1>8. BundlesTypeOK'  BY <1>1, <1>4, <1>6 DEF BundlesTypeOK, others
  <1>9. OpFrame'  BY <1>2, <1>6, <1>7 DEF OpFrame, Ids
  <1>10. KidInv'
    <2>1. ASSUME NEW j \in Ids
          PROVE  /\ child'[j].st \in {"absent", "gone"} => child'[j].in = NoBundle /\ child'[j].for = NoBundle
                 /\ child'[j].in # NoBundle => child'[j].for = child'[j].in /\ bundle[child'[j].in].st \notin {"absent", "gone"}
      <3>1. CASE j = k
        <4>1. child[k].st \in {"absent", "gone"} => child[k].for = NoBundle  BY <1>2 DEF KidInv
        <4> QED BY <1>2, <1>3, <1>4, <3>1, <4>1
      <3>2. CASE j # k  BY <1>4, <3>2 DEF KidInv
      <3> QED BY <3>1, <3>2
    <2> QED BY <1>7, <2>1 DEF KidInv
  <1>11. WorkInv'
    <2>1. Fresh' = Fresh  BY <1>4 DEF Fresh
    <2>2. Len(bop.todo) <= Cardinality(Fresh)  BY <1>7 DEF WorkInv, Room
    <2>3. \A j \in Range(bop.made) \cup Range(bop.drop) \cup {k} : child'[j].st # "absent" /\ child'[j].in \in {bop.b, NoBundle}
      <3>1. ASSUME NEW j \in Range(bop.made) \cup Range(bop.drop) \cup {k}
            PROVE  child'[j].st # "absent" /\ child'[j].in \in {bop.b, NoBundle}
        <4>1. CASE j = k  BY <1>3, <1>4, <4>1
        <4>2. CASE j # k
          <5>1. j \in Ids /\ child'[j] = child[j]  BY <1>4, <1>5, <3>1, <4>2
          <5> QED BY <3>1, <4>2, <5>1 DEF WorkInv
        <4> QED BY <4>1, <4>2
      <3> QED BY <3>1
    <2>4. \A j \in Range(bop'.made) \cup Range(bop'.drop) : child'[j].st # "absent" /\ child'[j].in \in {bop'.b, NoBundle}
      BY <1>5, <1>6, <2>3
    <2>5. Len(bop'.todo) <= Cardinality(Fresh')  BY <1>6, <2>1, <2>2
    <2> QED BY <1>6, <2>4, <2>5 DEF WorkInv, Room
  <1>12. OwnInv'
    <2>1. ASSUME NEW j \in Ids, child'[j].st = "active", child'[j].in = NoBundle PROVE j \in lost
      <3>1. j # k  BY <1>2, <1>4, <2>1
      <3> QED BY <1>4, <1>7, <2>1, <3>1 DEF OwnInv
    <2> QED BY <1>7, <2>1 DEF OwnInv
  <1>13. RevInv' /\ TargetStaysCovered'  BY <1>6 DEF RevInv, TargetStaysCovered, At
  <1>14. RevokedHasNoLiveChild'
    <2>1. ASSUME NEW b \in Bundles, bundle[b].st = "revoked", NEW j \in Ids, child'[j].in = b PROVE child'[j].st = "revoked"
      <3>1. b # bop.b /\ b # NoBundle  BY <1>2, <2>1
      <3>2. j # k  BY <1>4, <2>1, <3>1
      <3>3. child'[j] = child[j]  BY <1>4, <3>2
      <3> QED BY <2>1, <3>3 DEF RevokedHasNoLiveChild, KidsOf
    <2> QED BY <1>7, <2>1 DEF RevokedHasNoLiveChild, KidsOf
  <1>15. ASSUME NEW b \in Bundles, NEW j \in Ids, j \in VlessKids(b)'
         PROVE  child'[j].fp = child[j].fp /\ (j \in VlessKids(b) \/ (j = k /\ b = bop.b /\ child[k].fp = bop.fp))
    <2>1. child'[j].in = b /\ child'[j].st = "active" /\ BackendOf[child'[j].slot[1]] = "xray" /\ b # NoBundle
      BY <1>15 DEF VlessKids, ActiveKids, KidsOf, BackendOfKey
    <2>2. CASE j = k
      <3>1. b = bop.b /\ child[k].st # "gone" /\ BackendOf[child[k].slot[1]] = "xray"  BY <1>4, <2>1, <2>2
      <3>2. child[k].fp = bop.fp  BY <1>7, <3>1 DEF PrintInv, BackendOfKey
      <3> QED BY <1>4, <2>2, <3>1, <3>2
    <2>3. CASE j # k
      <3>1. child'[j] = child[j]  BY <1>4, <2>3
      <3> QED BY <2>1, <3>1 DEF VlessKids, ActiveKids, KidsOf, BackendOfKey
    <2> QED BY <2>2, <2>3
  <1>16. bop.b \notin split => \A j \in VlessKids(bop.b) : child[j].fp = bop.fp  BY <1>2 DEF PrintInv
  <1>17. PrintInv'
    <2>1. VlessKids(bop.b)' \subseteq Ids  BY DEF VlessKids, ActiveKids, KidsOf
    <2>2. ASSUME NEW c \in Bundles, c = bop.b, NEW j \in Ids, child'[j].in = c, child'[j].st = "active",
                 BackendOf[child'[j].slot[1]] = "xray", c \notin split
          PROVE  child'[j].fp = bop.fp
      <3>1. j \in VlessKids(c)'  BY <2>2 DEF VlessKids, ActiveKids, KidsOf, BackendOfKey
      <3>2. child'[j].fp = child[j].fp /\ (j \in VlessKids(c) \/ child[j].fp = bop.fp)  BY <1>15, <2>2, <3>1
      <3> QED BY <1>16, <2>2, <3>2
    <2>3. ASSUME NEW j \in Ids, child'[j].in = bop.b, child'[j].st = "active", BackendOf[child'[j].slot[1]] = "xray",
                 bop.b \notin split
          PROVE  child'[j].fp = bop.fp
      BY <1>2, <2>2, <2>3
    <2> QED BY <1>6, <1>7, <2>3 DEF PrintInv, VlessKids, ActiveKids, KidsOf, BackendOfKey
  <1>18. OneFingerprint'
    <2>1. OneFingerprint  BY DEF CompositionHolds
    <2>2. ASSUME NEW b \in Bundles, b \notin split, NEW i \in Ids, NEW j \in Ids, i \in VlessKids(b)', j \in VlessKids(b)'
          PROVE  child'[i].fp = child'[j].fp
      <3>1. CASE b = bop.b  BY <1>15, <1>16, <2>2, <3>1
      <3>2. CASE b # bop.b
        <4>1. i \in VlessKids(b) /\ j \in VlessKids(b) /\ child'[i].fp = child[i].fp /\ child'[j].fp = child[j].fp
          BY <1>15, <2>2, <3>2
        <4> QED BY <2>1, <2>2, <4>1 DEF OneFingerprint
      <3> QED BY <3>1, <3>2
    <2>3. \A b \in Bundles : VlessKids(b)' \subseteq Ids  BY DEF VlessKids, ActiveKids, KidsOf
    <2> QED BY <1>7, <2>2, <2>3 DEF OneFingerprint
  <1>19. CoverInv'
    <2>1. ASSUME bop.what = "reconcile" PROVE CoverInv'
      <3>1. \A j \in Range(bop.drop) : child'[j].st = child[j].st /\ child'[j].slot = child[j].slot  BY <1>4, <1>5
      <3>2. \A j \in Range(bop.drop) : child'[j].st = "active" => child'[j].slot \notin bop.target
        BY <2>1, <3>1 DEF CoverInv
      <3>3. ASSUME NEW s \in bop.target
            PROVE  s \in {child'[j].slot : j \in {i \in Ids : child'[i].in = bop.b /\ child'[i].st = "active"}} \cup bop.taken \cup Range(bop.todo)
        <4>1. s \in SlotsOf(ActiveKids(bop.b)) \cup bop.taken \cup Range(bop.todo) \/ (child[k].st = "active" /\ s = child[k].slot)
          BY <1>7, <2>1, <3>3 DEF CoverInv
        <4>2. CASE s \in SlotsOf(ActiveKids(bop.b))
          <5>1. PICK j \in Ids : child[j].in = bop.b /\ child[j].st = "active" /\ s = child[j].slot
            BY <4>2 DEF SlotsOf, ActiveKids, KidsOf
          <5>2. j # k  BY <1>2, <1>3, <5>1
          <5>3. child'[j] = child[j]  BY <1>4, <5>2
          <5> QED BY <5>1, <5>3
        <4>3. CASE child[k].st = "active" /\ s = child[k].slot  BY <1>2, <1>4, <1>7, <4>3
        <4> QED BY <4>1, <4>2, <4>3
      <3> QED BY <1>6, <3>2, <3>3 DEF CoverInv, SlotsOf, ActiveKids, KidsOf
    <2> QED BY <1>6, <2>1 DEF CoverInv
  <1> QED BY <1>8, <1>9, <1>10, <1>11, <1>12, <1>13, <1>14, <1>17, <1>18, <1>19 DEF CompositionHolds

\* A child whose attach raised is one the operation never learned of.
LEMMA AttachFailsKeeps ==
  ASSUME BunInv, AttachFails
  PROVE  BunInv'
  <1> USE BundlesAssumption DEF BunInv
  <1> DEFINE k == bop.cur
             q == IF bop.what = "reconcile" THEN Append(bop.made, bop.cur) ELSE bop.made
  <1>1. /\ bop.at = "attach" /\ bop' = [bop EXCEPT !.at = "unwind", !.cur = NoKeyId, !.made = q]
        /\ lost' = lost \cup {k} /\ faults' \in Nat
        /\ UNCHANGED <<bundle, child, others, ended, split>>
    BY FaultTypes DEF AttachFails, At, Step
  <1>2. bop.b \in Bundles /\ bop.b # NoBundle /\ bop.what \in {"create", "reconcile"} /\ bundle[bop.b].st = "active" /\ k \in Ids
    BY <1>1, Busy DEF OpFrame
  <1>3. child[k].st # "absent" /\ child[k].in = NoBundle  BY <1>1 DEF WorkInv
  <1>4. q \in Seq(Ids) /\ Range(q) \subseteq Range(bop.made) \cup {k}
        /\ Range(bop.made) \subseteq Ids /\ Range(bop.drop) \subseteq Ids
    BY <1>2, OpLists
  <1>5. k = bop.cur  OBVIOUS
  <1> HIDE DEF k, q
  <1>6. /\ bop' \in Operations /\ bop'.at = "unwind" /\ bop'.what = bop.what /\ bop'.b = bop.b /\ bop'.fp = bop.fp
        /\ bop'.target = bop.target /\ bop'.taken = bop.taken /\ bop'.made = q /\ bop'.drop = bop.drop
        /\ bop'.cur = NoKeyId
    <2>1. bop \in Operations  BY DEF BundlesTypeOK
    <2> QED BY <1>1, <1>4, <2>1 DEF Operations
  <1>7. bundle' = bundle /\ child' = child /\ split' = split /\ bop.at = "attach" /\ lost' = lost \cup {k}  BY <1>1
  <1>8. BundlesTypeOK'  BY <1>1, <1>2, <1>6 DEF BundlesTypeOK, others
  <1>9. OpFrame'  BY <1>2, <1>6, <1>7 DEF OpFrame, Ids
  <1>10. KidInv' /\ RevokedHasNoLiveChild' /\ OneFingerprint'  BY <1>7, RowsKeep
  <1>11. WorkInv'
    <2>1. \A j \in Range(bop'.made) \cup Range(bop'.drop) : child'[j].st # "absent" /\ child'[j].in \in {bop'.b, NoBundle}
      BY <1>3, <1>4, <1>6, <1>7 DEF WorkInv
    <2> QED BY <1>6, <2>1 DEF WorkInv
  <1>12. OwnInv'  BY <1>5, <1>6, <1>7 DEF OwnInv
  <1>13. RevInv' /\ TargetStaysCovered'  BY <1>6 DEF RevInv, TargetStaysCovered, At
  <1>14. VlessKids(bop.b)' = VlessKids(bop.b)  BY <1>6, <1>7 DEF VlessKids, ActiveKids, KidsOf, BackendOfKey
  <1>15. PrintInv'  BY <1>6, <1>7, <1>14 DEF PrintInv
  <1>16. CoverInv'  BY <1>6, <1>7 DEF CoverInv
  <1> QED BY <1>8, <1>9, <1>10, <1>11, <1>12, <1>13, <1>15, <1>16 DEF CompositionHolds

\* A change of fingerprint takes the VLESS children one by one.
LEMMA StampChildKeeps ==
  ASSUME BunInv, StampChild
  PROVE  BunInv'
  <1> USE BundlesAssumption DEF BunInv
  <1> DEFINE k == Head(bop.drop)
             q == Tail(bop.drop)
  <1>1. /\ bop.at = "stamp" /\ bop.drop # <<>> /\ UNCHANGED <<bundle, others, lost, ended, split>> /\ faults' \in Nat
        /\ \/ child' = [child EXCEPT ![k].fp = bop.fp] /\ bop' = [bop EXCEPT !.drop = q]
           \/ child' = child /\ bop' = NoOp
    BY FaultTypes DEF StampChild, At, Step
  <1>2. q \in Seq(Ids) /\ k \in Range(bop.drop) /\ Range(q) \subseteq Range(bop.drop) /\ k \in Ids
        /\ Range(bop.drop) \subseteq {k} \cup Range(q) /\ Range(bop.drop) \subseteq Ids
    BY <1>1, OpLists
  <1> HIDE DEF k, q
  <1>3. bop.b \in Bundles /\ bop.b # NoBundle /\ bop.what = "print" /\ bop.b \in split /\ bop.fp \in Prints
    BY <1>1, Busy DEF OpFrame, Operations
  <1>4. CASE child' = child /\ bop' = NoOp
    <2>1. Fades  BY <1>4, NoFade
    <2> QED BY <1>1, <1>4, <2>1, FadeStops
  <1>5. CASE child' = [child EXCEPT ![k].fp = bop.fp] /\ bop' = [bop EXCEPT !.drop = q]
    <2>1. bop.bad \in BOOLEAN /\ bop' = [bop EXCEPT !.drop = q, !.bad = bop.bad]
      BY <1>5 DEF BundlesTypeOK, Operations
    <2>2. /\ bop' \in Operations /\ bop'.at = bop.at /\ bop'.what = bop.what /\ bop'.b = bop.b /\ bop'.fp = bop.fp
          /\ bop'.target = bop.target /\ bop'.taken = bop.taken /\ bop'.made = bop.made /\ bop'.drop = q /\ bop'.cur = bop.cur
      BY <1>2, <2>1, OpDrops
    <2>3. /\ child' \in [Ids -> ChildRows] /\ child'[k].fp = bop.fp
          /\ \A j \in Ids : /\ child'[j].st = child[j].st /\ child'[j].in = child[j].in /\ child'[j].for = child[j].for
                            /\ child'[j].slot = child[j].slot /\ (j # k => child'[j] = child[j])
      <3>1. child \in [Ids -> ChildRows] /\ child[k] \in ChildRows  BY <1>2 DEF BundlesTypeOK
      <3> DEFINE r == [child[k] EXCEPT !.fp = bop.fp]
      <3>2. r \in ChildRows /\ r.st = child[k].st /\ r.for = child[k].for /\ r.slot = child[k].slot /\ r.in = child[k].in
            /\ r.fp = bop.fp
        BY <1>3, <3>1 DEF ChildRows
      <3>3. child' = [child EXCEPT ![k] = r]  BY <1>5
      <3> HIDE DEF r
      <3> QED BY <1>2, <3>1, <3>2, <3>3
    <2>4. bundle' = bundle /\ lost' = lost /\ split' = split /\ bop.at = "stamp"  BY <1>1
    <2>5. BundlesTypeOK'  BY <1>1, <2>2, <2>3 DEF BundlesTypeOK, others
    <2>6. OpFrame'  BY <2>2, <2>4 DEF OpFrame
    <2>7. KidInv'  BY <2>3, <2>4 DEF KidInv
    <2>8. WorkInv'
      <3>1. \A j \in Range(bop.made) \cup Range(bop.drop) : j \in Ids  BY OpLists
      <3>2. \A j \in Range(bop'.made) \cup Range(bop'.drop) : child'[j].st # "absent" /\ child'[j].in \in {bop'.b, NoBundle}
        BY <1>2, <2>2, <2>3, <3>1 DEF WorkInv
      <3> QED BY <2>2, <2>4, <3>2 DEF WorkInv
    <2>9. OwnInv'  BY <2>2, <2>3, <2>4 DEF OwnInv
    <2>10. RevInv' /\ TargetStaysCovered'  BY <2>2, <2>4 DEF RevInv, TargetStaysCovered, At
    <2>11. \A b \in Bundles : KidsOf(b)' = KidsOf(b) /\ ActiveKids(b)' = ActiveKids(b) /\ VlessKids(b)' = VlessKids(b)
      BY <2>3 DEF KidsOf, ActiveKids, VlessKids, BackendOfKey
    <2>12. RevokedHasNoLiveChild'
      <3>1. \A b \in Bundles : KidsOf(b) \subseteq Ids  BY DEF KidsOf
      <3> QED BY <2>3, <2>4, <2>11, <3>1 DEF RevokedHasNoLiveChild
    <2>13. PrintInv'
      <3>1. \A j \in VlessKids(bop.b) : child[j].fp = bop.fp \/ j \in Range(bop.drop)  BY <2>4 DEF PrintInv
      <3>2. VlessKids(bop.b) \subseteq Ids /\ VlessKids(bop.b)' = VlessKids(bop.b)
        BY <1>3, <2>2, <2>3 DEF VlessKids, ActiveKids, KidsOf, BackendOfKey
      <3>3. \A j \in VlessKids(bop.b) : child'[j].fp = bop.fp \/ j \in Range(q)
        BY <1>2, <2>3, <3>1, <3>2
      <3> QED BY <1>3, <2>2, <2>4, <3>2, <3>3 DEF PrintInv
    <2>14. OneFingerprint'
      <3>1. \A b \in Bundles : VlessKids(b) \subseteq Ids  BY DEF VlessKids, ActiveKids, KidsOf
      <3>2. child[k].in \in {bop.b, NoBundle}  BY <1>2 DEF WorkInv
      <3>3. \A b \in Bundles \ split : k \notin VlessKids(b)  BY <1>3, <3>2 DEF VlessKids, ActiveKids, KidsOf
      <3>4. OneFingerprint  BY DEF CompositionHolds
      <3>5. ASSUME NEW b \in Bundles \ split, NEW i \in VlessKids(b), NEW j \in VlessKids(b) PROVE child'[i].fp = child'[j].fp
        <4>1. i \in Ids /\ j \in Ids /\ i # k /\ j # k  BY <3>1, <3>3, <3>5
        <4>2. child'[i] = child[i] /\ child'[j] = child[j]  BY <2>3, <4>1
        <4> QED BY <3>4, <3>5, <4>2 DEF OneFingerprint
      <3> QED BY <2>4, <2>11, <3>5 DEF OneFingerprint
    <2>15. CoverInv'  BY <1>3, <2>2 DEF CoverInv
    <2> QED BY <2>5, <2>6, <2>7, <2>8, <2>9, <2>10, <2>12, <2>13, <2>14, <2>15 DEF CompositionHolds
  <1> QED BY <1>1, <1>4, <1>5

\* BunInv is inductive.
LEMMA BunInit ==
  ASSUME BundlesInit
  PROVE  BunInv
  <1> USE BundlesAssumption DEF BundlesInit
  <1>1. NoOp \in Operations /\ NoChild \in ChildRows /\ NoChild.st = "absent" /\ NoChild.in = NoBundle
        /\ NoChild.for = NoBundle
    BY Nothing DEF NoOpTypes
  <1>2. /\ NoOp.b = NoBundle /\ NoOp.what = "none" /\ NoOp.at = "idle" /\ NoOp.cur = NoKeyId
        /\ NoOp.made = <<>> /\ NoOp.drop = <<>>
    BY DEF NoOp
  <1>3. BundlesTypeOK
    <2>1. bundle \in [Bundles -> [st : BundleStatuses, kind : Kinds, tok : {"issued", "rotated"}]]
      BY DEF BundleStatuses, Kinds
    <2>2. child \in [Ids -> ChildRows] /\ bop \in Operations  BY <1>1
    <2>3. bulk \in [on : BOOLEAN, stop : BOOLEAN, kind : {"own", "basic"}, todo : Seq(Bundles)]
      BY DEF NoBulk
    <2>4. /\ modOn \subseteq Backends /\ sick \subseteq {"xray"} /\ relayAt \in [Range(Relays) -> {"off", "on", "subs"}]
          /\ late \in BOOLEAN /\ faults \in Nat /\ turns \in Nat /\ lost = {} /\ ended = {} /\ split = {}
      OBVIOUS
    <2> QED BY <2>1, <2>2, <2>3, <2>4 DEF BundlesTypeOK
  <1>4. \A k \in Ids : child[k] = NoChild  OBVIOUS
  <1>5. \A b \in Bundles : KidsOf(b) = {}  BY <1>1, <1>4 DEF KidsOf
  <1>6. Range(bop.made) = {} /\ Range(bop.drop) = {}  BY <1>2 DEF Range
  <1>7. OpFrame  BY <1>2 DEF OpFrame, Ids
  <1>8. KidInv  BY <1>1, <1>4 DEF KidInv
  <1>9. WorkInv  BY <1>2, <1>6 DEF WorkInv
  <1>10. OwnInv  BY <1>1, <1>4 DEF OwnInv
  <1>11. RevInv /\ PrintInv /\ CoverInv /\ TargetStaysCovered
    BY <1>2 DEF RevInv, PrintInv, CoverInv, TargetStaysCovered, At
  <1>12. RevokedHasNoLiveChild  BY <1>5 DEF RevokedHasNoLiveChild
  <1>13. OneFingerprint  BY <1>5 DEF OneFingerprint, VlessKids, ActiveKids
  <1> QED BY <1>3, <1>7, <1>8, <1>9, <1>10, <1>11, <1>12, <1>13 DEF BunInv, CompositionHolds

\* Every step keeps BunInv.
LEMMA BunStep ==
  ASSUME BunInv, BundlesNext
  PROVE  BunInv'
  <1>1. ASSUME NEW b \in Bundles, CreateBundle(b) PROVE BunInv'  BY <1>1, CreateKeeps
  <1>2. ASSUME NEW b \in Bundles, RevokeBundle(b) \/ DeleteBundle(b) PROVE BunInv'  BY <1>2, EndingKeeps
  <1>3. ASSUME NEW b \in Bundles, ChangeFingerprint(b) PROVE BunInv'  BY <1>3, PrintKeeps
  <1>4. ASSUME NEW b \in Bundles, ReconcileComposition(b) PROVE BunInv'
    <2>1. PICK kind \in Kinds : StartReconcile(b, kind, FALSE) /\ bulk' = bulk  BY <1>4 DEF ReconcileComposition
    <2>2. bulk' \in [on : BOOLEAN, stop : BOOLEAN, kind : {"own", "basic"}, todo : Seq(Bundles)]
      BY <2>1 DEF BunInv, BundlesTypeOK
    <2> QED BY <2>1, <2>2, ReconcileKeeps
  <1>5. CASE BundleCall  BY <1>1, <1>2, <1>3, <1>4, <1>5 DEF BundleCall
  <1>6. CASE BundleStep
    BY <1>6, ProvisionKeeps, ProvisionFailsKeeps, AttachKeeps, AttachFailsKeeps, EndsKeep, UnwindChildKeeps, RowGoes,
       RevokeChildKeeps, RotateKeeps, RetireKeeps, StampChildKeeps, StampDoneKeeps, RemoveChildKeeps, MadeKeeps, DropChildKeeps
       DEF BundleStep
  <1>7. CASE BulkBundle
    <2> DEFINE b == Head(bulk.todo)
    <2>1. bulk.todo # <<>> /\ bulk' = [bulk EXCEPT !.todo = Tail(bulk.todo)] /\ StartReconcile(b, BulkKind(b), TRUE)
      BY <1>7 DEF BulkBundle
    <2>2. bulk \in [on : BOOLEAN, stop : BOOLEAN, kind : {"own", "basic"}, todo : Seq(Bundles)]
          /\ bundle \in [Bundles -> [st : BundleStatuses, kind : Kinds, tok : {"issued", "rotated"}]]
      BY DEF BunInv, BundlesTypeOK
    <2>3. b \in Bundles /\ Tail(bulk.todo) \in Seq(Bundles)  BY <2>1, <2>2
    <2>4. bulk' \in [on : BOOLEAN, stop : BOOLEAN, kind : {"own", "basic"}, todo : Seq(Bundles)]  BY <2>1, <2>2, <2>3
    <2>5. BulkKind(b) \in Kinds  BY <2>2, <2>3 DEF BulkKind, Kinds
    <2> HIDE DEF b
    <2> QED BY <2>1, <2>3, <2>4, <2>5, ReconcileKeeps
  <1>8. CASE BulkStart \/ BulkSkips \/ BulkEnd \/ BulkStop \/ ModuleSwitch \/ RelaySwitch \/ HealthChanges \/ DeadlinePasses
    BY <1>8, WorldTypes, QuietKeeps DEF BunInv
  <1>9. CASE Interrupt  BY <1>9, InterruptKeeps
  <1>10. CASE OtherRevokes \/ OtherDeletes  BY <1>10, OthersKeep
  <1> QED BY <1>5, <1>6, <1>7, <1>8, <1>9, <1>10 DEF BundlesNext, BulkStep, BundleWorld

\* BunInv holds always.
THEOREM BundlesInd == BundlesSpec => []BunInv
  <1>1. BundlesInit => BunInv  BY BunInit
  <1>2. BunInv /\ [BundlesNext]_bundleVars => BunInv'
    <2>1. CASE BundlesNext  BY <2>1, BunStep
    <2>2. CASE UNCHANGED bundleVars
      <3>1. BunInv /\ UNCHANGED bundleVars => Quietly /\ BundlesTypeOK'
        BY <2>2 DEF bundleVars, Quietly, BunInv, BundlesTypeOK
      <3> QED BY <2>2, <3>1, QuietKeeps
    <2> QED BY <2>1, <2>2
  <1> QED BY <1>1, <1>2, PTL DEF BundlesSpec

\* create_bundle, delete_bundle: when the row of a bundle is gone no key made for it lives on, except
\* one the rollback never learned of.
THEOREM NothingIsLeftBehind == BundlesSpec => []NothingLeftBehind
  <1>1. BunInv => NothingLeftBehind
    <2>1. ASSUME BunInv, NEW b \in Bundles, NEW k \in Ids,
                 bundle[b].st = "gone", bop.b # b, child[k].for = b, child[k].st = "active"
          PROVE  k \in lost
      <3>1. child[k].in = NoBundle  BY <2>1 DEF BunInv, KidInv
      <3>2. CASE bop.at = "attach" /\ k = bop.cur
        <4>1. child[k].for = bop.b  BY <2>1, <3>2 DEF BunInv, WorkInv
        <4> QED BY <2>1, <4>1
      <3> QED BY <2>1, <3>1, <3>2 DEF BunInv, OwnInv
    <2> QED BY <2>1 DEF NothingLeftBehind, Quiet
  <1> QED BY <1>1, BundlesInd, PTL

\* reconcile_composition, change_fingerprint: every slot stays served and one fingerprint is spoken.
THEOREM BundlesKeepComposition == BundlesSpec => []CompositionHolds
  <1>1. BunInv => CompositionHolds  BY DEF BunInv
  <1> QED BY <1>1, BundlesInd, PTL

\* A revoked bundle is over: its children are revoked and its URL is dead.
THEOREM RevokedIsOver == BundlesSpec => []RevokedIsDead
  <1>1. BunInv => RevokedHasNoLiveChild  BY DEF BunInv
  <1>2. RevokedHasNoLiveChild /\ RevokedUrlIsDead => RevokedIsDead  BY DEF RevokedIsDead
  <1> QED BY <1>1, <1>2, BundlesInd, DeadUrl, PTL
===============================================================================
