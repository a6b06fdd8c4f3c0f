----------------------------- MODULE AwgKeysProofs -----------------------------
(***************************************************************************)
(* What AwgKeys guarantees for every set of keys and hand-made peers, pool *)
(* size and deployment: types, a degraded AWG is left alone, no peer of a  *)
(* dead key, no address used twice, a clean startup that is exact, and the *)
(* promise of KeyLife.  The last four assume what the run awg_reused shows *)
(* to be needed: no edit by hand brings in an address that is in use.      *)
(***************************************************************************)
EXTENDS AwgKeys, TLAPS

\* The type invariant, by what it is about: rows, calls, and the state of the process
RowsOK ==
    /\ status \in [Keys -> Statuses] /\ addr \in [Keys -> 0 .. PoolSize] /\ held \in [Keys -> BOOLEAN]
    /\ \A k \in Keys : addr[k] = 0 <=> status[k] = "absent"

CallsOK ==
    /\ waiting \in SUBSET (Calls \X (Keys \cup {NoKey})) /\ pc \in PCs
    /\ op \in [kind : Kinds, key : Peers \cup {NoKey}, prev : Statuses]

ProcessOK ==
    /\ degraded \in BOOLEAN /\ failed \in BOOLEAN /\ tampered \in BOOLEAN
    /\ phase \in Phases /\ todo \in SUBSET Peers /\ marked \in Peers \cup {NoPeer}

\* The call that has the lock works on a row that may have a peer, and one that may be
\* given a peer holds its address.
JobInv ==
    /\ (pc = "idle") <=> (op.kind = "none")
    /\ phase = "down" => pc = "idle"
    /\ IF pc = "idle" THEN op.key = NoKey ELSE op.key \in Peers
    /\ op.kind \in {"create", "comp"} =>
         phase = "up" /\ op.key \in Keys /\ status[op.key] = "pending_apply"
    /\ op.kind = "revoke" =>
         /\ phase \in {"up", "reconcile"} /\ op.key \in Keys /\ status[op.key] = "pending_revoke"
         /\ op.prev \in MayExist
         /\ op.prev \in {"active", "pending_apply", "apply_failed"} => held[op.key]
    /\ op.kind = "delete" =>
         /\ phase \in {"up", "reconcile"} /\ op.key \in Keys
         /\ status[op.key] \in {"pending_delete", "delete_failed"}
    /\ op.kind = "settle" =>
         /\ phase = "reconcile" /\ op.key \in Keys
         /\ status[op.key] \in {"pending_apply", "apply_failed"} /\ op.prev = status[op.key]
    /\ op.kind = "strip" => phase \in {"nonlive", "orphans", "runtime"}
    /\ op.kind = "restore" => phase = "restore" /\ op.key \in Active
    /\ pc \in {"undo", "finish"} => op.kind \in {"create", "revoke", "delete", "settle"}
    /\ pc = "comp_status" => op.kind = "comp"
    /\ phase = "restore" => todo \subseteq Active

\* client_ip is kept until the key is revoked, and cleared then.
HeldInv ==
    \A k \in Keys :
        /\ status[k] \in {"active", "pending_apply", "apply_failed"} => held[k]
        /\ status[k] = "revoked" => ~held[k]

\* Outside an apply there is no older file to fall back to; in it, the file has changed.
SavedInv ==
    /\ pc # "apply" => saved = conf
    /\ pc = "apply" => ((op.key \in conf.peers) <=> (op.kind \in Adds))

\* AWG is marked degraded only when nothing is under way.
FrozenInv == degraded => phase = "up" /\ pc = "idle"

\* After a hand edit, only a clean start or a degraded AWG comes back.
CalmInv == phase = "up" /\ tampered => degraded

\* The base of every other invariant.
BaseInv == TypeOK /\ JobInv /\ HeldInv /\ SavedInv /\ FrozenInv /\ CalmInv

\* The rows that reserve an address, and the peers that are anywhere.
Reserved == {k \in Keys : status[k] \in MayExist /\ held[k]}
Present == conf.peers \cup live \cup saved.peers

\* Every peer belongs to a row that reserves its address, unless the file was edited.
OwnedInv == ~tampered => Present \subseteq Reserved

\* No two peers or reserving rows have the same address.
UniqueInv == \A p, q \in Present \cup Reserved : p # q => Addr(p) # Addr(q)

\* A removal reaches its last write with the peer out of file and interface.
RemovedInv ==
    pc = "finish" /\ op.kind \in {"revoke", "delete"} => op.key \notin conf.peers \cup live

\* Once the scan for rows that are not live is over, the peers that have a row are active.
RowPeersInv ==
    /\ phase = "nonlive" =>
         \A k \in (conf.peers \cup live) \cap Keys :
             status[k] \in Rows => k \in Active \cup todo \cup {op.key}
    /\ phase \in {"orphans", "restore", "runtime"} =>
         \A k \in (conf.peers \cup live) \cap Keys : status[k] \in Rows => k \in Active

\* Once the scan for orphans is over, the file has only peers of active keys.
FilePeersInv ==
    /\ phase = "orphans" => conf.peers \subseteq Active \cup todo \cup {op.key}
    /\ phase \in {"restore", "runtime"} => conf.peers \subseteq Active

\* Once the restoring is over, file and interface have the peer of every active key.
RestoredInv ==
    /\ phase = "restore" => Active \subseteq (conf.peers \cap live) \cup todo \cup {op.key}
    /\ phase = "runtime" => Active \subseteq conf.peers \cap live

\* What the last scan has not looked at is all that is left over.
RuntimeInv ==
    phase = "runtime" => pc = "idle" /\ live \subseteq Active \cup todo /\ todo \subseteq live \ Active

\* The inductive invariant behind the address and startup properties.
PeerInv ==
    /\ OwnedInv /\ UniqueInv /\ RemovedInv
    /\ RowPeersInv /\ FilePeersInv /\ RestoredInv /\ RuntimeInv

-----------------------------------------------------------------------------
(* The file.                                                               *)

\* An edited file is a file: add_peer appends the block of one peer ...
LEMMA WithFile ==
  ASSUME NEW f \in Files, NEW p \in Peers
  PROVE  With(f, p) \in Files /\ With(f, p).peers = f.peers \cup {p}
  BY DEF With, Files

\* ... and remove_peer takes one out.
LEMMA WithoutFile ==
  ASSUME NEW f \in Files, NEW p, NEW g \in Without(f, p)
  PROVE  g \in Files /\ g.peers = f.peers \ {p}
  <1> DEFINE rest == f.peers \ {p}
  <1>1. PICK h \in IF f.head \in rest THEN {f.head} ELSE IF rest = {} THEN {NoPeer} ELSE rest :
           g = [peers |-> rest, head |-> h]
    BY DEF Without
  <1>2. h \in Peers \cup {NoPeer}  BY <1>1 DEF Files
  <1> QED BY <1>1, <1>2 DEF Files

\* A failing edit leaves the new or the older file, and an interface whose peers come from
\* one of the two or were there before; after a failed removal the peer may be back.
LEMMA FailedEdit ==
  ASSUME ConfigOK, NEW p \in Peers, AddFails(p) \/ RemoveFails(p)
  PROVE  /\ conf' \in {saved, conf} /\ saved' = conf' /\ past' = past
         /\ live' \subseteq live \cup conf.peers \cup saved.peers \cup
                            (IF AddFails(p) THEN {p} ELSE {})
  <1>1. Restored  BY DEF AddFails, RemoveFails, HelperFails
  <1>2. ASSUME HelperFails PROVE live' \subseteq live \cup conf.peers \cup saved.peers
    BY <1>2 DEF HelperFails
  <1>3. ASSUME AddFails(p) PROVE live' \subseteq live \cup conf.peers \cup saved.peers \cup {p}
    BY <1>2, <1>3 DEF AddFails
  <1>4. ASSUME RemoveFails(p) PROVE live' \subseteq live \cup conf.peers \cup saved.peers
    BY <1>1, <1>2, <1>4 DEF RemoveFails, Restored
  <1> QED BY <1>1, <1>3, <1>4 DEF Restored

-----------------------------------------------------------------------------
(* Types, and the call that has the lock.                                  *)

\* The initial state satisfies the base.
LEMMA BaseInit == Init => BaseInv
  <1> USE AwgConfigAssumption, AwgKeysAssumption DEF Init, ConfigInit, NoOp, NoPeers
  <1>1. Init => TypeOK
    <2>1. Init => ConfigOK  BY DEF ConfigOK, Files, Peers
    <2>2. Init => RowsOK  BY DEF RowsOK, Statuses
    <2>3. Init => CallsOK  BY DEF CallsOK, Statuses, Kinds, PCs
    <2>4. Init => ProcessOK  BY DEF ProcessOK, Phases
    <2> QED BY <2>1, <2>2, <2>3, <2>4 DEF TypeOK, RowsOK, CallsOK, ProcessOK
  <1>2. Init => JobInv /\ HeldInv /\ SavedInv /\ FrozenInv /\ CalmInv
    BY DEF JobInv, HeldInv, SavedInv, FrozenInv, CalmInv
  <1> QED BY <1>1, <1>2 DEF BaseInv

\* A call that raises in its edit or apply sets no row: it goes on to undo, or gives up.
Raised ==
    /\ UNCHANGED <<status, addr, held, waiting, marked, failed, tampered>>
    /\ \/ op.kind = "comp" /\ UNCHANGED <<phase, todo>> /\ degraded' = TRUE /\ Idle
       \/ op.kind \in {"strip", "restore"} /\ phase' = "up" /\ degraded' = TRUE /\ todo' = {} /\ Idle
       \/ /\ op.kind \in {"create", "revoke", "delete", "settle"} /\ pc' = "undo"
          /\ UNCHANGED <<op, phase, todo, degraded>>

\* The cases of Raise are all there are.
LEMMA RaiseStep ==
  ASSUME BaseInv, pc \in {"edit", "apply"}, Raise
  PROVE  Raised
  BY DEF Raised, Raise, BootStops, BaseInv, TypeOK, JobInv, Kinds

\* Every step keeps the base: a call begins only on a row it may change, and every write to
\* the row or the flag comes with the step that ends the call.
LEMMA BaseStep ==
  ASSUME BaseInv, Next
  PROVE  BaseInv'
  <1>r. ASSUME pc \in {"edit", "apply"}, Raise PROVE Raised  BY <1>r, RaiseStep
  <1> USE AwgConfigAssumption, AwgKeysAssumption
      DEF BaseInv, TypeOK, ConfigOK, JobInv, HeldInv, SavedInv, FrozenInv, CalmInv,
          Statuses, PCs, Phases, Scans, Kinds, Calls, MayExist, Unsettled, Rows, NoOp, Adds, Active,
          Peers, configVars, serviceVars
  <1>0. helper' = helper  BY DEF Next
  <1>1. CASE \E call \in Calls, k \in Keys \cup {NoKey} : Request(call, k) \/ Refuse(call, k)
    BY <1>0, <1>1 DEF Request, Refuse, Served
  <1>2. CASE Create
    BY <1>0, <1>2 DEF Create, Served, SetStatus, FreeAddrs
  <1>3. CASE \E k \in Keys : Revoke(k) \/ Delete(k)
    BY <1>0, <1>3 DEF Revoke, Delete, Served, SetStatus
  <1>4. CASE \E k \in Keys : ManualReconcile(k)
    BY <1>0, <1>4 DEF ManualReconcile, Served, SetStatus, MarkActive
  <1>5. CASE EditOk
    <2>1. TypeOK'
      <3>1. ConfigOK'  BY <1>0, <1>5, WithFile, WithoutFile DEF EditOk, WriteConf, Found
      <3>2. RowsOK'  BY <1>0, <1>5, WithFile, WithoutFile DEF EditOk, WriteConf, Found, RowsOK
      <3>3. CallsOK'  BY <1>0, <1>5, WithFile, WithoutFile DEF EditOk, WriteConf, Found, CallsOK
      <3>4. ProcessOK'  BY <1>0, <1>5, WithFile, WithoutFile DEF EditOk, WriteConf, Found, ProcessOK
      <3> QED BY <3>1, <3>2, <3>3, <3>4 DEF RowsOK, CallsOK, ProcessOK
    <2>2. JobInv'  BY <1>0, <1>5, WithFile, WithoutFile DEF EditOk, WriteConf, Found
    <2>3. HeldInv' /\ SavedInv' /\ FrozenInv' /\ CalmInv'  BY <1>0, <1>5, WithFile, WithoutFile DEF EditOk, WriteConf, Found
    <2> QED BY <2>1, <2>2, <2>3
  <1>6. CASE EditRaises
    <2>1. configVars' = configVars /\ pc = "edit" /\ Raised  BY <1>0, <1>6, <1>r DEF EditRaises
    <2>2. TypeOK'
      <3>1. RowsOK'  BY <2>1 DEF Raised, RowsOK
      <3>2. CallsOK'  BY <2>1 DEF Raised, CallsOK, Idle
      <3>3. ProcessOK'  BY <2>1 DEF Raised, ProcessOK
      <3> QED BY <2>1, <3>1, <3>2, <3>3 DEF RowsOK, CallsOK, ProcessOK
    <2>3. JobInv'  BY <2>1 DEF Raised, Idle
    <2>4. HeldInv' /\ SavedInv' /\ FrozenInv' /\ CalmInv'  BY <2>1 DEF Raised, Idle
    <2> QED BY <2>2, <2>3, <2>4
  <1>7. CASE ApplyOk
    BY <1>0, <1>7 DEF ApplyOk, ApplyAdd, ApplyRemove, AddedPeer, RemovedPeer, Idle, Files
  <1>8. CASE ApplyRaises
    <2>1. /\ conf' \in {saved, conf} /\ saved' = conf' /\ past' = past
          /\ live' \in SUBSET Peers
      BY <1>8, FailedEdit DEF ApplyRaises, Files
    <2>2. pc = "apply" /\ Raised  BY <1>8, <1>r DEF ApplyRaises
    <2>3. TypeOK'
      <3>1. RowsOK'  BY <2>2 DEF Raised, RowsOK
      <3>2. CallsOK'  BY <2>2 DEF Raised, CallsOK, Idle
      <3>3. ProcessOK'  BY <2>2 DEF Raised, ProcessOK
      <3> QED BY <1>0, <2>1, <3>1, <3>2, <3>3 DEF RowsOK, CallsOK, ProcessOK
    <2>4. JobInv'  BY <2>2 DEF Raised, Idle
    <2>5. HeldInv' /\ SavedInv' /\ FrozenInv' /\ CalmInv'  BY <2>1, <2>2 DEF Raised, Idle
    <2> QED BY <2>3, <2>4, <2>5
  <1>9. CASE Finish
    <2>1. TypeOK'
      <3>1. ConfigOK'  BY <1>0, <1>9 DEF Finish, MarkActive, SetStatus, Idle
      <3>2. RowsOK'
        <4>1. op.key \in Keys /\ status[op.key] # "absent"  BY <1>9 DEF Finish
        <4>2. addr' = addr /\ (held' = held \/ held' = [held EXCEPT ![op.key] = FALSE])
          BY <1>9 DEF Finish
        <4>3. PICK s \in {"active", "revoked", "gone", "apply_failed"} :
                 status' = status \/ status' = [status EXCEPT ![op.key] = s]
          BY <1>9 DEF Finish, MarkActive, SetStatus
        <4>4. status' \in [Keys -> Statuses]  BY <4>3
        <4>5. held' \in [Keys -> BOOLEAN]  BY <4>2
        <4>6. \A k \in Keys : (status'[k] = "absent") <=> (status[k] = "absent")  BY <4>1, <4>3
        <4> QED BY <4>2, <4>4, <4>5, <4>6 DEF RowsOK
      <3>3. CallsOK'  BY <1>0, <1>9 DEF Finish, MarkActive, SetStatus, Idle, CallsOK
      <3>4. ProcessOK'  BY <1>0, <1>9 DEF Finish, MarkActive, SetStatus, Idle, ProcessOK
      <3> QED BY <3>1, <3>2, <3>3, <3>4 DEF RowsOK, CallsOK, ProcessOK
    <2>2. JobInv'  BY <1>0, <1>9 DEF Finish, MarkActive, SetStatus, Idle
    <2>3. HeldInv' /\ SavedInv' /\ FrozenInv' /\ CalmInv'  BY <1>0, <1>9 DEF Finish, MarkActive, SetStatus, Idle
    <2> QED BY <2>1, <2>2, <2>3
  <1>10. CASE FinishRaises
    BY <1>0, <1>10 DEF FinishRaises, Counted, Idle
  <1>11. CASE Undo \/ CompensateStatus
    <2>1. TypeOK'
      <3>1. ConfigOK'  BY <1>0, <1>11 DEF Undo, UndoStatus, CompensateStatus, SetStatus, Counted, Idle
      <3>2. RowsOK'  BY <1>0, <1>11 DEF Undo, UndoStatus, CompensateStatus, SetStatus, Counted, Idle, RowsOK
      <3>3. CallsOK'  BY <1>0, <1>11 DEF Undo, UndoStatus, CompensateStatus, SetStatus, Counted, Idle, CallsOK
      <3>4. ProcessOK'
        <4>1. failed' \in BOOLEAN  BY <1>11, Zenon DEF Undo, CompensateStatus, Counted
        <4> QED BY <1>11, <4>1 DEF Undo, CompensateStatus, ProcessOK
      <3> QED BY <3>1, <3>2, <3>3, <3>4 DEF RowsOK, CallsOK, ProcessOK
    <2>2. JobInv'  BY <1>0, <1>11 DEF Undo, UndoStatus, CompensateStatus, SetStatus, Counted, Idle
    <2>3. HeldInv' /\ SavedInv' /\ FrozenInv' /\ CalmInv'  BY <1>0, <1>11 DEF Undo, UndoStatus, CompensateStatus, SetStatus, Counted, Idle
    <2> QED BY <2>1, <2>2, <2>3
  <1>12. CASE Crash
    BY <1>0, <1>12 DEF Crash, Idle, Files
  <1>13. CASE \E p \in Peers : OperatorEdit(p)
    BY <1>0, <1>13, WithFile, WithoutFile DEF OperatorEdit
  <1>14. CASE BootStart \/ BootFailed \/ BootReadRaises \/ BootNonLiveStart
    <2>1. TypeOK'
      <3>1. ConfigOK'  BY <1>0, <1>14 DEF BootStart, BootFailed, BootReadRaises, BootNonLiveStart, NextStage, BootStops, Idle
      <3>2. RowsOK'  BY <1>0, <1>14 DEF BootStart, BootFailed, BootReadRaises, BootNonLiveStart, NextStage, BootStops, Idle, RowsOK
      <3>3. CallsOK'  BY <1>0, <1>14 DEF BootStart, BootFailed, BootReadRaises, BootNonLiveStart, NextStage, BootStops, Idle, CallsOK
      <3>4. ProcessOK'  BY <1>0, <1>14 DEF BootStart, BootFailed, BootReadRaises, BootNonLiveStart, NextStage, BootStops, Idle, ProcessOK
      <3> QED BY <3>1, <3>2, <3>3, <3>4 DEF RowsOK, CallsOK, ProcessOK
    <2>2. JobInv'  BY <1>0, <1>14 DEF BootStart, BootFailed, BootReadRaises, BootNonLiveStart, NextStage, BootStops, Idle
    <2>3. HeldInv' /\ SavedInv' /\ FrozenInv' /\ CalmInv'  BY <1>0, <1>14 DEF BootStart, BootFailed, BootReadRaises, BootNonLiveStart, NextStage, BootStops, Idle
    <2> QED BY <2>1, <2>2, <2>3
  <1>15. CASE BootOrphansStart
    BY <1>0, <1>15 DEF BootOrphansStart, NextStage, Marked, Files
  <1>16. CASE BootRestoreStart \/ BootRuntimeStart \/ BootDone
    <2>1. TypeOK'
      <3>1. ConfigOK'  BY <1>0, <1>16 DEF BootRestoreStart, BootRuntimeStart, BootDone, NextStage
      <3>2. RowsOK'  BY <1>0, <1>16 DEF BootRestoreStart, BootRuntimeStart, BootDone, NextStage, RowsOK
      <3>3. CallsOK'  BY <1>0, <1>16 DEF BootRestoreStart, BootRuntimeStart, BootDone, NextStage, CallsOK
      <3>4. ProcessOK'  BY <1>0, <1>16 DEF BootRestoreStart, BootRuntimeStart, BootDone, NextStage, ProcessOK
      <3> QED BY <3>1, <3>2, <3>3, <3>4 DEF RowsOK, CallsOK, ProcessOK
    <2>2. JobInv'  BY <1>0, <1>16 DEF BootRestoreStart, BootRuntimeStart, BootDone, NextStage
    <2>3. HeldInv' /\ SavedInv' /\ FrozenInv' /\ CalmInv'  BY <1>0, <1>16 DEF BootRestoreStart, BootRuntimeStart, BootDone, NextStage
    <2> QED BY <2>1, <2>2, <2>3
  <1>17. CASE \E k \in Keys : BootSettle(k)
    <2>1. TypeOK'
      <3>1. ConfigOK'  BY <1>0, <1>17 DEF BootSettle, Look, MarkActive, SetStatus, Begin
      <3>2. RowsOK'  BY <1>0, <1>17 DEF BootSettle, Look, MarkActive, SetStatus, Begin, RowsOK
      <3>3. CallsOK'  BY <1>0, <1>17 DEF BootSettle, Look, MarkActive, SetStatus, Begin, CallsOK
      <3>4. ProcessOK'  BY <1>0, <1>17 DEF BootSettle, Look, MarkActive, SetStatus, Begin, ProcessOK
      <3> QED BY <3>1, <3>2, <3>3, <3>4 DEF RowsOK, CallsOK, ProcessOK
    <2>2. JobInv'  BY <1>0, <1>17 DEF BootSettle, Look, MarkActive, SetStatus, Begin
    <2>3. HeldInv' /\ SavedInv' /\ FrozenInv' /\ CalmInv'  BY <1>0, <1>17 DEF BootSettle, Look, MarkActive, SetStatus, Begin
    <2> QED BY <2>1, <2>2, <2>3
  <1>18. CASE \E k \in Keys : BootResume(k) \/ BootNonLive(k) \/ BootRestore(k)
    <2>1. TypeOK'
      <3>1. ConfigOK'  BY <1>0, <1>18 DEF BootResume, BootNonLive, BootRestore, Look, Begin
      <3>2. RowsOK'  BY <1>0, <1>18 DEF BootResume, BootNonLive, BootRestore, Look, Begin, RowsOK
      <3>3. CallsOK'  BY <1>0, <1>18 DEF BootResume, BootNonLive, BootRestore, Look, Begin, CallsOK
      <3>4. ProcessOK'  BY <1>0, <1>18 DEF BootResume, BootNonLive, BootRestore, Look, Begin, ProcessOK
      <3> QED BY <3>1, <3>2, <3>3, <3>4 DEF RowsOK, CallsOK, ProcessOK
    <2>2. JobInv'
      <3>1. PICK k \in Keys : BootResume(k) \/ BootNonLive(k) \/ BootRestore(k)  BY <1>18
      <3>2. CASE BootResume(k)  BY <3>2 DEF BootResume, Look, Begin
      <3>3. CASE BootNonLive(k)  BY <3>3 DEF BootNonLive, Look, Begin
      <3>4. CASE BootRestore(k)
        <4> QED BY <3>4 DEF BootRestore, Look, Begin
      <3> QED BY <3>1, <3>2, <3>3, <3>4
    <2>3. HeldInv' /\ SavedInv' /\ FrozenInv' /\ CalmInv'  BY <1>0, <1>18 DEF BootResume, BootNonLive, BootRestore, Look, Begin
    <2> QED BY <2>1, <2>2, <2>3
  <1>19. CASE \E k \in Keys : BootSync(k)
    <2>1. TypeOK'
      <3>1. ConfigOK'  BY <1>0, <1>19 DEF BootSync, Look, SyncOk, BootStops, Idle, Files
      <3>2. RowsOK'  BY <1>0, <1>19 DEF BootSync, Look, SyncOk, BootStops, Idle, Files, RowsOK
      <3>3. CallsOK'  BY <1>0, <1>19 DEF BootSync, Look, SyncOk, BootStops, Idle, Files, CallsOK
      <3>4. ProcessOK'  BY <1>0, <1>19 DEF BootSync, Look, SyncOk, BootStops, Idle, Files, ProcessOK
      <3> QED BY <3>1, <3>2, <3>3, <3>4 DEF RowsOK, CallsOK, ProcessOK
    <2>2. JobInv'  BY <1>0, <1>19 DEF BootSync, Look, SyncOk, BootStops, Idle, Files
    <2>3. HeldInv' /\ SavedInv' /\ FrozenInv' /\ CalmInv'  BY <1>0, <1>19 DEF BootSync, Look, SyncOk, BootStops, Idle, Files
    <2> QED BY <2>1, <2>2, <2>3
  <1>20. CASE \E p \in Peers : BootOrphan(p) \/ AmbiguousConf(p)
    <2>1. TypeOK'
      <3>1. ConfigOK'  BY <1>0, <1>20 DEF BootOrphan, AmbiguousConf, Historical, Look, Begin, BootStops, Idle
      <3>2. RowsOK'  BY <1>0, <1>20 DEF BootOrphan, AmbiguousConf, Historical, Look, Begin, BootStops, Idle, RowsOK
      <3>3. CallsOK'  BY <1>0, <1>20 DEF BootOrphan, AmbiguousConf, Historical, Look, Begin, BootStops, Idle, CallsOK
      <3>4. ProcessOK'  BY <1>0, <1>20 DEF BootOrphan, AmbiguousConf, Historical, Look, Begin, BootStops, Idle, ProcessOK
      <3> QED BY <3>1, <3>2, <3>3, <3>4 DEF RowsOK, CallsOK, ProcessOK
    <2>2. JobInv'  BY <1>0, <1>20 DEF BootOrphan, AmbiguousConf, Historical, Look, Begin, BootStops, Idle
    <2>3. HeldInv' /\ SavedInv' /\ FrozenInv' /\ CalmInv'  BY <1>0, <1>20 DEF BootOrphan, AmbiguousConf, Historical, Look, Begin, BootStops, Idle
    <2> QED BY <2>1, <2>2, <2>3
  <1>21. CASE \E p \in Peers : RuntimeOrphan(p)
    <2>1. TypeOK'
      <3>1. ConfigOK'  BY <1>0, <1>21 DEF RuntimeOrphan, Begin, BootStops, Idle
      <3>2. RowsOK'  BY <1>0, <1>21 DEF RuntimeOrphan, Begin, BootStops, Idle, RowsOK
      <3>3. CallsOK'  BY <1>0, <1>21 DEF RuntimeOrphan, Begin, BootStops, Idle, CallsOK
      <3>4. ProcessOK'
        <4>1. PICK p \in Peers : RuntimeOrphan(p)  BY <1>21
        <4>2. UNCHANGED <<marked, failed, tampered>> /\ phase' \in {phase, "up"} /\ todo' \subseteq todo
          BY <4>1 DEF RuntimeOrphan, BootStops
        <4>3. degraded' \in BOOLEAN  BY <4>1 DEF RuntimeOrphan, BootStops
        <4> QED BY <4>2, <4>3 DEF ProcessOK
      <3> QED BY <3>1, <3>2, <3>3, <3>4 DEF RowsOK, CallsOK, ProcessOK
    <2>2. JobInv'  BY <1>0, <1>21 DEF RuntimeOrphan, Begin, BootStops, Idle
    <2>3. HeldInv' /\ SavedInv' /\ FrozenInv' /\ CalmInv'  BY <1>0, <1>21 DEF RuntimeOrphan, Begin, BootStops, Idle
    <2> QED BY <2>1, <2>2, <2>3
  <1> QED
    BY <1>1, <1>2, <1>3, <1>4, <1>5, <1>6, <1>7, <1>8, <1>9, <1>10, <1>11, <1>12, <1>13, <1>14,
       <1>15, <1>16, <1>17, <1>18, <1>19, <1>20, <1>21 DEF Next, Call, Step, Startup

\* The base is an invariant.
THEOREM Base == Spec => []BaseInv
  <1>1. BaseInv /\ UNCHANGED vars => BaseInv'
    BY DEF BaseInv, TypeOK, ConfigOK, JobInv, HeldInv, SavedInv, FrozenInv, CalmInv, Active, vars,
       configVars, serviceVars
  <1>2. BaseInv /\ [Next]_vars => BaseInv'  BY <1>1, BaseStep
  <1> QED BY BaseInit, <1>2, PTL DEF Spec

\* Every variable of the service and the adapter keeps its type, and every row ever inserted
\* has an address of the pool.
THEOREM AwgTypeCorrect == Spec => []TypeOK
  <1>1. BaseInv => TypeOK  BY DEF BaseInv
  <1> QED BY Base, <1>1, PTL

\* The only steps of an AWG that is up and degraded end a wait or a row's status: the check
\* of BackendHealth is made again under the lock, and nothing is under way when it is set.
THEOREM AwgDegradedFreezes == Spec => DegradedFreezesPeers
  <1>1. ASSUME BaseInv, [Next]_vars, degraded, phase = "up", phase' = "up"
        PROVE  UNCHANGED <<conf, live>>
    <2> USE <1>1
    <2>1. pc = "idle"  BY DEF BaseInv, FrozenInv
    <2>2. ~Step  BY <2>1 DEF Step, EditOk, EditRaises, ApplyOk, ApplyRaises, Finish, FinishRaises, Undo, CompensateStatus
    <2>3. ASSUME Call PROVE UNCHANGED <<conf, live>>
      BY <2>3 DEF Call, Request, Refuse, Create, Revoke, Delete, ManualReconcile, Served, configVars
    <2>4. ~Startup
      BY DEF Startup, BootStart, BootFailed, BootReadRaises, BootNonLiveStart, BootOrphansStart,
         BootRestoreStart, BootRuntimeStart, BootDone, NextStage, BootSettle, BootResume,
         BootNonLive, BootRestore, BootSync, BootOrphan, AmbiguousConf, RuntimeOrphan, Look, Scans
    <2> QED BY <2>2, <2>3, <2>4 DEF Next, Crash, OperatorEdit, vars, configVars
  <1> QED BY Base, <1>1, PTL DEF Spec, DegradedFreezesPeers

-----------------------------------------------------------------------------
(* Which step changes what.                                                *)

\* File and interface change in an edit, an apply, a sync, a crash, or by the operator.
LEMMA ConfigSteps ==
  ASSUME Next
  PROVE  \/ UNCHANGED configVars
         \/ EditOk \/ ApplyOk \/ ApplyRaises \/ Crash
         \/ \E p \in Peers : OperatorEdit(p)
         \/ (\E k \in Keys : BootSync(k)) /\ SyncOk
  <1>0. helper' = helper  BY DEF Next
  <1>1. ASSUME Call PROVE UNCHANGED configVars
    BY <1>1, <1>0 DEF Call, Request, Refuse, Create, Revoke, Delete, ManualReconcile, Served, configVars
  <1>2. ASSUME Step PROVE UNCHANGED configVars \/ EditOk \/ ApplyOk \/ ApplyRaises
    BY <1>2, <1>0 DEF Step, EditRaises, Finish, FinishRaises, Undo, CompensateStatus, configVars
  <1>3. ASSUME Startup PROVE UNCHANGED configVars \/ ((\E k \in Keys : BootSync(k)) /\ SyncOk)
    <2>1. ASSUME NEW k \in Keys, BootSync(k) PROVE SyncOk \/ UNCHANGED configVars
      BY <2>1, <1>0 DEF BootSync
    <2>2. ASSUME NEW k \in Keys, BootSettle(k) \/ BootResume(k) \/ BootNonLive(k) \/ BootRestore(k)
          PROVE  UNCHANGED configVars
      BY <2>2, <1>0 DEF BootSettle, BootResume, BootNonLive, BootRestore, configVars
    <2>3. ASSUME NEW p \in Peers, BootOrphan(p) \/ AmbiguousConf(p) \/ RuntimeOrphan(p)
          PROVE  UNCHANGED configVars
      BY <2>3, <1>0 DEF BootOrphan, AmbiguousConf, RuntimeOrphan, configVars
    <2>4. ASSUME \/ BootStart \/ BootFailed \/ BootReadRaises \/ BootNonLiveStart \/ BootOrphansStart
                 \/ BootRestoreStart \/ BootRuntimeStart \/ BootDone
          PROVE  UNCHANGED configVars
      BY <2>4, <1>0 DEF BootStart, BootFailed, BootReadRaises, BootNonLiveStart, BootOrphansStart,
         BootRestoreStart, BootRuntimeStart, BootDone, NextStage, configVars
    <2> QED BY <1>3, <2>1, <2>2, <2>3, <2>4 DEF Startup
  <1> QED BY <1>1, <1>2, <1>3 DEF Next

\* A peer that turns up was somewhere before or has its address reserved.
LEMMA PresentStep ==
  ASSUME BaseInv, Next, ~ \E p \in Peers : OperatorEdit(p)
  PROVE  Present' \subseteq Present \cup Reserved
  <1>0. ConfigOK  BY DEF BaseInv, TypeOK
  <1>1. CASE UNCHANGED configVars  BY <1>1 DEF configVars, Present
  <1>k. ASSUME pc \in {"edit", "apply"} PROVE op.key \in Peers
    BY <1>k DEF BaseInv, JobInv
  <1>a. ASSUME pc # "idle", op.kind \in Adds PROVE op.key \in Reserved
    BY <1>a DEF BaseInv, JobInv, HeldInv, Adds, Active, Reserved, MayExist
  <1>2. CASE EditOk
    <2>1. conf'.peers \subseteq conf.peers \cup Reserved /\ saved' = conf /\ live' = live
      <3>1. ASSUME op.kind \in Adds, WriteConf(With(conf, op.key)) PROVE conf'.peers \subseteq conf.peers \cup Reserved
        BY <1>0, <1>2, <3>1, <1>k, <1>a, WithFile DEF EditOk, WriteConf, ConfigOK
      <3>2. ASSUME NEW f \in Without(conf, op.key), WriteConf(f) PROVE conf'.peers \subseteq conf.peers
        BY <1>0, <3>2, WithoutFile DEF WriteConf, ConfigOK
      <3>3. saved' = conf /\ live' = live  BY <1>2 DEF EditOk, WriteConf
      <3> QED BY <1>2, <3>1, <3>2, <3>3 DEF EditOk
    <2> QED BY <2>1 DEF Present
  <1>3. CASE ApplyOk
    <2>1. conf' = conf /\ saved' = conf /\ live' \subseteq conf.peers \cup live \cup Reserved
      BY <1>3, <1>a DEF ApplyOk, ApplyAdd, ApplyRemove, AddedPeer, RemovedPeer
    <2> QED BY <2>1 DEF Present
  <1>4. CASE ApplyRaises
    <2>1. pc = "apply" /\ op.key \in Peers  BY <1>4, <1>k DEF ApplyRaises
    <2>2. AddFails(op.key) \/ RemoveFails(op.key)  BY <1>4 DEF ApplyRaises
    <2>3. conf' \in {saved, conf} /\ saved' = conf'  BY <1>0, <2>1, <2>2, FailedEdit
    <2>4. CASE op.kind \in Adds
      BY <1>0, <2>1, <2>2, <2>3, <2>4, <1>a, FailedEdit DEF Present
    <2>5. CASE op.kind \notin Adds
      <3>1. RemoveFails(op.key)  BY <1>4, <2>5 DEF ApplyRaises
      <3>2. live' \subseteq live \cup conf.peers \cup saved.peers
        BY <3>1, <2>3 DEF RemoveFails, HelperFails
      <3> QED BY <2>3, <3>2 DEF Present
    <2> QED BY <2>4, <2>5
  <1>5. CASE Crash  BY <1>5 DEF Crash, Present
  <1>6. CASE SyncOk  BY <1>6 DEF SyncOk, Present
  <1> QED BY <1>1, <1>2, <1>3, <1>4, <1>5, <1>6, ConfigSteps

\* Rows keep their address, and they are reserved until their key is revoked or deleted.
LEMMA ReservedStep ==
  ASSUME BaseInv, Next
  PROVE  \/ Create
         \/ addr' = addr /\ Reserved' = Reserved
         \/ /\ Finish /\ op.kind \in {"revoke", "delete"} /\ addr' = addr
            /\ Reserved' \subseteq Reserved /\ Reserved \ {op.key} \subseteq Reserved'
  <1> USE DEF BaseInv, TypeOK, JobInv, HeldInv, MayExist, Reserved
  <1>1. ASSUME Call PROVE Create \/ (addr' = addr /\ Reserved' = Reserved)
    <2>1. ASSUME NEW call, NEW k, Request(call, k) \/ Refuse(call, k) PROVE addr' = addr /\ Reserved' = Reserved
      BY <2>1 DEF Request, Refuse, Served
    <2>2. ASSUME NEW k \in Keys, Revoke(k) PROVE addr' = addr /\ Reserved' = Reserved
      BY <2>2 DEF Revoke, SetStatus
    <2>3. ASSUME NEW k \in Keys, Delete(k) PROVE addr' = addr /\ Reserved' = Reserved
      BY <2>3 DEF Delete, SetStatus, Rows, Statuses
    <2>4. ASSUME NEW k \in Keys, ManualReconcile(k) PROVE addr' = addr /\ Reserved' = Reserved
      BY <2>4 DEF ManualReconcile, SetStatus, MarkActive
    <2> QED BY <1>1, <2>1, <2>2, <2>3, <2>4 DEF Call
  <1>2. ASSUME EditOk \/ ApplyOk \/ EditRaises \/ ApplyRaises \/ FinishRaises
        PROVE  addr' = addr /\ Reserved' = Reserved
    BY <1>2 DEF EditOk, ApplyOk, EditRaises, ApplyRaises, FinishRaises, Raise, BootStops
  <1>3. ASSUME Undo \/ CompensateStatus PROVE addr' = addr /\ Reserved' = Reserved
    BY <1>3 DEF Undo, CompensateStatus, UndoStatus, SetStatus
  <1>4. ASSUME Finish, op.kind \in {"create", "settle"} PROVE addr' = addr /\ Reserved' = Reserved
    BY <1>4 DEF Finish, SetStatus, MarkActive
  <1>5. ASSUME Finish, op.kind \in {"revoke", "delete"}
        PROVE  addr' = addr /\ Reserved' \subseteq Reserved /\ Reserved \ {op.key} \subseteq Reserved'
    BY <1>5 DEF Finish, SetStatus
  <1>6. ASSUME Startup PROVE addr' = addr /\ Reserved' = Reserved
    <2>1. ASSUME NEW k \in Keys, BootSettle(k) PROVE addr' = addr /\ Reserved' = Reserved
      BY <2>1 DEF BootSettle, SetStatus, MarkActive
    <2>2. ASSUME NEW k \in Keys, BootResume(k) \/ BootNonLive(k) \/ BootRestore(k) \/ BootSync(k)
          PROVE  UNCHANGED <<status, addr, held>>
      BY <2>2 DEF BootResume, BootNonLive, BootRestore, BootSync, BootStops
    <2>3. ASSUME NEW p \in Peers, BootOrphan(p) \/ AmbiguousConf(p) \/ RuntimeOrphan(p)
          PROVE  UNCHANGED <<status, addr, held>>
      BY <2>3 DEF BootOrphan, AmbiguousConf, RuntimeOrphan, BootStops
    <2>4. ASSUME \/ BootStart \/ BootFailed \/ BootReadRaises \/ BootNonLiveStart \/ BootOrphansStart
                 \/ BootRestoreStart \/ BootRuntimeStart \/ BootDone
          PROVE  UNCHANGED <<status, addr, held>>
      BY <2>4 DEF BootStart, BootFailed, BootReadRaises, BootNonLiveStart, BootOrphansStart,
         BootRestoreStart, BootRuntimeStart, BootDone, NextStage, BootStops
    <2> QED BY <1>6, <2>1, <2>2, <2>3, <2>4 DEF Startup
  <1>7. ASSUME Crash \/ \E p \in Peers : OperatorEdit(p) PROVE UNCHANGED <<status, addr, held>>
    BY <1>7 DEF Crash, OperatorEdit, serviceVars
  <1>8. Finish => op.kind \in {"create", "settle", "revoke", "delete"}  BY DEF Finish
  <1> QED BY <1>1, <1>2, <1>3, <1>4, <1>5, <1>6, <1>7, <1>8 DEF Next, Step

-----------------------------------------------------------------------------
(* Addresses.                                                              *)

\* A key is created while the file is as the bot left it, on a row that has no peer, with an
\* address that nobody has.
LEMMA CreateStep ==
  ASSUME BaseInv, OwnedInv, Create
  PROVE  /\ ~tampered /\ tampered' = tampered /\ UNCHANGED configVars
         /\ \E k \in Keys, a \in FreeAddrs :
              /\ k \notin Reserved /\ k \notin Present
              /\ addr' = [addr EXCEPT ![k] = a] /\ Reserved' = Reserved \cup {k}
  <1>1. phase = "up" /\ ~degraded /\ tampered' = tampered /\ UNCHANGED configVars
    BY DEF Create, Served
  <1>2. ~tampered  BY <1>1 DEF BaseInv, CalmInv
  <1>3. PICK k \in Keys, a \in FreeAddrs :
           /\ status[k] = "absent" /\ status' = [status EXCEPT ![k] = "pending_apply"]
           /\ addr' = [addr EXCEPT ![k] = a] /\ held' = [held EXCEPT ![k] = TRUE]
    BY DEF Create, SetStatus
  <1>4. k \notin Reserved  BY <1>3 DEF Reserved, MayExist
  <1>5. Reserved' = Reserved \cup {k}  BY <1>3 DEF Reserved, MayExist, BaseInv, TypeOK
  <1> QED BY <1>1, <1>2, <1>3, <1>4, <1>5 DEF OwnedInv

\* An address that is free is neither reserved nor in the file.
LEMMA FreeAddr ==
  ASSUME BaseInv, NEW a \in FreeAddrs
  PROVE  \A p \in Reserved \cup conf.peers : Addr(p) # a
  BY DEF FreeAddrs, Reserved, Addr

\* No step gives two peers or reserving rows the same address: a new key's address is
\* neither in the rows nor in the file, and what is in the interface has a row.
LEMMA UniqueStep ==
  ASSUME BaseInv, OwnedInv, UniqueInv, Next, HandEdits => ~Reuse
  PROVE  UniqueInv'
  <1>0. ConfigOK  BY DEF BaseInv, TypeOK
  <1>1. CASE Create
    <2>1. ~tampered /\ UNCHANGED configVars  BY <1>1, CreateStep
    <2>2. PICK k \in Keys, a \in FreeAddrs :
              /\ k \notin Reserved /\ k \notin Present
              /\ addr' = [addr EXCEPT ![k] = a] /\ Reserved' = Reserved \cup {k}
      BY <1>1, CreateStep
    <2>3. Present \subseteq Reserved /\ Present' = Present
      BY <2>1 DEF OwnedInv, Present, configVars
    <2>4. \A p \in Reserved : Addr(p) # a  BY FreeAddr
    <2>5. \A p \in Reserved : Addr(p)' = Addr(p)  BY <2>2 DEF Addr, Reserved, BaseInv, TypeOK
    <2>6. Addr(k)' = a  BY <2>2 DEF Addr, BaseInv, TypeOK
    <2>7. \A p, q \in Reserved : p # q => Addr(p) # Addr(q)  BY DEF UniqueInv
    <2> QED BY <2>2, <2>3, <2>4, <2>5, <2>6, <2>7 DEF UniqueInv
  <1>2. CASE \E p \in Peers : OperatorEdit(p)
    <2>1. PICK p \in Peers : OperatorEdit(p)  BY <1>2
    <2>2. /\ addr' = addr /\ status' = status /\ held' = held /\ live' = live /\ saved' = conf'
          /\ HandEdits
      BY <2>1 DEF OperatorEdit, serviceVars
    <2>3. Reserved' = Reserved /\ \A q \in Peers : Addr(q)' = Addr(q)
      BY <2>2 DEF Reserved, Addr
    <2>4. CASE p \in conf.peers
      <3>1. conf'.peers \subseteq conf.peers  BY <1>0, <2>1, <2>4, WithoutFile DEF OperatorEdit, ConfigOK
      <3>2. Present' \cup Reserved' \subseteq Present \cup Reserved
        BY <3>1, <2>2, <2>3 DEF Present
      <3>3. Present \cup Reserved \subseteq Peers  BY <1>0 DEF Present, Reserved, ConfigOK, Files, Peers
      <3> QED BY <3>2, <3>3, <2>3 DEF UniqueInv
    <2>5. CASE p \notin conf.peers
      <3>1. /\ conf' = With(conf, p)
            /\ \A q \in Peers \ {p} : Addr(q) # Addr(p)
        BY <2>1, <2>2, <2>5 DEF OperatorEdit
      <3>2. conf'.peers = conf.peers \cup {p}  BY <1>0, <3>1, WithFile DEF ConfigOK
      <3>3. Present' \cup Reserved' \subseteq Present \cup Reserved \cup {p}
        BY <3>2, <2>2, <2>3 DEF Present
      <3>4. Present \cup Reserved \subseteq Peers  BY <1>0 DEF Present, Reserved, ConfigOK, Files, Peers
      <3> QED BY <3>1, <3>3, <3>4, <2>3 DEF UniqueInv
    <2> QED BY <2>4, <2>5
  <1>3. CASE ~Create /\ ~ \E p \in Peers : OperatorEdit(p)
    <2>1. addr' = addr /\ Reserved' \subseteq Reserved  BY <1>3, ReservedStep
    <2>2. Present' \subseteq Present \cup Reserved  BY <1>3, PresentStep
    <2>3. \A q : Addr(q)' = Addr(q)  BY <2>1 DEF Addr
    <2> QED BY <2>1, <2>2, <2>3 DEF UniqueInv
  <1> QED BY <1>1, <1>2, <1>3

\* remove_peer acts on file and interface before the row is written.
LEMMA RemovedStep ==
  ASSUME BaseInv, OwnedInv, RemovedInv, Next
  PROVE  RemovedInv'
  <1> USE DEF BaseInv, TypeOK, JobInv
  <1>1. SUFFICES ASSUME pc' = "finish", op'.kind \in {"revoke", "delete"}
                 PROVE  op'.key \notin conf'.peers \cup live'
    BY DEF RemovedInv
  <1>2. CASE ApplyOk
    <2>1. pc = "apply" /\ op' = op /\ op.key \notin conf.peers
      BY <1>1, <1>2 DEF ApplyOk, Idle, SavedInv, Adds
    <2>2. conf' = conf /\ op.key \notin live'
      BY <1>1, <1>2, <2>1 DEF ApplyOk, Adds, ApplyRemove, RemovedPeer
    <2> QED BY <2>1, <2>2
  <1>3. CASE \E k \in Keys : Delete(k)
    <2>1. PICK k \in Keys : Delete(k)  BY <1>3
    <2>2. op'.key = k /\ status[k] = "revoked" /\ UNCHANGED configVars
      BY <1>1, <2>1 DEF Delete, Rows, Statuses, MayExist
    <2>3. ~tampered  BY <2>1 DEF Delete, Served, CalmInv
    <2>4. k \notin Present  BY <2>2, <2>3 DEF OwnedInv, Reserved, MayExist
    <2> QED BY <2>2, <2>4 DEF Present, configVars
  <1>4. CASE pc = "finish" /\ op' = op /\ UNCHANGED configVars
    BY <1>1, <1>4 DEF RemovedInv, configVars
  <1>5. ASSUME Call PROVE (\E k \in Keys : Delete(k)) \/ (pc = "finish" /\ op' = op /\ UNCHANGED configVars)
    <2>0. helper' = helper  BY DEF Next
    <2> QED BY <1>1, <1>5, <2>0 DEF Call, Request, Refuse, Create, Revoke, ManualReconcile, Served, configVars
  <1>6. ASSUME Step PROVE ApplyOk
    <2>1. ~EditOk /\ ~EditRaises /\ ~ApplyRaises
      BY <1>1 DEF EditOk, EditRaises, ApplyRaises, Raise, BootStops, Idle
    <2> QED BY <1>1, <1>6, <2>1 DEF Step, Finish, FinishRaises, Undo, CompensateStatus, Idle
  <1>7. ~Startup
    <2>1. ASSUME NEW k \in Keys PROVE ~BootSettle(k) /\ ~BootResume(k) /\ ~BootNonLive(k) /\ ~BootRestore(k) /\ ~BootSync(k)
      BY <1>1 DEF BootSettle, BootResume, BootNonLive, BootRestore, BootSync, Look, Begin, BootStops, Idle
    <2>2. ASSUME NEW p \in Peers PROVE ~BootOrphan(p) /\ ~AmbiguousConf(p) /\ ~RuntimeOrphan(p)
      BY <1>1 DEF BootOrphan, AmbiguousConf, RuntimeOrphan, Look, Begin, BootStops, Idle
    <2>3. ~BootStart  BY <1>1 DEF BootStart
    <2> QED BY <1>1, <2>1, <2>2, <2>3 DEF Startup, BootFailed, BootReadRaises, BootNonLiveStart, BootOrphansStart,
         BootRestoreStart, BootRuntimeStart, BootDone, NextStage, BootStops, Idle
  <1>8. ~Crash /\ ~ \E p \in Peers : OperatorEdit(p)
    BY <1>1 DEF Crash, OperatorEdit, Idle, serviceVars
  <1> QED BY <1>2, <1>3, <1>4, <1>5, <1>6, <1>7, <1>8 DEF Next

-----------------------------------------------------------------------------
(* Startup.                                                                *)

\* The steps that a scan takes, or that begin one.  Anything else gives up or crashes.
LEMMA ScanSteps ==
  ASSUME BaseInv, Next, phase' \in Scans
  PROVE  /\ status' = status
         /\ \/ EditOk \/ ApplyOk
            \/ BootNonLiveStart \/ BootOrphansStart \/ BootRestoreStart \/ BootRuntimeStart
            \/ \E k \in Keys : BootNonLive(k) \/ BootRestore(k) \/ (BootSync(k) /\ SyncOk /\ Look("restore", k))
            \/ \E p \in Peers : BootOrphan(p) \/ (RuntimeOrphan(p) /\ Begin("strip", p))
         /\ \/ BootNonLiveStart
            \/ phase \in Scans
  <1> USE DEF BaseInv, TypeOK, JobInv, Scans
  <1>1. ~Call
    BY DEF Call, Request, Refuse, Create, Revoke, Delete, ManualReconcile, Served
  <1>2. ASSUME Step
        PROVE  status' = status /\ phase \in Scans /\ (EditOk \/ ApplyOk)
    <2>1. ASSUME EditOk \/ ApplyOk PROVE status' = status /\ phase' = phase
      BY <2>1 DEF EditOk, ApplyOk
    <2>2. ~EditRaises /\ ~ApplyRaises
      <3>1. ASSUME pc \in {"edit", "apply"}, Raise PROVE FALSE
        BY <3>1 DEF Raise, BootStops, Kinds
      <3> QED BY <3>1 DEF EditRaises, ApplyRaises
    <2>3. ~Finish /\ ~FinishRaises /\ ~Undo /\ ~CompensateStatus
      BY DEF Finish, FinishRaises, Undo, CompensateStatus
    <2> QED BY <1>2, <2>1, <2>2, <2>3 DEF Step
  <1>3. ~Crash /\ ~ \E p \in Peers : OperatorEdit(p)
    BY DEF Crash, OperatorEdit, serviceVars
  <1>4. ASSUME NEW k \in Keys, \/ BootSettle(k) \/ BootResume(k) \/ BootNonLive(k)
                               \/ BootRestore(k) \/ BootSync(k)
        PROVE  /\ status' = status /\ phase \in Scans
               /\ BootNonLive(k) \/ BootRestore(k) \/ (BootSync(k) /\ SyncOk /\ Look("restore", k))
    BY <1>4 DEF BootSettle, BootResume, BootNonLive, BootRestore, BootSync, Look, BootStops
  <1>5. ASSUME NEW p \in Peers, BootOrphan(p) \/ AmbiguousConf(p) \/ RuntimeOrphan(p)
        PROVE  /\ status' = status /\ phase \in Scans
               /\ BootOrphan(p) \/ (RuntimeOrphan(p) /\ Begin("strip", p))
    BY <1>5 DEF BootOrphan, AmbiguousConf, RuntimeOrphan, Look, BootStops
  <1>6. ASSUME \/ BootStart \/ BootFailed \/ BootReadRaises \/ BootNonLiveStart \/ BootOrphansStart
               \/ BootRestoreStart \/ BootRuntimeStart \/ BootDone
        PROVE  /\ status' = status /\ (BootNonLiveStart \/ phase \in Scans)
               /\ BootNonLiveStart \/ BootOrphansStart \/ BootRestoreStart \/ BootRuntimeStart
    BY <1>6 DEF BootStart, BootFailed, BootReadRaises, BootNonLiveStart, BootOrphansStart,
       BootRestoreStart, BootRuntimeStart, BootDone, NextStage, BootStops
  <1> QED BY <1>1, <1>2, <1>3, <1>4, <1>5, <1>6 DEF Next, Startup

\* A strip that is applied has taken the peer out of file and interface, and nothing comes in.
LEMMA StripStep ==
  ASSUME BaseInv, EditOk \/ ApplyOk, op.kind = "strip"
  PROVE  /\ conf'.peers \cup live' \subseteq conf.peers \cup live /\ conf'.peers \subseteq conf.peers
         /\ UNCHANGED <<status, phase, todo>>
         /\ \/ op'.key = op.key
            \/ op.key \notin conf'.peers \cup live'
  <1> USE DEF BaseInv, TypeOK, ConfigOK, Adds
  <1>1. CASE EditOk
    <2>1. PICK f \in Without(conf, op.key) : WriteConf(f)  BY <1>1 DEF EditOk
    <2>2. f.peers = conf.peers \ {op.key}  BY WithoutFile
    <2> QED BY <1>1, <2>1, <2>2 DEF EditOk, WriteConf
  <1>2. CASE ApplyOk
    <2>1. op.key \notin conf.peers  BY <1>2 DEF ApplyOk, SavedInv
    <2> QED BY <1>2, <2>1 DEF ApplyOk, ApplyRemove, RemovedPeer
  <1> QED BY <1>1, <1>2

\* A restore that is applied has put the peer in file and interface; nothing active is lost.
LEMMA RestoreStep ==
  ASSUME BaseInv, EditOk \/ ApplyOk, op.kind = "restore"
  PROVE  /\ conf'.peers \cup live' \subseteq conf.peers \cup live \cup {op.key}
         /\ conf.peers \cap live \subseteq conf'.peers \cap live'
         /\ conf'.peers \subseteq conf.peers \cup {op.key}
         /\ UNCHANGED <<status, phase, todo>>
         /\ \/ op'.key = op.key
            \/ op.key \in conf'.peers \cap live'
  <1> USE DEF BaseInv, TypeOK, ConfigOK, Adds
  <1>1. CASE EditOk
    <2>1. op.key \in Peers  BY <1>1 DEF EditOk, JobInv
    <2>2. conf'.peers = conf.peers \cup {op.key}
      BY <1>1, <2>1, WithFile DEF EditOk, WriteConf
    <2> QED BY <1>1, <2>2 DEF EditOk, WriteConf
  <1>2. CASE ApplyOk
    <2>1. op.key \in conf.peers  BY <1>2 DEF ApplyOk, SavedInv
    <2> QED BY <1>2, <2>1 DEF ApplyOk, ApplyAdd, AddedPeer
  <1> QED BY <1>1, <1>2

\* A row that is found for an orphan in the file is the orphan's own: no other row that still
\* has its address shares it.
LEMMA OwnHistory ==
  ASSUME BaseInv, UniqueInv, NEW p \in conf.peers, NEW h \in Historical(p)
  PROVE  h = p
  <1>1. CASE p \in Keys /\ status[p] \in Rows  BY <1>1 DEF Historical
  <1>2. CASE ~(p \in Keys /\ status[p] \in Rows)
    <2>1. h \in Keys /\ status[h] \in Rows /\ held[h] /\ addr[h] = Addr(p)
      BY <1>2 DEF Historical
    <2>2. h \in Reserved
      BY <2>1 DEF Reserved, BaseInv, HeldInv, TypeOK, Rows, Statuses, MayExist
    <2>3. Addr(h) = Addr(p)  BY <2>1 DEF Addr
    <2> QED BY <2>2, <2>3 DEF UniqueInv, Present
  <1> QED BY <1>1, <1>2

\* An active key is found in the file only if its own peer is there.
LEMMA FoundActive ==
  ASSUME UniqueInv, BaseInv, NEW k \in Active, Found(k)
  PROVE  k \in conf.peers
  <1>1. PICK p \in conf.peers : p = k \/ Addr(p) = addr[k]  BY DEF Found
  <1>2. k \in Reserved /\ Addr(k) = addr[k]  BY DEF Active, Reserved, BaseInv, HeldInv, MayExist, Addr
  <1> QED BY <1>1, <1>2 DEF UniqueInv, Present

\* In the scans a strip and a restore are the only work, each in its own stages.
LEMMA ScanWork ==
  ASSUME BaseInv, phase \in Scans, EditOk \/ ApplyOk
  PROVE  \/ op.kind = "strip" /\ phase \in {"nonlive", "orphans", "runtime"}
         \/ op.kind = "restore" /\ phase = "restore" /\ op.key \in Active
  BY DEF BaseInv, JobInv, TypeOK, Kinds, Scans, EditOk, ApplyOk

\* The stages keep their invariants: each scan looks at everything that could break the next.
LEMMA ScanInvStep ==
  ASSUME BaseInv, UniqueInv, RowPeersInv, FilePeersInv, RestoredInv, RuntimeInv, Next
  PROVE  RowPeersInv' /\ FilePeersInv' /\ RestoredInv' /\ RuntimeInv'
  <1>1. CASE phase' \notin Scans
    BY <1>1 DEF Scans, RowPeersInv, FilePeersInv, RestoredInv, RuntimeInv
  <1> SUFFICES ASSUME phase' \in Scans PROVE RowPeersInv' /\ FilePeersInv' /\ RestoredInv' /\ RuntimeInv'
    BY <1>1
  <1>2. status' = status /\ Active' = Active  BY ScanSteps DEF Active
  <1>3. CASE (EditOk \/ ApplyOk) /\ phase \in Scans
    <2>1. CASE op.kind = "strip"
      <3>1. phase \in {"nonlive", "orphans", "runtime"}  BY <1>3, <2>1, ScanWork
      <3>2. pc # "idle"  BY <1>3 DEF EditOk, ApplyOk
      <3>3. phase # "runtime"  BY <3>2 DEF RuntimeInv
      <3>4. /\ conf'.peers \cup live' \subseteq conf.peers \cup live /\ conf'.peers \subseteq conf.peers
            /\ phase' = phase /\ todo' = todo
            /\ op'.key = op.key \/ op.key \notin conf'.peers \cup live'
        BY <1>3, <2>1, StripStep
      <3>5. RowPeersInv'  BY <1>2, <3>1, <3>4 DEF RowPeersInv
      <3>6. FilePeersInv'  BY <1>2, <3>1, <3>3, <3>4 DEF FilePeersInv
      <3> QED BY <3>1, <3>3, <3>4, <3>5, <3>6 DEF RestoredInv, RuntimeInv
    <2>2. CASE op.kind = "restore"
      <3>1. phase = "restore" /\ op.key \in Active  BY <1>3, <2>2, ScanWork
      <3>2. /\ conf'.peers \cup live' \subseteq conf.peers \cup live \cup {op.key}
            /\ conf.peers \cap live \subseteq conf'.peers \cap live'
            /\ conf'.peers \subseteq conf.peers \cup {op.key}
            /\ phase' = phase /\ todo' = todo
            /\ op'.key = op.key \/ op.key \in conf'.peers \cap live'
        BY <1>3, <2>2, RestoreStep
      <3>3. RowPeersInv'  BY <1>2, <3>1, <3>2 DEF RowPeersInv
      <3>4. FilePeersInv'  BY <1>2, <3>1, <3>2 DEF FilePeersInv
      <3>5. RestoredInv'  BY <1>2, <3>1, <3>2 DEF RestoredInv
      <3> QED BY <3>1, <3>2, <3>3, <3>4, <3>5 DEF RuntimeInv
    <2> QED BY <1>3, <2>1, <2>2, ScanWork
  <1>4. CASE BootNonLiveStart
    <2>1. /\ UNCHANGED configVars /\ phase' = "nonlive" /\ op' = op
          /\ todo' = {k \in (conf.peers \cup live) \cap Keys : status[k] \in Rows \ {"active"}}
      BY <1>4 DEF BootNonLiveStart, NextStage
    <2> QED BY <1>2, <2>1 DEF RowPeersInv, FilePeersInv, RestoredInv, RuntimeInv, configVars, Active
  <1>5. CASE BootOrphansStart
    <2>1. /\ UNCHANGED configVars /\ phase = "nonlive" /\ phase' = "orphans" /\ op' = op
          /\ todo = {} /\ pc = "idle"
          /\ todo' = {p \in conf.peers : p \notin Active /\ \A k \in Active : addr[k] # Addr(p)}
      BY <1>5 DEF BootOrphansStart, NextStage
    <2>2. op.key \notin Keys  BY <2>1, AwgKeysAssumption DEF BaseInv, JobInv, Peers
    <2>3. RowPeersInv'  BY <1>2, <2>1, <2>2 DEF RowPeersInv, configVars
    <2>4. \A p \in conf.peers \ Active, k \in Active : addr[k] # Addr(p)
      <3>1. ASSUME NEW p \in conf.peers \ Active, NEW k \in Active PROVE addr[k] # Addr(p)
        <4>1. k \in Reserved /\ Addr(k) = addr[k]
          BY DEF Active, Reserved, BaseInv, HeldInv, MayExist, Addr
        <4> QED BY <4>1 DEF UniqueInv, Present
      <3> QED BY <3>1
    <2>5. FilePeersInv'  BY <1>2, <2>1, <2>4 DEF FilePeersInv, configVars
    <2> QED BY <2>1, <2>3, <2>5 DEF RestoredInv, RuntimeInv
  <1>6. CASE BootRestoreStart
    <2>1. /\ UNCHANGED configVars /\ phase = "orphans" /\ phase' = "restore" /\ op' = op
          /\ todo = {} /\ pc = "idle"
          /\ todo' = {k \in Active : ~Found(k) \/ k \notin live}
      BY <1>6 DEF BootRestoreStart, NextStage
    <2>2. op.key \notin conf.peers
      BY <2>1, AwgKeysAssumption DEF BaseInv, JobInv, TypeOK, ConfigOK, Files
    <2>3. RowPeersInv' /\ FilePeersInv'  BY <1>2, <2>1, <2>2 DEF RowPeersInv, FilePeersInv, configVars
    <2>4. RestoredInv'  BY <1>2, <2>1, FoundActive DEF RestoredInv, configVars
    <2> QED BY <2>1, <2>3, <2>4 DEF RuntimeInv
  <1>7. CASE BootRuntimeStart
    <2>1. /\ UNCHANGED configVars /\ phase = "restore" /\ phase' = "runtime" /\ op' = op
          /\ todo = {} /\ pc = "idle" /\ pc' = pc
          /\ todo' = live \ (Active \cup conf.peers)
      BY <1>7 DEF BootRuntimeStart, NextStage
    <2>2. op.key \notin Active  BY <2>1, AwgKeysAssumption DEF BaseInv, JobInv, Active, Peers
    <2>3. RowPeersInv' /\ FilePeersInv'  BY <1>2, <2>1 DEF RowPeersInv, FilePeersInv, configVars
    <2>4. RestoredInv'  BY <1>2, <2>1, <2>2 DEF RestoredInv, configVars
    <2>5. RuntimeInv'  BY <1>2, <2>1 DEF RuntimeInv, FilePeersInv, configVars
    <2> QED BY <2>3, <2>4, <2>5
  <1>8. CASE \E k \in Keys : BootNonLive(k)
    <2>1. PICK k \in Keys : BootNonLive(k)  BY <1>8
    <2>2. /\ UNCHANGED configVars /\ phase = "nonlive" /\ phase' = phase /\ pc = "idle"
          /\ op'.key = k /\ todo' = todo \ {k}
      BY <2>1 DEF BootNonLive, Look, Begin
    <2>3. op.key \notin Keys  BY <2>2, AwgKeysAssumption DEF BaseInv, JobInv, Peers
    <2>4. RowPeersInv'  BY <1>2, <2>2, <2>3 DEF RowPeersInv, configVars
    <2> QED BY <2>2, <2>4 DEF FilePeersInv, RestoredInv, RuntimeInv
  <1>9. CASE \E k \in Keys : BootRestore(k)
    <2>1. PICK k \in Keys : BootRestore(k)  BY <1>9
    <2>2. /\ UNCHANGED configVars /\ phase = "restore" /\ phase' = phase /\ pc = "idle"
          /\ op'.key = k /\ todo' = todo \ {k}
      BY <2>1 DEF BootRestore, Look, Begin
    <2>3. op.key \notin Active  BY <2>2, AwgKeysAssumption DEF BaseInv, JobInv, Active, Peers
    <2>4. RowPeersInv' /\ FilePeersInv'  BY <1>2, <2>2 DEF RowPeersInv, FilePeersInv, configVars
    <2>5. RestoredInv'  BY <1>2, <2>2, <2>3 DEF RestoredInv, configVars
    <2> QED BY <2>2, <2>4, <2>5 DEF RuntimeInv
  <1>10. CASE \E k \in Keys : BootSync(k) /\ SyncOk /\ Look("restore", k)
    <2>1. PICK k \in Keys : BootSync(k) /\ SyncOk /\ Look("restore", k)  BY <1>10
    <2>2. /\ conf' = conf /\ live' = conf.peers /\ phase = "restore" /\ todo' = todo \ {k}
          /\ pc = "idle" /\ (k \in Active => k \in conf.peers)
      BY <2>1, FoundActive DEF BootSync, SyncOk, Look
    <2>3. phase' = "restore" /\ op' = op
      BY <2>1, <2>2 DEF BootSync, BootStops, Scans
    <2>4. RowPeersInv' /\ FilePeersInv'  BY <1>2, <2>2, <2>3 DEF RowPeersInv, FilePeersInv
    <2>5. RestoredInv'  BY <1>2, <2>2, <2>3 DEF RestoredInv
    <2> QED BY <2>3, <2>4, <2>5 DEF RuntimeInv
  <1>11. CASE \E p \in Peers : BootOrphan(p)
    <2>1. PICK p \in Peers : BootOrphan(p)  BY <1>11
    <2>2. /\ UNCHANGED configVars /\ phase = "orphans" /\ phase' = phase /\ pc = "idle"
          /\ todo' = todo \ {p}
          /\ op'.key = p \/ op'.key \in Historical(p)
      BY <2>1 DEF BootOrphan, Look, Begin
    <2>3. p \in conf.peers => op'.key = p  BY <2>2, OwnHistory
    <2>4. op.key \notin conf.peers
      BY <2>2, AwgKeysAssumption DEF BaseInv, JobInv, TypeOK, ConfigOK, Files
    <2>5. RowPeersInv'  BY <1>2, <2>2 DEF RowPeersInv, configVars
    <2>6. FilePeersInv'  BY <1>2, <2>2, <2>3, <2>4 DEF FilePeersInv, configVars
    <2> QED BY <2>2, <2>5, <2>6 DEF RestoredInv, RuntimeInv
  <1>12. ASSUME NEW p \in Peers, RuntimeOrphan(p), Begin("strip", p) PROVE FALSE
    <2>1. phase = "runtime" /\ p \in todo  BY <1>12 DEF RuntimeOrphan
    <2>2. p \in Keys /\ status[p] \in Rows
      BY <1>12 DEF RuntimeOrphan, Begin, BootStops, Idle
    <2> QED BY <2>1, <2>2 DEF RuntimeInv, RowPeersInv
  <1> QED BY <1>3, <1>4, <1>5, <1>6, <1>7, <1>8, <1>9, <1>10, <1>11, <1>12, ScanSteps DEF EditOk, ApplyOk

-----------------------------------------------------------------------------
(* The theorems.                                                           *)

\* What the last scan has left when startup ends clean: exactly the active keys.
LEMMA BootDoneExact ==
  ASSUME BaseInv, PeerInv, BootDone
  PROVE  conf.peers = Active /\ live = Active /\ saved = conf /\ UNCHANGED configVars /\ status' = status
  <1>1. phase = "runtime" /\ todo = {} /\ pc = "idle" /\ UNCHANGED configVars /\ status' = status
    BY DEF BootDone, NextStage
  <1>2. conf.peers = Active /\ live = Active
    BY <1>1 DEF PeerInv, FilePeersInv, RestoredInv, RuntimeInv
  <1> QED BY <1>1, <1>2 DEF BaseInv, SavedInv

\* Peers keep their rows: a row stops reserving only when its peer is gone, and a clean start
\* after hand edits has left only peers of active keys.
LEMMA OwnedStep ==
  ASSUME BaseInv, PeerInv, Next
  PROVE  OwnedInv'
  <1> SUFFICES ASSUME ~tampered' PROVE Present' \subseteq Reserved'
    BY DEF OwnedInv
  <1>0. ~ \E p \in Peers : OperatorEdit(p)  BY DEF OperatorEdit
  <1>1. CASE BootDone
    <2>1. conf.peers = Active /\ live = Active /\ saved = conf /\ UNCHANGED configVars
      BY <1>1, BootDoneExact
    <2>2. UNCHANGED <<status, held>>  BY <1>1 DEF BootDone, NextStage
    <2>3. Active \subseteq Reserved /\ Reserved' = Reserved
      BY <2>2 DEF Active, Reserved, BaseInv, HeldInv, MayExist
    <2> QED BY <2>1, <2>3 DEF Present, configVars
  <1>2. CASE ~BootDone
    <2>1. tampered' = tampered
      <3>1. ASSUME Call PROVE tampered' = tampered
        BY <3>1 DEF Call, Request, Refuse, Create, Revoke, Delete, ManualReconcile, Served
      <3>2. ASSUME Step PROVE tampered' = tampered
        BY <3>2 DEF Step, EditOk, EditRaises, ApplyOk, ApplyRaises, Raise, BootStops, Finish,
           FinishRaises, Undo, CompensateStatus
      <3>3. ASSUME Startup PROVE tampered' = tampered
        BY <1>2, <3>3 DEF Startup, BootStart, BootFailed, BootReadRaises, BootNonLiveStart,
           BootOrphansStart, BootRestoreStart, BootRuntimeStart, BootStops, BootSettle, BootResume,
           BootNonLive, BootRestore, BootSync, BootOrphan, AmbiguousConf, RuntimeOrphan
      <3> QED BY <1>0, <3>1, <3>2, <3>3 DEF Next, Crash
    <2>2. Present \subseteq Reserved  BY <2>1 DEF PeerInv, OwnedInv
    <2>3. Present' \subseteq Reserved  BY <1>0, <2>2, PresentStep
    <2>4. CASE Create
      BY <2>3, <2>4, CreateStep DEF PeerInv
    <2>5. CASE Finish /\ op.kind \in {"revoke", "delete"} /\ Reserved \ {op.key} \subseteq Reserved'
      <3>1. op.key \notin conf.peers \cup live /\ saved = conf /\ UNCHANGED configVars
        BY <2>5, ConfigSteps DEF Finish, PeerInv, RemovedInv, BaseInv, SavedInv, EditOk, ApplyOk,
           ApplyRaises, Crash, OperatorEdit, BootSync, Look, configVars
      <3> QED BY <2>3, <2>5, <3>1 DEF Present, configVars
    <2> QED BY <2>3, <2>4, <2>5, ReservedStep
  <1> QED BY <1>1, <1>2

\* The invariant behind the next three theorems.
THEOREM PeersHold == ASSUME HandEdits => ~Reuse PROVE Spec => []PeerInv
  <1>1. Init => PeerInv
    BY DEF Init, ConfigInit, NoPeers, NoOp, PeerInv, OwnedInv, UniqueInv, RemovedInv, RowPeersInv,
       FilePeersInv, RestoredInv, RuntimeInv, Present, Reserved, MayExist
  <1>2. BaseInv /\ PeerInv /\ Next => PeerInv'
    BY OwnedStep, UniqueStep, RemovedStep, ScanInvStep DEF PeerInv
  <1>3. PeerInv /\ UNCHANGED vars => PeerInv'
    BY DEF PeerInv, OwnedInv, UniqueInv, RemovedInv, RowPeersInv, FilePeersInv, RestoredInv,
       RuntimeInv, Present, Reserved, Active, Addr, vars, configVars, serviceVars
  <1> QED BY <1>1, <1>2, <1>3, Base, PTL DEF Spec

\* A key that is revoked, deleted or not issued has no peer, in the file or in the interface.
THEOREM NoGhost == ASSUME HandEdits => ~Reuse PROVE Spec => []NoGhostPeer
  <1>1. PeerInv => NoGhostPeer
    BY DEF PeerInv, OwnedInv, Present, Reserved, MayExist, NoGhostPeer, Dead
  <1> QED BY <1>1, PeersHold, PTL

\* Two peers never have the same address, although addresses are handed out again.
THEOREM AddressesUnique == ASSUME HandEdits => ~Reuse PROVE Spec => []AddressUnique
  <1>1. PeerInv => AddressUnique
    BY DEF PeerInv, UniqueInv, Present, AddressUnique
  <1> QED BY <1>1, PeersHold, PTL

\* A startup that ends clean leaves file and interface with the peers of exactly the active
\* keys, whatever the operator did to the file before.
THEOREM AwgCleanStart == ASSUME HandEdits => ~Reuse PROVE Spec => CleanStartIsExact
  <1>1. ASSUME BaseInv, PeerInv, [Next]_vars, CleanStart
        PROVE  conf'.peers = Active /\ live' = Active
    <2> USE <1>1 DEF CleanStart
    <2>1. Next  BY DEF vars, serviceVars
    <2>2. ~Call
      BY DEF Call, Request, Refuse, Create, Revoke, Delete, ManualReconcile, Served
    <2>3. ~Step
      BY DEF Step, EditOk, EditRaises, ApplyOk, ApplyRaises, Raise, BootStops, Finish, FinishRaises,
         Undo, CompensateStatus
    <2>4. ~Crash /\ ~ \E p \in Peers : OperatorEdit(p)  BY DEF Crash, OperatorEdit, serviceVars
    <2>5. BootDone
      BY <2>1, <2>2, <2>3, <2>4 DEF Next, Startup, BootStart, BootFailed, BootReadRaises, BootNonLiveStart,
         BootOrphansStart, BootRestoreStart, BootRuntimeStart, NextStage, BootStops, BootSettle, BootResume,
         BootNonLive, BootRestore, BootSync, BootOrphan, AmbiguousConf, RuntimeOrphan, Look
    <2> QED BY <2>5, BootDoneExact DEF configVars
  <1> QED BY <1>1, Base, PeersHold, PTL DEF Spec, CleanStartIsExact

-----------------------------------------------------------------------------
(* The service keeps the promise of KeyLife.                               *)

\* The file that an edit in flight would put back differs from the file in one peer, a create
\* reaches its last write with its peer in the file, and what startup resumes was in doubt.
EditInv ==
    /\ pc = "apply" => conf.peers \ {op.key} = saved.peers \ {op.key}
    /\ pc = "finish" /\ op.kind = "create" => op.key \in conf.peers
    /\ op.kind = "revoke" /\ phase # "up" => op.prev = "pending_revoke"

\* Every step keeps EditInv.
LEMMA EditStep ==
  ASSUME BaseInv, EditInv, [Next]_vars
  PROVE  EditInv'
  <1>1. CASE UNCHANGED vars  BY <1>1 DEF vars, configVars, serviceVars, EditInv
  <1>2. CASE EditOk
    <2>1. conf'.peers \ {op.key} = conf.peers \ {op.key} /\ saved' = conf
      <3>1. ASSUME op.kind \in Adds, WriteConf(With(conf, op.key))
            PROVE  conf'.peers \ {op.key} = conf.peers \ {op.key} /\ saved' = conf
        BY <3>1 DEF WriteConf, With
      <3>2. ASSUME NEW f \in Without(conf, op.key), WriteConf(f)
            PROVE  conf'.peers \ {op.key} = conf.peers \ {op.key} /\ saved' = conf
        BY <3>2, WithoutFile DEF WriteConf, BaseInv, TypeOK, ConfigOK
      <3> QED BY <1>2, <3>1, <3>2 DEF EditOk
    <2> QED BY <1>2, <2>1 DEF EditOk, EditInv
  <1>3. CASE ApplyOk
    <2>1. pc = "apply" /\ conf' = conf /\ UNCHANGED phase
      BY <1>3 DEF ApplyOk, ApplyAdd, ApplyRemove
    <2>2. pc' # "apply" /\ (op' = op \/ op'.kind = "none")  BY <1>3 DEF ApplyOk, Idle, NoOp
    <2>3. op.kind = "create" => op.key \in conf.peers  BY <2>1 DEF BaseInv, SavedInv, Adds
    <2> QED BY <2>1, <2>2, <2>3 DEF EditInv
  <1>4. CASE EditRaises \/ ApplyRaises
    <2>1. Raised  BY <1>4, RaiseStep DEF EditRaises, ApplyRaises
    <2> QED BY <2>1 DEF Raised, Idle, NoOp, EditInv
  <1>5. CASE Finish \/ FinishRaises \/ Undo \/ CompensateStatus
    <2>1. CASE Finish \/ Undo \/ CompensateStatus
      BY <2>1 DEF Finish, Undo, CompensateStatus, Idle, NoOp, EditInv
    <2>2. CASE FinishRaises
      <3>1. CASE op.kind = "create"
        <4>1. op'.kind = "comp" /\ pc' = "edit"  BY <2>2, <3>1 DEF FinishRaises, BaseInv, TypeOK
        <4> QED BY <4>1 DEF EditInv
      <3>2. CASE op.kind # "create"
        BY <2>2, <3>2 DEF FinishRaises, Idle, NoOp, EditInv
      <3> QED BY <3>1, <3>2
    <2> QED BY <1>5, <2>1, <2>2
  <1>6. CASE Call
    <2>1. CASE \E call \in Calls, k \in Keys \cup {NoKey} : Request(call, k) \/ Refuse(call, k)
      BY <2>1 DEF Request, Refuse, Served, EditInv, configVars
    <2>2. CASE Create  BY <2>2 DEF Create, Served, EditInv
    <2>3. CASE \E k \in Keys : Revoke(k) \/ Delete(k) \/ ManualReconcile(k)
      BY <2>3 DEF Revoke, Delete, ManualReconcile, Served, EditInv, configVars
    <2> QED BY <1>6, <2>1, <2>2, <2>3 DEF Call
  <1>7. CASE Startup
    <2>1. CASE BootStart \/ BootFailed \/ BootReadRaises \/ BootNonLiveStart \/ BootOrphansStart
               \/ BootRestoreStart \/ BootRuntimeStart \/ BootDone
      BY <2>1 DEF BootStart, BootFailed, BootReadRaises, BootNonLiveStart, BootOrphansStart, BootRestoreStart,
         BootRuntimeStart, BootDone, NextStage, BootStops, Idle, NoOp, EditInv, BaseInv, JobInv
    <2>2. CASE \E k \in Keys : BootSettle(k) \/ BootResume(k) \/ BootNonLive(k) \/ BootRestore(k) \/ BootSync(k)
      BY <2>2 DEF BootSettle, BootResume, BootNonLive, BootRestore, BootSync, Look, Begin, BootStops, Idle, NoOp,
         EditInv, BaseInv, JobInv
    <2>3. CASE \E p \in Peers : BootOrphan(p) \/ AmbiguousConf(p) \/ RuntimeOrphan(p)
      BY <2>3 DEF BootOrphan, AmbiguousConf, RuntimeOrphan, Look, Begin, BootStops, Idle, NoOp, EditInv,
         BaseInv, JobInv
    <2> QED BY <1>7, <2>1, <2>2, <2>3 DEF Startup
  <1>8. CASE Crash  BY <1>8 DEF Crash, Idle, NoOp, EditInv
  <1>9. CASE \E p \in Peers : OperatorEdit(p)
    BY <1>9 DEF OperatorEdit, serviceVars, EditInv, BaseInv, JobInv
  <1> QED BY <1>1, <1>2, <1>3, <1>4, <1>5, <1>6, <1>7, <1>8, <1>9 DEF Next, Step

-----------------------------------------------------------------------------
(* How the lives follow the steps.                                         *)

\* A key keeps its life when its row and the call that could give it back stay.
LEMMA SameLife ==
  ASSUME NEW k \in Keys, status'[k] = status[k],
         status[k] = "pending_revoke" =>
           \A from \in {{"active"}, Issuing} : CanGiveBack(k, from)' <=> CanGiveBack(k, from)
  PROVE  Life(k)' = Life(k)
  <1>1. CASE status[k] # "pending_revoke"  BY <1>1 DEF Life
  <1>2. CASE status[k] = "pending_revoke"
    <2>1. /\ CanGiveBack(k, {"active"})' <=> CanGiveBack(k, {"active"})
          /\ CanGiveBack(k, Issuing)' <=> CanGiveBack(k, Issuing)
      BY <1>2
    <2> QED BY <1>2, <2>1 DEF Life, Issuing
  <1> QED BY <1>1, <1>2

\* The call that has the lock is no revocation that could be taken back.
NoWay == op.kind = "revoke" => pc \notin {"edit", "apply", "undo"} \/ op.prev \notin {"active"} \cup Issuing

\* Without a way back, before and after, the rows say it all.
LEMMA NoWayLife ==
  ASSUME NoWay, NoWay'
  PROVE  \A k \in Keys : status'[k] = status[k] => Life(k)' = Life(k)
  BY SameLife DEF NoWay, CanGiveBack

\* The call that goes on keeps every way back.
LEMMA SameCall ==
  ASSUME UNCHANGED <<status, op>>,
         pc \in {"edit", "apply", "undo"} /\ pc' \in {"edit", "apply", "undo"}
  PROVE  \A k \in Keys : Life(k)' = Life(k)
  BY SameLife DEF CanGiveBack

\* What a life says of the row
LEMMA LifeOfRow ==
  ASSUME NEW k \in Keys, TypeOK
  PROVE  /\ Life(k) = "none" <=> status[k] = "absent"
         /\ Life(k) = "issuing" <=> status[k] \in Issuing
         /\ Life(k) = "active" <=> status[k] = "active"
         /\ Life(k) = "revoked" <=> status[k] = "revoked"
         /\ Life(k) = "gone" <=> status[k] = "gone"
         /\ status[k] \in {"pending_delete", "delete_failed"} => Life(k) = "doomed"
         /\ status[k] = "pending_revoke" /\ ~CanGiveBack(k, {"active"}) /\ ~CanGiveBack(k, Issuing)
              => Life(k) = "doomed"
         /\ status[k] = "pending_revoke" => Life(k) \in {"closing", "cancelling", "doomed"}
  BY DEF TypeOK, Statuses, Life, Issuing

\* Without a way back a life is that of its row.
LEMMA RowLife ==
  ASSUME NEW k \in Keys, TypeOK, NoWay
  PROVE  Life(k) = CASE status[k] = "absent" -> "none"
                     [] status[k] \in Issuing -> "issuing"
                     [] status[k] \in {"active", "revoked", "gone"} -> status[k]
                     [] OTHER -> "doomed"
  BY DEF TypeOK, Statuses, Life, Issuing, CanGiveBack, NoWay

-----------------------------------------------------------------------------
(* The steps of the promise.                                               *)

\* One step of the promise, or none
Keeps == Promise!Next \/ UNCHANGED Promise!vars

\* A step that changes no life, no peer and nothing of the world is none of the promise.
LEMMA Stutters ==
  ASSUME \A k \in Keys : Life(k)' = Life(k), conf'.peers \cap Keys = conf.peers \cap Keys,
         phase' = "up" <=> phase = "up", UNCHANGED <<degraded, tampered>>
  PROVE  Keeps
  <1>1. [k \in Keys |-> Life(k)]' = [k \in Keys |-> Life(k)]  OBVIOUS
  <1> QED BY <1>1 DEF Keeps, Promise!vars, Promise!world

\* One key turns from one life to another.
LEMMA Turns ==
  ASSUME NEW k \in Keys, NEW from, NEW to, Life(k) \in from, Life(k)' = to,
         \A j \in Keys \ {k} : Life(j)' = Life(j), UNCHANGED <<conf, phase, degraded, tampered>>
  PROVE  Promise!Becomes(k, from, to)
  <1>1. [j \in Keys |-> Life(j)]' = [[j \in Keys |-> Life(j)] EXCEPT ![k] = to]  OBVIOUS
  <1> QED BY <1>1 DEF Promise!Becomes, Promise!world

\* A turn of one key is a step.
LEMMA Handled ==
  ASSUME NEW k \in Keys, Promise!Handle(k)
  PROVE  Keeps
  BY DEF Keeps, Promise!Next

\* The file changes in one peer, within what an edit may do.
LEMMA EditsOne ==
  ASSUME TypeOK, NEW k \in Keys, \A j \in Keys : Life(j)' = Life(j),
         conf'.peers \ {k} = conf.peers \ {k},
         k \in conf'.peers /\ ~tampered => status[k] \notin {"absent", "revoked", "gone"},
         k \notin conf'.peers /\ phase = "up" => status[k] # "active",
         phase = "up" => ~degraded
  PROVE  Promise!Edit(k)
  <1>1. [j \in Keys |-> Life(j)]' = [j \in Keys |-> Life(j)]  OBVIOUS
  <1>2. CASE k \in conf'.peers
    <2>1. conf'.peers \cap Keys = (conf.peers \cap Keys) \cup {k}  BY <1>2
    <2>2. ~tampered => Life(k) \notin Promise!Dead  BY <1>2, LifeOfRow DEF Promise!Dead
    <2> QED BY <1>1, <2>1, <2>2 DEF Promise!Edit, Promise!Enter
  <1>3. CASE k \notin conf'.peers
    <2>1. conf'.peers \cap Keys = (conf.peers \cap Keys) \ {k}  BY <1>3
    <2>2. phase = "up" => Life(k) # "active"  BY <1>3, LifeOfRow
    <2> QED BY <1>1, <2>1, <2>2 DEF Promise!Edit, Promise!Leave
  <1> QED BY <1>2, <1>3

\* A start, or a compensation, gives up, with or without a last edit.
LEMMA GivesUp ==
  ASSUME \/ \E k \in Keys : Promise!Edit(k)
         \/ (\A k \in Keys : Life(k)' = Life(k)) /\ conf'.peers \cap Keys = conf.peers \cap Keys,
         phase' = "up", degraded' = TRUE, tampered' = tampered
  PROVE  Keeps
  <1>1. ASSUME \A k \in Keys : Life(k)' = Life(k)
        PROVE  [k \in Keys |-> Life(k)]' = [k \in Keys |-> Life(k)]
    BY <1>1
  <1>2. Promise!GiveUp  BY <1>1 DEF Promise!GiveUp
  <1> QED BY <1>2 DEF Keeps, Promise!Next

-----------------------------------------------------------------------------
(* What each step of a call is to the promise.                             *)

\* A call that waits, or is refused, is nothing to the promise.
LEMMA WaitKeeps ==
  ASSUME NEW call, NEW k, Request(call, k) \/ Refuse(call, k)
  PROVE  Keeps
  <1>1. UNCHANGED <<conf, status, pc, op, phase, degraded, tampered>>
    BY DEF Request, Refuse, Served, configVars
  <1>2. \A j \in Keys : Life(j)' = Life(j)  BY <1>1, SameLife DEF CanGiveBack
  <1> QED BY <1>1, <1>2, Stutters

\* A create issues a key.
LEMMA CreateKeeps ==
  ASSUME BaseInv, Create
  PROVE  Keeps
  <1>1. PICK k \in Keys : /\ status[k] = "absent"
                          /\ status' = [status EXCEPT ![k] = "pending_apply"]
                          /\ op' = [kind |-> "create", key |-> k, prev |-> "absent"]
    BY DEF Create, SetStatus
  <1>2. /\ pc = "idle" /\ phase = "up" /\ ~degraded
        /\ UNCHANGED <<conf, phase, degraded, tampered>>
    BY DEF Create, Served, configVars
  <1>3. NoWay /\ NoWay'  BY <1>1, <1>2 DEF NoWay
  <1>4. \A j \in Keys \ {k} : Life(j)' = Life(j)
    BY <1>1, <1>3, NoWayLife DEF BaseInv, TypeOK
  <1>5. Life(k) = "none" /\ Life(k)' = "issuing"
    <2>1. status'[k] = "pending_apply"  BY <1>1 DEF BaseInv, TypeOK
    <2> QED BY <1>1, <2>1 DEF Life, Issuing
  <1>6. Promise!Becomes(k, {"none"}, "issuing")  BY <1>2, <1>4, <1>5, Turns
  <1>7. Promise!Issue(k)  BY <1>2, <1>6 DEF Promise!Issue, Promise!Calls
  <1> QED BY <1>7, Handled DEF Promise!Handle

\* A revoke puts a key in doubt; what was being deleted, or had failed to be, stays doomed.
LEMMA RevokeKeeps ==
  ASSUME BaseInv, NEW k \in Keys, Revoke(k)
  PROVE  Keeps
  <1>1. /\ pc = "idle" /\ pc' = "edit" /\ phase = "up" /\ ~degraded
        /\ status[k] \in MayExist /\ status' = [status EXCEPT ![k] = "pending_revoke"]
        /\ op' = [kind |-> "revoke", key |-> k, prev |-> status[k]]
        /\ UNCHANGED <<conf, phase, degraded, tampered>>
    BY DEF Revoke, Served, SetStatus, configVars
  <1>2. \A j \in Keys \ {k} : Life(j)' = Life(j)
    <2> TAKE j \in Keys \ {k}
    <2>1. status'[j] = status[j]  BY <1>1 DEF BaseInv, TypeOK
    <2>2. \A from : ~CanGiveBack(j, from) /\ ~CanGiveBack(j, from)'  BY <1>1 DEF CanGiveBack
    <2> QED BY <2>1, <2>2, SameLife
  <1>3. \A from : ~CanGiveBack(k, from) /\ (CanGiveBack(k, from)' <=> status[k] \in from)
    BY <1>1 DEF CanGiveBack
  <1>4. status'[k] = "pending_revoke"  BY <1>1 DEF BaseInv, TypeOK
  <1>5. Life(k)' = IF status[k] = "active" THEN "closing" ELSE IF status[k] \in Issuing THEN "cancelling" ELSE "doomed"
    <2>1. /\ CanGiveBack(k, {"active"})' <=> status[k] = "active"
          /\ CanGiveBack(k, Issuing)' <=> status[k] \in Issuing
      BY <1>3
    <2>2. "pending_revoke" \notin Issuing /\ "active" \notin Issuing  BY DEF Issuing
    <2> QED BY <1>4, <2>1, <2>2 DEF Life
  <1>6. CASE status[k] \in {"active"} \cup Issuing
    <2>1. \/ Life(k) = "active" /\ Life(k)' = "closing"
          \/ Life(k) = "issuing" /\ Life(k)' = "cancelling"
      BY <1>5, <1>6 DEF Life, Issuing
    <2>2. Promise!Becomes(k, {"active"}, "closing") \/ Promise!Becomes(k, {"issuing"}, "cancelling")
      BY <1>1, <1>2, <2>1, Turns
    <2>3. Promise!BeginRevoke(k)  BY <1>1, <2>2 DEF Promise!BeginRevoke, Promise!Calls
    <2> QED BY <2>3, Handled DEF Promise!Handle
  <1>7. CASE status[k] \notin {"active"} \cup Issuing
    <2>1. ~CanGiveBack(k, {"active"}) /\ ~CanGiveBack(k, Issuing)  BY <1>3
    <2>2. Life(k) = "doomed" /\ Life(k)' = "doomed"
      BY <1>1, <1>5, <1>7, <2>1 DEF Life, Issuing, MayExist
    <2>3. \A j \in Keys : Life(j)' = Life(j)  BY <1>2, <2>2
    <2> QED BY <1>1, <2>3, Stutters
  <1> QED BY <1>6, <1>7

\* A delete dooms a key.
LEMMA DeleteKeeps ==
  ASSUME BaseInv, NEW k \in Keys, Delete(k)
  PROVE  Keeps
  <1>1. /\ pc = "idle" /\ phase = "up" /\ ~degraded
        /\ status[k] \in Rows /\ status' = [status EXCEPT ![k] = "pending_delete"]
        /\ op' = [kind |-> "delete", key |-> k, prev |-> status[k]]
        /\ UNCHANGED <<conf, phase, degraded, tampered>>
    BY DEF Delete, Served, SetStatus, configVars
  <1>2. NoWay /\ NoWay'  BY <1>1 DEF NoWay
  <1>3. \A j \in Keys \ {k} : Life(j)' = Life(j)
    BY <1>1, <1>2, NoWayLife DEF BaseInv, TypeOK
  <1>4. Life(k)' = "doomed"
    <2>1. status'[k] = "pending_delete"  BY <1>1 DEF BaseInv, TypeOK
    <2>2. "pending_delete" \notin Issuing  BY DEF Issuing
    <2> QED BY <2>1, <2>2 DEF Life
  <1>5. Life(k) \in {"issuing", "active", "revoked", "doomed"}
    BY <1>1, <1>2, LifeOfRow DEF Rows, Statuses, Issuing, BaseInv, NoWay, CanGiveBack
  <1>6. CASE Life(k) # "doomed"
    <2>1. Promise!Becomes(k, {"issuing", "active", "revoked"}, "doomed")
      BY <1>1, <1>3, <1>4, <1>5, <1>6, Turns
    <2>2. Promise!BeginDelete(k)  BY <1>1, <2>1 DEF Promise!BeginDelete, Promise!Calls
    <2> QED BY <2>2, Handled DEF Promise!Handle
  <1>7. CASE Life(k) = "doomed"
    <2>1. \A j \in Keys : Life(j)' = Life(j)  BY <1>3, <1>4, <1>7
    <2> QED BY <1>1, <2>1, Stutters
  <1> QED BY <1>6, <1>7

\* A row that is marked active while its peer is in the file comes to life, if it is issuing.
LEMMA ActivateKeeps ==
  ASSUME BaseInv, NEW k \in Keys, MarkActive(k), NoWay, NoWay', ~tampered => k \in conf.peers,
         UNCHANGED <<conf, phase, degraded, tampered>>
  PROVE  Keeps
  <1>1. \A j \in Keys \ {k} : Life(j)' = Life(j)
    BY NoWayLife DEF MarkActive, BaseInv, TypeOK
  <1>2. CASE status[k] \in Issuing
    <2>1. status'[k] = "active"  BY <1>2 DEF MarkActive, Issuing, BaseInv, TypeOK
    <2>2. Life(k) = "issuing" /\ Life(k)' = "active"
      BY <1>2, <2>1 DEF Life, Issuing
    <2>3. Promise!Becomes(k, {"issuing"}, "active")  BY <1>1, <2>2, Turns
    <2>4. Promise!Activate(k)  BY <2>3 DEF Promise!Activate
    <2> QED BY <2>4, Handled DEF Promise!Handle
  <1>3. CASE status[k] \notin Issuing
    <2>1. status' = status  BY <1>3 DEF MarkActive, Issuing
    <2>2. \A j \in Keys : Life(j)' = Life(j)  BY <2>1, NoWayLife
    <2> QED BY <2>2, Stutters
  <1> QED BY <1>2, <1>3

\* A row that goes from one state of the same life to another
LEMMA StayKeeps ==
  ASSUME BaseInv, NoWay, NoWay', NEW k, NEW s,
         status' = [status EXCEPT ![k] = s] \/ status' = status,
         k \in Keys => \/ status[k] \in Issuing /\ s \in Issuing
                       \/ status[k] \in {"pending_delete", "delete_failed"} /\ s \in {"pending_delete", "delete_failed"}
                       \/ s = status[k],
         UNCHANGED <<conf, phase, degraded, tampered>>
  PROVE  Keeps
  <1>1. \A j \in Keys : Life(j)' = Life(j)
    <2> TAKE j \in Keys
    <2>1. CASE status'[j] = status[j]  BY <2>1, NoWayLife
    <2>2. CASE status'[j] # status[j]
      <3>1. j = k /\ status'[k] = s  BY <2>2 DEF BaseInv, TypeOK
      <3>2. CASE status[k] \in Issuing /\ s \in Issuing
        BY <3>1, <3>2 DEF Life, Issuing
      <3>3. CASE status[k] \in {"pending_delete", "delete_failed"} /\ s \in {"pending_delete", "delete_failed"}
        <4>1. status[k] \notin Issuing /\ s \notin Issuing  BY <3>3 DEF Issuing
        <4> QED BY <3>1, <3>3, <4>1 DEF Life
      <3> QED BY <2>2, <3>1, <3>2, <3>3
    <2> QED BY <2>1, <2>2
  <1> QED BY <1>1, Stutters

\* A manual reconcile follows the file.
LEMMA ManualKeeps ==
  ASSUME BaseInv, NEW k \in Keys, ManualReconcile(k)
  PROVE  Keeps
  <1>1. /\ pc = "idle" /\ pc' = "idle" /\ UNCHANGED <<conf, phase, degraded, tampered>>
    BY DEF ManualReconcile, Served, configVars
  <1>2. NoWay /\ NoWay'  BY <1>1 DEF NoWay
  <1>3. CASE k \in conf.peers /\ MarkActive(k)  BY <1>1, <1>2, <1>3, ActivateKeeps
  <1>4. CASE status[k] = "pending_apply" /\ SetStatus(k, "apply_failed")
    BY <1>1, <1>2, <1>4, StayKeeps DEF SetStatus, Issuing
  <1> QED BY <1>3, <1>4 DEF ManualReconcile

\* The key of an edit has a row that may have a peer, or is not let in; while the bot is up it
\* is not active.
LEMMA EditMay ==
  ASSUME BaseInv, PeerInv, pc \in {"edit", "apply"}, op.key \in Keys
  PROVE  /\ ~tampered /\ (op.kind \in Adds \/ op.key \in conf.peers \cup saved.peers)
              => status[op.key] \notin {"absent", "revoked", "gone"}
         /\ phase = "up" => status[op.key] # "active" /\ ~degraded
  <1>1. ~tampered /\ op.key \in conf.peers \cup saved.peers => status[op.key] \in MayExist
    BY DEF PeerInv, OwnedInv, Present, Reserved
  <1>2. op.kind \in Adds => status[op.key] \in {"pending_apply", "active"}
    BY DEF Adds, BaseInv, JobInv, Active
  <1>3. phase = "up" => status[op.key] # "active" /\ ~degraded
    BY DEF BaseInv, JobInv, FrozenInv, TypeOK, Kinds
  <1> QED BY <1>1, <1>2, <1>3 DEF MayExist

\* An edit that keeps the lives is an edit of the promise, or is about a hand-made peer.
LEMMA CallEdits ==
  ASSUME BaseInv, PeerInv, pc \in {"edit", "apply"}, \A k \in Keys : Life(k)' = Life(k),
         conf'.peers \ {op.key} = conf.peers \ {op.key},
         conf'.peers \subseteq conf.peers \cup saved.peers \cup (IF op.kind \in Adds THEN {op.key} ELSE {})
  PROVE  (\E k \in Keys : Promise!Edit(k)) \/ conf'.peers \cap Keys = conf.peers \cap Keys
  <1>1. CASE op.key \in Keys
    <2>1. PICK k \in Keys : k = op.key  BY <1>1
    <2>2. TypeOK  BY DEF BaseInv
    <2>3. k \in conf'.peers /\ ~tampered => status[k] \notin {"absent", "revoked", "gone"}
      BY <2>1, EditMay
    <2>4. phase = "up" => status[k] # "active" /\ ~degraded  BY <2>1, EditMay
    <2>5. Promise!Edit(k)  BY <2>1, <2>2, <2>3, <2>4, EditsOne
    <2> QED BY <2>5
  <1>2. CASE op.key \notin Keys  BY <1>2
  <1> QED BY <1>1, <1>2

\* An edit that leaves the world alone is a step, or none.
LEMMA WorldKeeps ==
  ASSUME (\E k \in Keys : Promise!Edit(k)) \/ conf'.peers \cap Keys = conf.peers \cap Keys,
         \A k \in Keys : Life(k)' = Life(k), UNCHANGED <<phase, degraded, tampered>>
  PROVE  Keeps
  <1>1. CASE \E k \in Keys : Promise!Edit(k)
    <2>1. PICK k \in Keys : Promise!Edit(k)  BY <1>1
    <2>2. Promise!Rewrite(k)  BY <2>1 DEF Promise!Rewrite, Promise!world
    <2> QED BY <2>2, Handled DEF Promise!Handle
  <1>2. CASE conf'.peers \cap Keys = conf.peers \cap Keys  BY <1>2, Stutters
  <1> QED BY <1>1, <1>2

\* The file is replaced.
LEMMA EditKeeps ==
  ASSUME BaseInv, PeerInv, EditOk
  PROVE  Keeps
  <1>1. pc = "edit" /\ pc' = "apply" /\ UNCHANGED <<status, op, phase, degraded, tampered>>
    BY DEF EditOk
  <1>2. \A k \in Keys : Life(k)' = Life(k)  BY <1>1, SameCall
  <1>3. /\ conf'.peers \ {op.key} = conf.peers \ {op.key}
        /\ conf'.peers \subseteq conf.peers \cup (IF op.kind \in Adds THEN {op.key} ELSE {})
    <2>1. CASE op.kind \in Adds /\ WriteConf(With(conf, op.key))
      BY <2>1 DEF WriteConf, With
    <2>2. ASSUME NEW f \in Without(conf, op.key), WriteConf(f)
          PROVE  conf'.peers = conf.peers \ {op.key}
      BY <2>2, WithoutFile DEF WriteConf, BaseInv, TypeOK, ConfigOK
    <2> QED BY <2>1, <2>2 DEF EditOk
  <1> QED BY <1>1, <1>2, <1>3, CallEdits, WorldKeeps

\* An edit or apply that raises goes back to the older file, unless that fails, and to the
\* row; without a row to set back it gives up.
LEMMA RaiseKeeps ==
  ASSUME BaseInv, PeerInv, EditInv, EditRaises \/ ApplyRaises
  PROVE  Keeps
  <1>1. Raised /\ pc \in {"edit", "apply"}  BY RaiseStep DEF EditRaises, ApplyRaises
  <1>2. conf' = conf \/ (pc = "apply" /\ conf' = saved)
    <2>1. CASE EditRaises  BY <2>1 DEF EditRaises, configVars
    <2>2. CASE ApplyRaises
      <3>1. pc = "apply" /\ op.key \in Peers  BY <2>2 DEF ApplyRaises, BaseInv, JobInv
      <3>2. conf' \in {saved, conf}
        BY <2>2, <3>1, FailedEdit DEF ApplyRaises, BaseInv, TypeOK
      <3> QED BY <3>1, <3>2
    <2> QED BY <2>1, <2>2
  <1>3. /\ conf'.peers \ {op.key} = conf.peers \ {op.key}
        /\ conf'.peers \subseteq conf.peers \cup saved.peers
    BY <1>2 DEF EditInv
  <1>4. CASE UNCHANGED <<op, phase, degraded>> /\ pc' = "undo"
    <2>1. \A k \in Keys : Life(k)' = Life(k)  BY <1>1, <1>4, SameCall DEF Raised
    <2> QED BY <1>1, <1>3, <1>4, <2>1, CallEdits, WorldKeeps DEF Raised
  <1>5. CASE op.kind \in {"comp", "strip", "restore"} /\ degraded' = TRUE /\ Idle
    <2>1. phase' = "up"
      BY <1>1, <1>5 DEF Raised, BaseInv, JobInv
    <2>2. NoWay /\ NoWay'  BY <1>5 DEF NoWay, Idle
    <2>3. \A k \in Keys : Life(k)' = Life(k)  BY <1>1, <2>2, NoWayLife DEF Raised
    <2> QED BY <1>1, <1>3, <1>5, <2>1, <2>3, CallEdits, GivesUp DEF Raised
  <1> QED BY <1>1, <1>4, <1>5 DEF Raised

\* Once the apply of a revocation has worked there is no way back.
LEMMA ApplyKeeps ==
  ASSUME BaseInv, ApplyOk
  PROVE  Keeps
  <1>1. /\ pc = "apply" /\ UNCHANGED <<conf, status, phase, degraded, tampered>>
        /\ pc' \notin {"edit", "apply", "undo"}
    BY DEF ApplyOk, ApplyAdd, ApplyRemove, Idle
  <1>2. NoWay'  BY <1>1 DEF NoWay
  <1>3. CASE op.kind = "revoke"
    <2>1. PICK k \in Keys : k = op.key  BY <1>3 DEF BaseInv, JobInv
    <2>2. \A j \in Keys \ {k} : Life(j)' = Life(j)
      BY <1>1, <1>2, <2>1, SameLife DEF CanGiveBack
    <2>3. status[k] = "pending_revoke"  BY <1>3, <2>1 DEF BaseInv, JobInv
    <2>4. ~CanGiveBack(k, {"active"})' /\ ~CanGiveBack(k, Issuing)'  BY <1>1 DEF CanGiveBack
    <2>5. "pending_revoke" \notin Issuing  BY DEF Issuing
    <2>6. Life(k)' = "doomed"  BY <1>1, <2>3, <2>4, <2>5 DEF Life
    <2>7. Life(k) \in {"closing", "cancelling", "doomed"}  BY <2>3, LifeOfRow DEF BaseInv
    <2>8. CASE Life(k) = "doomed"
      <3>1. \A j \in Keys : Life(j)' = Life(j)  BY <2>2, <2>6, <2>8
      <3> QED BY <1>1, <3>1, Stutters
    <2>9. CASE Life(k) \in Promise!InDoubt
      <3>1. Promise!Doom(k)  BY <1>1, <2>2, <2>6, <2>9, Turns DEF Promise!Doom
      <3> QED BY <3>1, Handled DEF Promise!Handle
    <2> QED BY <2>7, <2>8, <2>9 DEF Promise!InDoubt
  <1>4. CASE op.kind # "revoke"
    <2>1. NoWay  BY <1>4 DEF NoWay
    <2>2. \A k \in Keys : Life(k)' = Life(k)  BY <1>1, <1>2, <2>1, NoWayLife
    <2> QED BY <1>1, <2>2, Stutters
  <1> QED BY <1>3, <1>4

\* The write that settles a row finds the file as the row will say.
LEMMA FinishKeeps ==
  ASSUME BaseInv, PeerInv, EditInv, Finish
  PROVE  Keeps
  <1>1. PICK k \in Keys : k = op.key  BY DEF Finish, BaseInv, JobInv
  <1>2. /\ pc = "finish" /\ pc' = "idle" /\ UNCHANGED <<conf, phase, degraded, tampered>>
    BY DEF Finish, Idle, configVars
  <1>3. NoWay /\ NoWay'  BY <1>2 DEF NoWay
  <1>4. CASE op.kind = "create"
    <2>1. MarkActive(k) /\ k \in conf.peers  BY <1>1, <1>2, <1>4 DEF Finish, EditInv
    <2> QED BY <1>2, <1>3, <2>1, ActivateKeeps
  <1>5. CASE op.kind = "settle"
    <2>1. status' = [status EXCEPT ![k] = "apply_failed"] /\ status[k] \in Issuing
      BY <1>1, <1>5 DEF Finish, SetStatus, BaseInv, JobInv, Issuing
    <2> QED BY <1>2, <1>3, <2>1, StayKeeps DEF Issuing
  <1>6. CASE op.kind \in {"revoke", "delete"}
    <2>1. PICK s \in {"revoked", "gone"} : status' = [status EXCEPT ![k] = s]
      BY <1>1, <1>6 DEF Finish, SetStatus
    <2>2. k \notin conf.peers  BY <1>1, <1>2, <1>6 DEF PeerInv, RemovedInv
    <2>3. status[k] \in {"pending_revoke", "pending_delete", "delete_failed"}
      BY <1>1, <1>6 DEF BaseInv, JobInv
    <2>4. Life(k) = "doomed"
      BY <1>2, <2>3, LifeOfRow DEF BaseInv, CanGiveBack
    <2>5. status'[k] = s  BY <2>1 DEF BaseInv, TypeOK
    <2>6. Life(k)' = s
      BY <2>5 DEF Life, Issuing
    <2>7. \A j \in Keys \ {k} : Life(j)' = Life(j)
      BY <1>3, <2>1, NoWayLife DEF BaseInv, TypeOK
    <2>8. Promise!Becomes(k, {"doomed"}, s)  BY <1>2, <2>4, <2>6, <2>7, Turns
    <2>9. Promise!Revoked(k) \/ Promise!Erase(k)
      BY <2>2, <2>8 DEF Promise!Revoked, Promise!Erase
    <2> QED BY <2>9, Handled DEF Promise!Handle
  <1> QED BY <1>4, <1>5, <1>6 DEF Finish

\* A settling write that raises, and what follows it, leaves the row pending.
LEMMA FinishRaisesKeeps ==
  ASSUME BaseInv, FinishRaises \/ CompensateStatus
  PROVE  Keeps
  <1>1. CASE FinishRaises
    <2>1. /\ pc = "finish" /\ UNCHANGED <<conf, status, phase, degraded, tampered>>
      BY <1>1 DEF FinishRaises, configVars
    <2>2. op'.kind # "revoke"
      BY <1>1 DEF FinishRaises, Idle, NoOp, BaseInv, TypeOK
    <2>3. NoWay /\ NoWay'  BY <2>1, <2>2 DEF NoWay
    <2>4. \A k \in Keys : Life(k)' = Life(k)  BY <2>1, <2>3, NoWayLife
    <2> QED BY <2>1, <2>4, Stutters
  <1>2. CASE CompensateStatus
    <2>1. PICK k \in Keys : k = op.key  BY <1>2 DEF CompensateStatus, BaseInv, JobInv
    <2>2. /\ pc = "comp_status" /\ pc' = "idle" /\ UNCHANGED <<conf, phase, degraded, tampered>>
          /\ status' = [status EXCEPT ![k] = "apply_failed"] \/ status' = status
          /\ status[k] = "pending_apply"
      BY <1>2, <2>1 DEF CompensateStatus, SetStatus, Idle, configVars, BaseInv, JobInv
    <2>3. NoWay /\ NoWay'  BY <2>2 DEF NoWay
    <2> QED BY <2>2, <2>3, StayKeeps DEF Issuing
  <1> QED BY <1>1, <1>2

\* A revocation that is taken back is one that was begun by a call of a running bot.
LEMMA UndoKeeps ==
  ASSUME BaseInv, EditInv, Undo
  PROVE  Keeps
  <1>1. PICK k \in Keys : k = op.key  BY DEF Undo, BaseInv, JobInv
  <1>2. /\ pc = "undo" /\ pc' = "idle" /\ UNCHANGED <<conf, phase, degraded, tampered>>
        /\ status' = [status EXCEPT ![k] = UndoStatus] \/ status' = status
    BY <1>1 DEF Undo, SetStatus, Idle, configVars
  <1>3. NoWay'  BY <1>2 DEF NoWay
  <1>4. CASE op.kind \in {"create", "delete", "settle"}
    <2>1. NoWay  BY <1>4 DEF NoWay
    <2>2. \/ status[k] \in Issuing /\ UndoStatus \in Issuing
          \/ /\ status[k] \in {"pending_delete", "delete_failed"}
             /\ UndoStatus \in {"pending_delete", "delete_failed"}
      BY <1>1, <1>4 DEF UndoStatus, BaseInv, JobInv, Issuing
    <2> QED BY <1>2, <1>3, <2>1, <2>2, StayKeeps
  <1>5. CASE op.kind = "revoke"
    <2>1. /\ UndoStatus = op.prev /\ op.prev \in MayExist /\ status[k] = "pending_revoke"
          /\ phase = "up" \/ op.prev = "pending_revoke"
      BY <1>1, <1>5 DEF UndoStatus, BaseInv, JobInv, EditInv
    <2>2. \A from : CanGiveBack(k, from) <=> op.prev \in from
      BY <1>1, <1>2, <1>5 DEF CanGiveBack
    <2>3. "pending_revoke" \notin Issuing /\ "active" \notin Issuing  BY DEF Issuing
    <2>4. Life(k) = IF op.prev = "active" THEN "closing" ELSE IF op.prev \in Issuing THEN "cancelling" ELSE "doomed"
      <3>1. /\ CanGiveBack(k, {"active"}) <=> op.prev = "active"
            /\ CanGiveBack(k, Issuing) <=> op.prev \in Issuing
        BY <2>2
      <3> QED BY <2>1, <2>3, <3>1 DEF Life
    <2>5. \A from : ~CanGiveBack(k, from)'  BY <1>2 DEF CanGiveBack
    <2>6. \A j \in Keys \ {k} : Life(j)' = Life(j)
      <3> TAKE j \in Keys \ {k}
      <3>1. status'[j] = status[j]  BY <1>2 DEF BaseInv, TypeOK
      <3>2. \A from : ~CanGiveBack(j, from) /\ ~CanGiveBack(j, from)'
        BY <1>1, <1>2 DEF CanGiveBack
      <3> QED BY <3>1, <3>2, SameLife
    <2>7. CASE status' = status
      <3>1. Life(k)' = "doomed"  BY <2>1, <2>3, <2>5, <2>7 DEF Life
      <3>2. CASE Life(k) = "doomed"
        <4>1. \A j \in Keys : Life(j)' = Life(j)  BY <2>6, <3>1, <3>2
        <4> QED BY <1>2, <4>1, Stutters
      <3>3. CASE Life(k) \in Promise!InDoubt
        <4>1. Promise!Doom(k)  BY <1>2, <2>6, <3>1, <3>3, Turns DEF Promise!Doom
        <4> QED BY <4>1, Handled DEF Promise!Handle
      <3> QED BY <2>4, <3>2, <3>3 DEF Promise!InDoubt
    <2>8. CASE status' = [status EXCEPT ![k] = UndoStatus]
      <3>1. status'[k] = op.prev  BY <2>1, <2>8 DEF BaseInv, TypeOK
      <3>2. Life(k)' = IF op.prev = "active" THEN "active" ELSE IF op.prev \in Issuing THEN "issuing" ELSE "doomed"
        <4>1. op.prev \in {"active", "pending_revoke", "pending_delete", "delete_failed"} \cup Issuing
          BY <2>1 DEF MayExist, Issuing
        <4>2. ~CanGiveBack(k, {"active"})' /\ ~CanGiveBack(k, Issuing)'  BY <2>5
        <4> QED BY <3>1, <4>1, <4>2 DEF Life, Issuing
      <3>3. CASE op.prev \in {"active"} \cup Issuing
        <4>1. Promise!Becomes(k, {"closing"}, "active") \/ Promise!Becomes(k, {"cancelling"}, "issuing")
          BY <1>2, <2>3, <2>4, <2>6, <3>2, <3>3, Turns
        <4>2. phase = "up" /\ ~degraded  BY <1>2, <2>1, <2>3, <3>3 DEF BaseInv, FrozenInv
        <4>3. Promise!GiveBack(k)  BY <4>1, <4>2 DEF Promise!GiveBack, Promise!Calls
        <4> QED BY <4>3, Handled DEF Promise!Handle
      <3>4. CASE op.prev \notin {"active"} \cup Issuing
        <4>1. \A j \in Keys : Life(j)' = Life(j)  BY <2>4, <2>6, <3>2, <3>4
        <4> QED BY <1>2, <4>1, Stutters
      <3> QED BY <3>3, <3>4
    <2> QED BY <1>2, <2>7, <2>8
  <1> QED BY <1>4, <1>5 DEF BaseInv, JobInv, Undo

-----------------------------------------------------------------------------
(* What each step of startup is to the promise.                            *)

\* Steps of startup that only look, or that begin an edit
LEMMA LookKeeps ==
  ASSUME BaseInv,
         \/ BootStart \/ BootNonLiveStart \/ BootOrphansStart \/ BootRestoreStart \/ BootRuntimeStart
         \/ \E k \in Keys : BootResume(k) \/ BootNonLive(k) \/ BootRestore(k)
         \/ \E p \in Peers : BootOrphan(p) \/ (RuntimeOrphan(p) /\ Begin("strip", p))
  PROVE  Keeps
  <1>1. /\ UNCHANGED <<conf, status, degraded, tampered>> /\ pc = "idle" /\ phase # "up" /\ phase' # "up"
    <2>1. CASE BootStart \/ BootNonLiveStart \/ BootOrphansStart \/ BootRestoreStart \/ BootRuntimeStart
      BY <2>1 DEF BootStart, BootNonLiveStart, BootOrphansStart, BootRestoreStart, BootRuntimeStart, NextStage, configVars,
         BaseInv, JobInv
    <2>2. CASE \E k \in Keys : BootResume(k) \/ BootNonLive(k) \/ BootRestore(k)
      BY <2>2 DEF BootResume, BootNonLive, BootRestore, Look, configVars
    <2>3. CASE \E p \in Peers : BootOrphan(p) \/ (RuntimeOrphan(p) /\ Begin("strip", p))
      BY <2>3 DEF BootOrphan, RuntimeOrphan, Begin, BootStops, Idle, Look, configVars
    <2> QED BY <2>1, <2>2, <2>3
  <1>2. NoWay'
    <2>1. CASE BootStart \/ BootNonLiveStart \/ BootOrphansStart \/ BootRestoreStart \/ BootRuntimeStart
      <3>1. pc' = pc  BY <2>1 DEF BootStart, BootNonLiveStart, BootOrphansStart, BootRestoreStart, BootRuntimeStart, NextStage
      <3> QED BY <1>1, <3>1 DEF NoWay
    <2>2. CASE \E k \in Keys : BootResume(k)
      BY <2>2 DEF BootResume, Begin, NoWay, Issuing
    <2>3. CASE \E k \in Keys : BootNonLive(k) \/ BootRestore(k)
      BY <2>3 DEF BootNonLive, BootRestore, Begin, NoWay
    <2>4. CASE \E p \in Peers : BootOrphan(p) \/ (RuntimeOrphan(p) /\ Begin("strip", p))
      BY <2>4 DEF BootOrphan, Begin, NoWay
    <2> QED BY <2>1, <2>2, <2>3, <2>4
  <1>3. NoWay  BY <1>1 DEF NoWay
  <1>4. \A k \in Keys : Life(k)' = Life(k)  BY <1>1, <1>2, <1>3, NoWayLife
  <1> QED BY <1>1, <1>4, Stutters

\* A key that is issuing and found in the file, by its peer or its address, has its peer there.
LEMMA FoundIssuing ==
  ASSUME BaseInv, UniqueInv, NEW k \in Keys, status[k] \in {"pending_apply", "apply_failed"}, Found(k)
  PROVE  k \in conf.peers
  <1>1. PICK p \in conf.peers : p = k \/ Addr(p) = addr[k]  BY DEF Found
  <1>2. k \in Reserved /\ Addr(k) = addr[k]  BY DEF Reserved, BaseInv, HeldInv, MayExist, Addr
  <1> QED BY <1>1, <1>2 DEF UniqueInv, Present

\* Startup settles a create that was cut short as the file has it.
LEMMA BootSettleKeeps ==
  ASSUME BaseInv, PeerInv, NEW k \in Keys, BootSettle(k)
  PROVE  Keeps
  <1>1. /\ pc = "idle" /\ UNCHANGED <<conf, phase, degraded, tampered>>
        /\ status[k] \in {"pending_apply", "apply_failed"}
    BY DEF BootSettle, Look, configVars
  <1>2. NoWay  BY <1>1 DEF NoWay
  <1>3. NoWay'  BY <1>1 DEF BootSettle, Begin, NoWay
  <1>4. CASE Found(k) /\ MarkActive(k)
    BY <1>1, <1>2, <1>3, <1>4, FoundIssuing, ActivateKeeps DEF PeerInv
  <1>5. CASE status' = status \/ SetStatus(k, "apply_failed")
    BY <1>1, <1>2, <1>3, <1>5, StayKeeps DEF SetStatus, Issuing
  <1> QED BY <1>4, <1>5 DEF BootSettle, Begin

\* Startup that gives up changes nothing else that the promise is about.
LEMMA BootStopsKeeps ==
  ASSUME BaseInv, pc = "idle", BootStops, conf' = conf
  PROVE  Keeps
  <1>1. pc' = "idle" /\ status' = status /\ phase' = "up" /\ degraded' = TRUE /\ tampered' = tampered
    BY DEF BootStops, Idle
  <1>2. NoWay /\ NoWay'  BY <1>1 DEF NoWay
  <1>3. \A k \in Keys : Life(k)' = Life(k)  BY <1>1, <1>2, NoWayLife
  <1> QED BY <1>1, <1>3, GivesUp

\* A sync is about the interface only.
LEMMA BootSyncKeeps ==
  ASSUME BaseInv, NEW k \in Keys, BootSync(k)
  PROVE  Keeps
  <1>1. pc = "idle" /\ conf' = conf  BY DEF BootSync, Look, SyncOk, configVars
  <1>2. CASE BootStops  BY <1>1, <1>2, BootStopsKeeps
  <1>3. CASE UNCHANGED <<status, degraded, pc, op, phase, tampered>>
    <2>1. NoWay /\ NoWay'  BY <1>1, <1>3 DEF NoWay
    <2>2. \A j \in Keys : Life(j)' = Life(j)  BY <1>3, <2>1, NoWayLife
    <2> QED BY <1>1, <1>3, <2>2, Stutters
  <1> QED BY <1>2, <1>3 DEF BootSync

\* Startup that ends clean has left exactly the active keys in the file.
LEMMA BootDoneKeeps ==
  ASSUME BaseInv, PeerInv, BootDone
  PROVE  Keeps
  <1>1. /\ conf.peers = Active /\ conf' = conf /\ status' = status
    BY BootDoneExact DEF configVars
  <1>2. /\ pc = "idle" /\ pc' = "idle" /\ phase = "runtime" /\ phase' = "up" /\ degraded' = degraded /\ tampered' = FALSE
    BY DEF BootDone, NextStage
  <1>3. NoWay /\ NoWay'  BY <1>2 DEF NoWay
  <1>4. \A k \in Keys : Life(k)' = Life(k)  BY <1>1, <1>3, NoWayLife
  <1>5. [k \in Keys |-> Life(k)]' = [k \in Keys |-> Life(k)]  BY <1>4
  <1>6. conf.peers \cap Keys = {k \in Keys : Life(k) = "active"}
    BY <1>1, LifeOfRow DEF Active, BaseInv
  <1>7. ~degraded /\ degraded \in BOOLEAN  BY <1>2 DEF BaseInv, FrozenInv, TypeOK
  <1>8. Promise!CleanStart
    BY <1>1, <1>2, <1>5, <1>6, <1>7 DEF Promise!CleanStart
  <1> QED BY <1>8 DEF Keeps, Promise!Next

-----------------------------------------------------------------------------
(* The process and the operator.                                           *)

\* A kill leaves nobody who could give a key back.
LEMMA CrashKeeps ==
  ASSUME BaseInv, Crash
  PROVE  Keeps
  <1>1. UNCHANGED <<conf, status, tampered>> /\ phase' = "down" /\ degraded' = FALSE /\ pc' = "idle"
    BY DEF Crash, Idle
  <1>2. \A k \in Keys : Life(k)' = IF Life(k) \in Promise!InDoubt THEN "doomed" ELSE Life(k)
    <2> TAKE k \in Keys
    <2>1. ~CanGiveBack(k, {"active"})' /\ ~CanGiveBack(k, Issuing)'  BY <1>1 DEF CanGiveBack
    <2>2. CASE status[k] # "pending_revoke"
      <3>1. Life(k)' = Life(k)  BY <1>1, <2>2, SameLife
      <3>2. Life(k) \notin Promise!InDoubt
        BY <2>2 DEF Life, Promise!InDoubt, Issuing
      <3> QED BY <3>1, <3>2
    <2>3. CASE status[k] = "pending_revoke"
      <3>1. "pending_revoke" \notin Issuing  BY DEF Issuing
      <3>2. Life(k)' = "doomed"  BY <1>1, <2>1, <2>3, <3>1 DEF Life
      <3>3. Life(k) \in {"closing", "cancelling", "doomed"}  BY <2>3, LifeOfRow DEF BaseInv
      <3> QED BY <3>2, <3>3 DEF Promise!InDoubt
    <2> QED BY <2>2, <2>3
  <1>3. [k \in Keys |-> Life(k)]' = [k \in Keys |-> IF Life(k) \in Promise!InDoubt THEN "doomed" ELSE Life(k)]
    BY <1>2
  <1>4. Promise!Stop  BY <1>1, <1>3 DEF Promise!Stop
  <1> QED BY <1>4 DEF Keeps, Promise!Next

\* A hand edit is about the file only.
LEMMA OperatorKeeps ==
  ASSUME NEW p \in Peers, OperatorEdit(p)
  PROVE  Keeps
  <1>1. UNCHANGED <<status, pc, op, phase, degraded>> /\ phase = "down" /\ tampered' = TRUE
    BY DEF OperatorEdit, serviceVars
  <1>2. \A k \in Keys : Life(k)' = Life(k)  BY <1>1, SameLife DEF CanGiveBack
  <1>3. [k \in Keys |-> Life(k)]' = [k \in Keys |-> Life(k)]  BY <1>2
  <1>4. Promise!HandEdit  BY <1>1, <1>3 DEF Promise!HandEdit
  <1> QED BY <1>4 DEF Keeps, Promise!Next

-----------------------------------------------------------------------------
(* The refinement.                                                         *)

\* Every step of the service is a step of the promise, or none.
LEMMA StepKeeps ==
  ASSUME BaseInv, PeerInv, EditInv, [Next]_vars
  PROVE  Keeps
  <1>1. CASE UNCHANGED vars
    <2>1. UNCHANGED <<conf, status, pc, op, phase, degraded, tampered>>
      BY <1>1 DEF vars, configVars, serviceVars
    <2>2. \A k \in Keys : Life(k)' = Life(k)  BY <2>1, SameLife DEF CanGiveBack
    <2> QED BY <2>1, <2>2, Stutters
  <1>2. CASE Call
    BY <1>2, WaitKeeps, CreateKeeps, RevokeKeeps, DeleteKeeps, ManualKeeps DEF Call
  <1>3. CASE Step
    BY <1>3, EditKeeps, RaiseKeeps, ApplyKeeps, FinishKeeps, FinishRaisesKeeps, UndoKeeps DEF Step
  <1>4. CASE Startup
    <2>1. CASE BootFailed \/ BootReadRaises
      BY <2>1, BootStopsKeeps DEF BootFailed, BootReadRaises, configVars
    <2>2. CASE \E p \in Peers : AmbiguousConf(p) \/ (RuntimeOrphan(p) /\ BootStops)
      BY <2>2, BootStopsKeeps DEF AmbiguousConf, RuntimeOrphan, configVars
    <2>3. CASE \E k \in Keys : BootSettle(k) \/ BootSync(k)
      BY <2>3, BootSettleKeeps, BootSyncKeeps
    <2>4. CASE BootDone  BY <2>4, BootDoneKeeps
    <2>5. ASSUME NEW p \in Peers, RuntimeOrphan(p) PROVE Begin("strip", p) \/ BootStops
      BY <2>5 DEF RuntimeOrphan
    <2> QED BY <1>4, <2>1, <2>2, <2>3, <2>4, <2>5, LookKeeps DEF Startup
  <1>5. CASE Crash  BY <1>5, CrashKeeps
  <1>6. CASE \E p \in Peers : OperatorEdit(p)  BY <1>6, OperatorKeeps
  <1> QED BY <1>1, <1>2, <1>3, <1>4, <1>5, <1>6 DEF Next

\* The AmneziaWG service, too, does to each key only what KeyLife allows, whatever raises, is
\* killed or is restored by hand, as long as no hand edit brings in an address that is in use.
THEOREM AwgLiveAsPromised == ASSUME HandEdits => ~Reuse PROVE Spec => KeysLiveAsPromised
  <1>1. Init => Promise!Init
    <2> SUFFICES ASSUME Init PROVE Promise!Init  OBVIOUS
    <2>1. \A k \in Keys : Life(k) = "none"  BY DEF Init, Life, Issuing
    <2>2. [k \in Keys |-> Life(k)] = [k \in Keys |-> "none"]  BY <2>1
    <2> QED BY <2>2 DEF Init, ConfigInit, NoPeers, Promise!Init
  <1>2. Init => EditInv  BY DEF Init, NoOp, EditInv
  <1>3. BaseInv /\ EditInv /\ [Next]_vars => EditInv'  BY EditStep
  <1>4. BaseInv /\ PeerInv /\ EditInv /\ [Next]_vars => [Promise!Next]_(Promise!vars)
    BY StepKeeps DEF Keeps
  <1> QED BY <1>1, <1>2, <1>3, <1>4, Base, PeersHold, PTL DEF Spec, KeysLiveAsPromised, Promise!Spec
===============================================================================
