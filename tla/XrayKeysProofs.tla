---------------------------- MODULE XrayKeysProofs ----------------------------
(***************************************************************************)
(* XrayKeys keeps its types and never leaves a client of a dead key in     *)
(* config.json, for every number of tasks, users and keys, every           *)
(* assignment of inbounds and short ids, and every apply mode.             *)
(*                                                                         *)
(* IndInv is inductive: one lemma per action of the specification.  Its    *)
(* core is GhostInv (no dead key in the file nor in the backup a failing   *)
(* apply restores); RemovedInv carries the fact that the client is out     *)
(* from the edit to the last write; ScanInv says what the startup scans    *)
(* still have to clean before hand edits stop being excused; LockInv,      *)
(* TaskInv and BootTaskInv exclude a second writer in between.             *)
(***************************************************************************)
EXTENDS XrayKeys, TLAPS

\* The user of a job that is about no user is one of the users.
LEMMA AnyUserType == AnyUser \in Users
  BY KeysAssumption DEF AnyUser

\* The local variables a call starts with are well typed.
LEMMA JobType ==
  ASSUME NEW op \in Ops, NEW u \in Users, NEW g \in BOOLEAN, NEW k \in Clients \cup {NoKey},
         NEW w \in SUBSET Clients
  PROVE  Job(op, u, g, k, w) \in Jobs
  BY DEF Job, Jobs, Statuses, Clients

\* So are those of an idle task.
LEMMA NoJobType == NoJob \in Jobs /\ NoJob.todo = {} /\ NoJob.op = "none"
  <1>1. "none" \in Ops  BY DEF Ops
  <1>2. NoJob \in Jobs  BY <1>1, AnyUserType, JobType DEF NoJob
  <1> QED BY <1>2 DEF NoJob, Job

\* How a step in which task t leaves the service lock changes the tasks
Returned(t) ==
  /\ job' \in [Procs -> Jobs]
  /\ pc' = [pc EXCEPT ![t] = pc'[t]]
  /\ job' = [job EXCEPT ![t] = job'[t]]
  /\ pc'[t] \in {"idle", "sweep"}
  /\ job'[t].todo \subseteq Keys
  /\ pc'[t] = "sweep" => job'[t].op = "block"
  /\ xlock' = NoTask
  /\ ulock' \in [Users -> Tasks \cup {NoTask}]

\* A task that leaves the service lock is idle again, or goes on with its sweep.
LEMMA ReturnFacts ==
  ASSUME TypeOK, NEW t \in Tasks, NEW ok \in BOOLEAN, Return(t, ok),
         job[t].op = "block" => job[t].key \in Keys, job[t].todo \subseteq Keys
  PROVE  Returned(t)
  <1> USE DEF Returned
  <1>1. CASE job[t].op = "block"
    <2>1. job' \in [Procs -> Jobs]  BY <1>1 DEF Return, TypeOK, Jobs, Procs, Statuses
    <2>2. job'[t].todo = job[t].todo /\ job'[t].op = "block" /\ job' = [job EXCEPT ![t] = job'[t]]
      BY <1>1 DEF Return, TypeOK, Jobs, Procs
    <2>3. pc' = [pc EXCEPT ![t] = "sweep"] /\ ulock' = ulock /\ xlock' = NoTask
      BY <1>1 DEF Return, Goto
    <2> QED BY <2>1, <2>2, <2>3 DEF TypeOK, Procs
  <1>2. CASE job[t].op # "block"
    <2>1. job' = [job EXCEPT ![t] = NoJob] /\ pc' = [pc EXCEPT ![t] = "idle"]
          /\ ulock' = [u \in Users |-> IF ulock[u] = t THEN NoTask ELSE ulock[u]]
      BY <1>2 DEF Return, Goto
    <2> QED BY <2>1, NoJobType DEF TypeOK, Procs, Return
  <1> QED BY <1>1, <1>2

-----------------------------------------------------------------------------
(* Callers and locks.                                                      *)

\* Keeps the invariant: create_xray_key up to its first await.
LEMMA StartCreateInd == ASSUME IndInv, NEW t \in Tasks, StartCreate(t) PROVE IndInv'
  <1> USE ConfigAssumption, KeysAssumption DEF IndInv, Procs
  <1>1. job' \in [Procs -> Jobs]
    <2>1. PICK u \in Users, g \in BOOLEAN : Start(t, "user", Job("create", u, g, NoKey, {}))
      BY DEF StartCreate
    <2>2. Job("create", u, g, NoKey, {}) \in Jobs  BY JobType DEF Ops, Edits
    <2> QED BY <2>1, <2>2 DEF Start, TypeOK
  <1>2. TypeOK'
    BY <1>1 DEF TypeOK, ConfigTypeOK, PCs, Goto, configVars, historyVars, StartCreate, Start, Idle
  <1>3. LockInv'  BY <1>2 DEF TypeOK, LockInv, Critical, Goto, StartCreate, Start, Idle
  <1>4. TaskInv'
    BY <1>2 DEF TypeOK, LockInv, TaskInv, Critical, Working, Goto, Jobs, Job, StartCreate,
       Start, Idle
  <1>5. BootTaskInv'
    BY <1>2 DEF TypeOK, LockInv, BootTaskInv, Goto, Jobs, Job, StartCreate, Start, Idle
  <1>6. SavedInv' /\ RemovedInv'
    BY <1>2 DEF TypeOK, SavedInv, RemovedInv, Applying, InConf, Goto, Jobs, configVars,
       historyVars, Job, StartCreate, Start, Idle
  <1>7. GhostInv'  BY <1>2 DEF TypeOK, GhostInv, configVars, historyVars, StartCreate, Start, Idle
  <1>8. ScanInv'
    BY <1>2 DEF TypeOK, ScanInv, Listing, InConf, Goto, Jobs, configVars, Job, StartCreate,
       Start, Idle
  <1> QED BY <1>2, <1>3, <1>4, <1>5, <1>6, <1>7, <1>8

\* Keeps the invariant: revoke_xray_key, delete_xray_key and reconcile_key_status up to the lock.
LEMMA StartManageInd == ASSUME IndInv, NEW t \in Tasks, StartManage(t) PROVE IndInv'
  <1> USE ConfigAssumption, KeysAssumption DEF IndInv, Procs
  <1>1. job' \in [Procs -> Jobs]
    <2>1. PICK k \in Keys, op \in {"revoke", "delete", "reconcile"} : Start(t, "lock", Job(op, AnyUser, FALSE, k, {}))
      BY DEF StartManage
    <2>2. Job(op, AnyUser, FALSE, k, {}) \in Jobs  BY JobType, AnyUserType DEF Ops, Edits, Clients
    <2> QED BY <2>1, <2>2 DEF Start, TypeOK
  <1>2. TypeOK'
    <2>1. \E l \in {"lock", "user"} : \E j : Start(t, l, j)  BY DEF StartManage
    <2> QED BY <1>1, <2>1 DEF TypeOK, ConfigTypeOK, PCs, Start, Goto, configVars, historyVars
  <1>3. LockInv'  BY <1>2 DEF TypeOK, LockInv, Critical, Goto, StartManage, Start, Idle
  <1>4. TaskInv'
    BY <1>2 DEF TypeOK, LockInv, TaskInv, Critical, Working, Goto, Jobs, Job, StartManage,
       Start, Idle
  <1>5. BootTaskInv'
    BY <1>2 DEF TypeOK, LockInv, BootTaskInv, Goto, Jobs, Job, StartManage, Start, Idle
  <1>6. SavedInv' /\ RemovedInv'
    BY <1>2 DEF TypeOK, SavedInv, RemovedInv, Applying, InConf, Goto, Jobs, configVars,
       historyVars, Job, StartManage, Start, Idle
  <1>7. GhostInv'  BY <1>2 DEF TypeOK, GhostInv, configVars, historyVars, StartManage, Start, Idle
  <1>8. ScanInv'
    BY <1>2 DEF TypeOK, ScanInv, Listing, InConf, Goto, Jobs, configVars, Job, StartManage,
       Start, Idle
  <1> QED BY <1>2, <1>3, <1>4, <1>5, <1>6, <1>7, <1>8

\* Keeps the invariant: block_user up to the user lock.
LEMMA StartBlockInd == ASSUME IndInv, NEW t \in Tasks, StartBlock(t) PROVE IndInv'
  <1> USE ConfigAssumption, KeysAssumption DEF IndInv, Procs
  <1>1. job' \in [Procs -> Jobs]
    <2>1. PICK u \in Users : Start(t, "user", Job("block", u, FALSE, NoKey, {}))  BY DEF StartBlock
    <2>2. Job("block", u, FALSE, NoKey, {}) \in Jobs  BY JobType DEF Ops, Edits
    <2> QED BY <2>1, <2>2 DEF Start, TypeOK
  <1>2. TypeOK'
    <2>1. \E l \in {"lock", "user"} : \E j : Start(t, l, j)  BY DEF StartBlock
    <2> QED BY <1>1, <2>1 DEF TypeOK, ConfigTypeOK, PCs, Start, Goto, configVars, historyVars
  <1>3. LockInv'  BY <1>2 DEF TypeOK, LockInv, Critical, Goto, StartBlock, Start, Idle
  <1>4. TaskInv'
    BY <1>2 DEF TypeOK, LockInv, TaskInv, Critical, Working, Goto, Jobs, Job, StartBlock, Start,
       Idle
  <1>5. BootTaskInv'
    BY <1>2 DEF TypeOK, LockInv, BootTaskInv, Goto, Jobs, Job, StartBlock, Start, Idle
  <1>6. SavedInv' /\ RemovedInv'
    BY <1>2 DEF TypeOK, SavedInv, RemovedInv, Applying, InConf, Goto, Jobs, configVars,
       historyVars, Job, StartBlock, Start, Idle
  <1>7. GhostInv'  BY <1>2 DEF TypeOK, GhostInv, configVars, historyVars, StartBlock, Start, Idle
  <1>8. ScanInv'
    BY <1>2 DEF TypeOK, ScanInv, Listing, InConf, Goto, Jobs, configVars, Job, StartBlock,
       Start, Idle
  <1> QED BY <1>2, <1>3, <1>4, <1>5, <1>6, <1>7, <1>8

\* Keeps the invariant: a task enters the user lock, or a create is refused there.
LEMMA AcquireUserInd == ASSUME IndInv, NEW t \in Tasks, AcquireUser(t) PROVE IndInv'
  <1> USE ConfigAssumption, KeysAssumption DEF IndInv, Procs
  <1>1. job' \in [Procs -> Jobs]  BY NoJobType DEF TypeOK, AcquireUser
  <1>2. TypeOK'  BY <1>1 DEF TypeOK, ConfigTypeOK, PCs, Goto, configVars, historyVars, AcquireUser
  <1>3. LockInv'  BY <1>2 DEF TypeOK, LockInv, Critical, Goto, AcquireUser
  <1>4. TaskInv'
    BY <1>2 DEF TypeOK, LockInv, TaskInv, Critical, Working, Dead, Job, NoJob, Rest, Jobs, Ops,
       Edits, Statuses, Inbounds, Clients, MayExist, Rows, AcquireUser, configVars, historyVars,
       serviceVars, Goto
  <1>5. BootTaskInv'  BY <1>2 DEF TypeOK, LockInv, BootTaskInv, Goto, Jobs, AcquireUser
  <1>6. SavedInv' /\ RemovedInv'
    BY <1>2 DEF TypeOK, SavedInv, RemovedInv, Applying, InConf, Goto, Jobs, configVars,
       historyVars, AcquireUser
  <1>7. GhostInv'  BY <1>2 DEF TypeOK, GhostInv, configVars, historyVars, AcquireUser
  <1>8. ScanInv'  BY <1>2 DEF TypeOK, ScanInv, Listing, InConf, Goto, Jobs, configVars, AcquireUser
  <1> QED BY <1>2, <1>3, <1>4, <1>5, <1>6, <1>7, <1>8

\* Keeps the invariant: a task enters XrayService._lock.
LEMMA AcquireLockInd == ASSUME IndInv, NEW t \in Tasks, AcquireLock(t) PROVE IndInv'
  <1> USE ConfigAssumption, KeysAssumption DEF IndInv, Procs
  <1>1. job' \in [Procs -> Jobs]  BY DEF TypeOK, AcquireLock
  <1>2. TypeOK'  BY <1>1 DEF TypeOK, ConfigTypeOK, PCs, Goto, configVars, historyVars, AcquireLock
  <1>3. LockInv'  BY <1>2 DEF TypeOK, LockInv, Critical, Goto, AcquireLock
  <1>4. TaskInv'  BY <1>2 DEF TypeOK, LockInv, TaskInv, Critical, Working, Goto, Jobs, AcquireLock
  <1>5. BootTaskInv'  BY <1>2 DEF TypeOK, LockInv, BootTaskInv, Goto, Jobs, AcquireLock
  <1>6. SavedInv' /\ RemovedInv'
    BY <1>2 DEF TypeOK, SavedInv, RemovedInv, Applying, InConf, Goto, Jobs, configVars,
       historyVars, AcquireLock
  <1>7. GhostInv'  BY <1>2 DEF TypeOK, GhostInv, configVars, historyVars, AcquireLock
  <1>8. ScanInv'  BY <1>2 DEF TypeOK, ScanInv, Listing, InConf, Goto, Jobs, configVars, AcquireLock
  <1> QED BY <1>2, <1>3, <1>4, <1>5, <1>6, <1>7, <1>8

-----------------------------------------------------------------------------
(* Under the service lock.                                                 *)

\* Keeps the invariant: an operation is refused under the lock.
LEMMA MarkRefusedInd == ASSUME IndInv, NEW t \in Tasks, MarkRefused(t) PROVE IndInv'
  <1> USE ConfigAssumption, KeysAssumption DEF IndInv, Procs
  <1>1. Returned(t)  BY ReturnFacts DEF TaskInv, Working, Critical, MarkRefused
  <1>2. TypeOK'
    BY <1>1 DEF Returned, TypeOK, ConfigTypeOK, PCs, configVars, historyVars, MarkRefused
  <1>3. LockInv'  BY <1>1, <1>2 DEF Returned, TypeOK, LockInv, Critical, MarkRefused
  <1>4. TaskInv'
    BY <1>1, <1>2 DEF Returned, TypeOK, LockInv, TaskInv, Critical, Working, MarkRefused
  <1>5. BootTaskInv' /\ ScanInv'
    BY <1>1, <1>2 DEF Returned, TypeOK, LockInv, BootTaskInv, ScanInv, Listing, Critical,
       Stages, InConf, configVars, MarkRefused
  <1>6. SavedInv' /\ RemovedInv'
    BY <1>1, <1>2 DEF Returned, TypeOK, LockInv, SavedInv, RemovedInv, Critical, Applying,
       InConf, configVars, historyVars, MarkRefused
  <1>7. GhostInv'
    BY <1>1, <1>2 DEF Returned, TypeOK, GhostInv, Dead, configVars, historyVars, MarkRefused
  <1> QED BY <1>2, <1>3, <1>4, <1>5, <1>6, <1>7

\* Keeps the invariant: a create passes its checks under the lock.
LEMMA MarkCreateInd == ASSUME IndInv, NEW t \in Tasks, MarkCreate(t) PROVE IndInv'
  <1> USE ConfigAssumption, KeysAssumption DEF IndInv, Procs
  <1>1. job' \in [Procs -> Jobs]  BY DEF TypeOK, MarkCreate
  <1>2. TypeOK'  BY <1>1 DEF TypeOK, ConfigTypeOK, PCs, Goto, configVars, historyVars, MarkCreate
  <1>3. LockInv'  BY <1>2 DEF TypeOK, LockInv, Critical, Goto, MarkCreate
  <1>4. TaskInv'  BY <1>2 DEF TypeOK, LockInv, TaskInv, Critical, Working, Goto, Jobs, MarkCreate
  <1>5. BootTaskInv'  BY <1>2 DEF TypeOK, LockInv, BootTaskInv, Goto, Jobs, MarkCreate
  <1>6. SavedInv' /\ RemovedInv'
    BY <1>2 DEF TypeOK, SavedInv, RemovedInv, Applying, InConf, Goto, Jobs, configVars,
       historyVars, MarkCreate
  <1>7. GhostInv'  BY <1>2 DEF TypeOK, GhostInv, configVars, historyVars, MarkCreate
  <1>8. ScanInv'  BY <1>2 DEF TypeOK, ScanInv, Listing, InConf, Goto, Jobs, configVars, MarkCreate
  <1> QED BY <1>2, <1>3, <1>4, <1>5, <1>6, <1>7, <1>8

\* Keeps the invariant: create_pending writes a fresh row; a key that was absent is not in the file.
LEMMA InsertInd == ASSUME IndInv, NEW t \in Tasks, Insert(t) PROVE IndInv'
  <1> USE ConfigAssumption, KeysAssumption DEF IndInv, Procs
  <1>1. job' \in [Procs -> Jobs]  BY DEF TypeOK, Jobs, Inbounds, Clients, Insert
  <1>2. TypeOK'
    BY <1>1 DEF TypeOK, ConfigTypeOK, PCs, Goto, configVars, historyVars, Statuses, Stages,
       Roles, Rows, Insert
  <1>3. LockInv'  BY <1>2 DEF TypeOK, LockInv, Critical, Goto, Insert
  <1>4. TaskInv'
    BY <1>2 DEF TypeOK, LockInv, TaskInv, Critical, Working, Goto, Jobs, Dead, MayExist,
       Statuses, Rows, Insert
  <1>5. BootTaskInv'  BY <1>2 DEF TypeOK, LockInv, BootTaskInv, Goto, Jobs, Insert
  <1>6. SavedInv' /\ RemovedInv'
    BY <1>2 DEF TypeOK, SavedInv, RemovedInv, Applying, InConf, Goto, Jobs, configVars,
       historyVars, Insert
  <1>7. GhostInv'
    BY <1>2 DEF TypeOK, GhostInv, configVars, historyVars, SavedInv, RemovedInv, TaskInv,
       LockInv, BootTaskInv, Critical, Working, Applying, Dead, InConf, Insert
  <1>8. ScanInv'
    BY <1>2 DEF TypeOK, ScanInv, Listing, InConf, Goto, Jobs, configVars, LockInv, BootTaskInv,
       Dead, Critical, Stages, Rows, Statuses, Inbounds, Insert
  <1> QED BY <1>2, <1>3, <1>4, <1>5, <1>6, <1>7, <1>8

\* Keeps the invariant: a revoke marks its row.
LEMMA MarkRevokeInd == ASSUME IndInv, NEW t \in Tasks, MarkRevoke(t) PROVE IndInv'
  <1> USE ConfigAssumption, KeysAssumption DEF IndInv, Procs
  <1>1. job' \in [Procs -> Jobs]
    <2>1. job[t].key \in Keys  BY DEF TaskInv, MarkRevoke
    <2>2. status[job[t].key] \in Statuses  BY <2>1 DEF TypeOK
    <2> QED BY <2>2 DEF TypeOK, Jobs, MarkRevoke
  <1>2. TypeOK'
    BY <1>1 DEF TypeOK, ConfigTypeOK, PCs, Goto, configVars, historyVars, Statuses, Stages,
       Roles, Rows, MarkRevoke
  <1>3. LockInv'  BY <1>2 DEF TypeOK, LockInv, Critical, Goto, MarkRevoke
  <1>4. TaskInv'
    BY <1>2 DEF TypeOK, LockInv, TaskInv, Critical, Working, Goto, Jobs, Dead, MayExist,
       Statuses, Rows, MarkRevoke
  <1>5. BootTaskInv'  BY <1>2 DEF TypeOK, LockInv, BootTaskInv, Goto, Jobs, MarkRevoke
  <1>6. SavedInv' /\ RemovedInv'
    BY <1>2 DEF TypeOK, SavedInv, RemovedInv, Applying, InConf, Goto, Jobs, configVars,
       historyVars, MarkRevoke
  <1>7. GhostInv'
    BY <1>2 DEF TypeOK, GhostInv, configVars, historyVars, SavedInv, RemovedInv, TaskInv,
       LockInv, BootTaskInv, Critical, Working, Applying, Dead, InConf, MarkRevoke
  <1>8. ScanInv'
    BY <1>2 DEF TypeOK, ScanInv, Listing, InConf, Goto, Jobs, configVars, LockInv, BootTaskInv,
       Dead, Critical, Stages, Rows, Statuses, Inbounds, MarkRevoke
  <1> QED BY <1>2, <1>3, <1>4, <1>5, <1>6, <1>7, <1>8

\* Keeps the invariant: a revoke finds its work done.
LEMMA AlreadyRevokedInd == ASSUME IndInv, NEW t \in Tasks, AlreadyRevoked(t) PROVE IndInv'
  <1> USE ConfigAssumption, KeysAssumption DEF IndInv, Procs
  <1>1. Returned(t)  BY ReturnFacts DEF TaskInv, Working, Critical, AlreadyRevoked
  <1>2. TypeOK'
    BY <1>1 DEF Returned, TypeOK, ConfigTypeOK, PCs, configVars, historyVars, AlreadyRevoked
  <1>3. LockInv'  BY <1>1, <1>2 DEF Returned, TypeOK, LockInv, Critical, AlreadyRevoked
  <1>4. TaskInv'
    BY <1>1, <1>2 DEF Returned, TypeOK, LockInv, TaskInv, Critical, Working, AlreadyRevoked
  <1>5. BootTaskInv' /\ ScanInv'
    BY <1>1, <1>2 DEF Returned, TypeOK, LockInv, BootTaskInv, ScanInv, Listing, Critical,
       Stages, InConf, configVars, AlreadyRevoked
  <1>6. SavedInv' /\ RemovedInv'
    BY <1>1, <1>2 DEF Returned, TypeOK, LockInv, SavedInv, RemovedInv, Critical, Applying,
       InConf, configVars, historyVars, AlreadyRevoked
  <1>7. GhostInv'
    BY <1>1, <1>2 DEF Returned, TypeOK, GhostInv, Dead, configVars, historyVars, AlreadyRevoked
  <1> QED BY <1>2, <1>3, <1>4, <1>5, <1>6, <1>7

\* Keeps the invariant: a delete marks its row; it may skip the backend because a revoked key has no client.
LEMMA MarkDeleteInd == ASSUME IndInv, NEW t \in Tasks, MarkDelete(t) PROVE IndInv'
  <1> USE ConfigAssumption, KeysAssumption DEF IndInv, Procs
  <1>1. job' \in [Procs -> Jobs]
    <2>1. job[t].key \in Keys  BY DEF TaskInv, MarkDelete
    <2>2. status[job[t].key] \in Statuses  BY <2>1 DEF TypeOK
    <2> QED BY <2>2 DEF TypeOK, Jobs, MarkDelete
  <1>2. TypeOK'
    BY <1>1 DEF TypeOK, ConfigTypeOK, PCs, Goto, configVars, historyVars, Statuses, Stages,
       Roles, Rows, MarkDelete
  <1>3. LockInv'  BY <1>2 DEF TypeOK, LockInv, Critical, Goto, MarkDelete
  <1>4. TaskInv'
    BY <1>2 DEF TypeOK, LockInv, TaskInv, Critical, Working, Goto, Jobs, Dead, MayExist,
       Statuses, Rows, MarkDelete
  <1>5. BootTaskInv'  BY <1>2 DEF TypeOK, LockInv, BootTaskInv, Goto, Jobs, MarkDelete
  <1>6. SavedInv' /\ RemovedInv'
    <2>1. pc[t] = "mark" /\ job[t].op = "delete" /\ job[t].key \in Keys /\ conf' = conf /\ saved' = saved
          /\ sids' = sids /\ tampered' = tampered
      BY DEF MarkDelete, TaskInv, configVars, historyVars
    <2>2. \A x \in Procs : x # t => pc'[x] = pc[x] /\ job'[x] = job[x]
      BY DEF MarkDelete, Goto, TypeOK
    <2>3. pc'[t] \in {"edit", "finish"} /\ job'[t].op = "delete" /\ job'[t].key = job[t].key
          /\ (pc'[t] = "finish" => status[job[t].key] \in Dead)
      BY <2>1 DEF MarkDelete, Goto, TypeOK, Jobs, Rows, MayExist, Dead, Statuses
    <2>4. SavedInv'  BY <2>1, <2>2, <2>3 DEF SavedInv, Applying
    <2> QED BY <2>1, <2>2, <2>3, <2>4 DEF RemovedInv, GhostInv, InConf
  <1>7. GhostInv'
    BY <1>2 DEF TypeOK, GhostInv, configVars, historyVars, SavedInv, RemovedInv, TaskInv,
       LockInv, BootTaskInv, Critical, Working, Applying, Dead, InConf, MarkDelete
  <1>8. ScanInv'
    BY <1>2 DEF TypeOK, ScanInv, Listing, InConf, Goto, Jobs, configVars, LockInv, BootTaskInv,
       Dead, Critical, Stages, Rows, Statuses, Inbounds, MarkDelete
  <1> QED BY <1>2, <1>3, <1>4, <1>5, <1>6, <1>7, <1>8

\* Keeps the invariant: reconcile_key_status settles a row from the file.
LEMMA ManualReconcileInd == ASSUME IndInv, NEW t \in Tasks, ManualReconcile(t) PROVE IndInv'
  <1> USE ConfigAssumption, KeysAssumption DEF IndInv, Procs
  <1>1. Returned(t)  BY ReturnFacts DEF TaskInv, Working, Critical, ManualReconcile
  <1>2. TypeOK'
    BY <1>1 DEF Returned, TypeOK, TaskInv, Working, Critical, ConfigTypeOK, ClientTables,
       Clients, Inbounds, Procs, PCs, Statuses, Roles, Stages, Rows, MayExist, Down,
       ManualReconcile, Settled, MarkActive, InConf, configVars, historyVars, serviceVars, Goto
  <1>3. LockInv'
    BY <1>1, <1>2 DEF Returned, TypeOK, LockInv, Critical, ManualReconcile, Settled, MarkActive,
       InConf
  <1>4. TaskInv'
    BY <1>1, <1>2 DEF Returned, TypeOK, LockInv, TaskInv, Critical, Working, ManualReconcile,
       Settled, MarkActive, InConf
  <1>5. BootTaskInv' /\ ScanInv'
    BY <1>1, <1>2 DEF Returned, TypeOK, LockInv, BootTaskInv, ScanInv, Listing, Critical,
       Stages, InConf, configVars, ManualReconcile, Settled, MarkActive
  <1>6. SavedInv' /\ RemovedInv'
    BY <1>1, <1>2 DEF Returned, TypeOK, LockInv, SavedInv, RemovedInv, Critical, Applying,
       InConf, configVars, historyVars, ManualReconcile, Settled, MarkActive
  <1>7. GhostInv'
    BY <1>1, <1>2 DEF Returned, TypeOK, GhostInv, Dead, configVars, historyVars,
       ManualReconcile, Settled, MarkActive, InConf
  <1> QED BY <1>2, <1>3, <1>4, <1>5, <1>6, <1>7

-----------------------------------------------------------------------------
(* Edits, by tasks and by startup.                                         *)

\* Keeps the invariant: the adapter refuses an edit.
LEMMA EditRefusedInd == ASSUME IndInv, NEW t \in Procs, EditRefused(t) PROVE IndInv'
  <1> USE ConfigAssumption, KeysAssumption DEF IndInv, Procs
  <1>1. job' \in [Procs -> Jobs]  BY DEF TypeOK, EditRefused
  <1>2. TypeOK'  BY <1>1 DEF TypeOK, ConfigTypeOK, PCs, Goto, configVars, historyVars, EditRefused
  <1>3. LockInv'  BY <1>2 DEF TypeOK, LockInv, Critical, Goto, EditRefused
  <1>4. TaskInv'  BY <1>2 DEF TypeOK, LockInv, TaskInv, Critical, Working, Goto, Jobs, EditRefused
  <1>5. BootTaskInv'  BY <1>2 DEF TypeOK, LockInv, BootTaskInv, Goto, Jobs, EditRefused
  <1>6. SavedInv' /\ RemovedInv'
    BY <1>2 DEF TypeOK, SavedInv, RemovedInv, Applying, InConf, Goto, Jobs, configVars,
       historyVars, EditRefused
  <1>7. GhostInv'  BY <1>2 DEF TypeOK, GhostInv, configVars, historyVars, EditRefused
  <1>8. ScanInv'  BY <1>2 DEF TypeOK, ScanInv, Listing, InConf, Goto, Jobs, configVars, EditRefused
  <1> QED BY <1>2, <1>3, <1>4, <1>5, <1>6, <1>7, <1>8

\* Keeps the invariant: add_client replaces the file; the row of its client is alive.
LEMMA EditAddInd == ASSUME IndInv, NEW t \in Procs, EditAdd(t) PROVE IndInv'
  <1> USE ConfigAssumption, KeysAssumption DEF IndInv, Procs
  <1>1. job' \in [Procs -> Jobs]
    <2>1. \E b \in BOOLEAN : job' = [job EXCEPT ![t].ins = b]  BY Zenon DEF EditAdd
    <2> QED BY <2>1 DEF TypeOK, Jobs
  <1>2. TypeOK'
    BY <1>1 DEF TypeOK, TaskInv, BootTaskInv, Working, Critical, ConfigTypeOK, ClientTables,
       Clients, Inbounds, Procs, PCs, Statuses, Roles, Stages, Rows, MayExist, Down, EditAdd,
       AddClient, Replace, ManagedSid, InConf, configVars, historyVars, serviceVars, Goto
  <1>3. LockInv'
    BY <1>2 DEF TypeOK, LockInv, Critical, Goto, EditAdd, AddClient, Replace, ManagedSid, InConf
  <1>4. TaskInv'
    BY <1>2 DEF TypeOK, LockInv, TaskInv, Critical, Working, Goto, Jobs, EditAdd, AddClient,
       Replace, ManagedSid, InConf
  <1>5. BootTaskInv'
    BY <1>2 DEF TypeOK, LockInv, BootTaskInv, Goto, Jobs, EditAdd, AddClient, Replace,
       ManagedSid, InConf
  <1>6. SavedInv' /\ RemovedInv'
    <2>1. job[t].op \in {"create", "restore"} /\ pc[t] = "edit" /\ pc' = [pc EXCEPT ![t] = "apply"]
      BY DEF EditAdd, Goto
    <2>2. job'[t].op = job[t].op /\ \A x \in Procs : x # t => pc'[x] = pc[x] /\ job'[x] = job[x] /\ pc[x] \notin {"apply", "finish"}
      BY <2>1 DEF EditAdd, TypeOK, Jobs, LockInv, Critical, BootTaskInv, Stages
    <2> QED BY <2>1, <2>2 DEF TypeOK, SavedInv, RemovedInv, Applying
  <1>7. GhostInv'
    <2>1. job[t].key \in Keys /\ status[job[t].key] \notin Dead
      BY DEF EditAdd, TaskInv, BootTaskInv, Working, Critical, Dead
    <2>2. UNCHANGED <<status, tampered>> /\ saved'.conf = conf
          /\ conf' = [conf EXCEPT ![Transport[job[t].key]] = @ \cup {job[t].key}]
      BY DEF EditAdd, AddClient, Replace, historyVars
    <2> QED BY <2>1, <2>2 DEF TypeOK, ConfigTypeOK, ClientTables, GhostInv
  <1>8. ScanInv'
    BY <1>2 DEF TypeOK, ConfigTypeOK, ClientTables, LockInv, TaskInv, BootTaskInv, ScanInv,
       Listing, Dead, Critical, Working, InConf, Job, NoJob, Rest, Jobs, Ops, Edits, Statuses,
       Inbounds, Clients, MayExist, Rows, EditAdd, AddClient, Replace, ManagedSid, configVars,
       historyVars, serviceVars, Goto
  <1> QED BY <1>2, <1>3, <1>4, <1>5, <1>6, <1>7, <1>8

\* Keeps the invariant: remove_client replaces the file.
LEMMA EditRemoveInd == ASSUME IndInv, NEW t \in Procs, EditRemove(t) PROVE IndInv'
  <1> USE ConfigAssumption, KeysAssumption DEF IndInv, Procs
  <1>1. job' \in [Procs -> Jobs]  BY DEF TypeOK, EditRemove
  <1>2. TypeOK'
    <2>1. job[t].key \in Keys  BY DEF EditRemove, TaskInv, BootTaskInv, Removals, Working, Critical
    <2>2. Transport[job[t].key] \in Inbounds /\ Inbound(t) \in Inbounds  BY <2>1 DEF Inbound
    <2>3. PICK i \in Inbounds : conf' = [conf EXCEPT ![i] = @ \ {job[t].key}]
                              /\ saved' = [conf |-> conf, sids |-> sids] /\ live' = live
      BY <2>2 DEF EditRemove, RemoveClient, Replace
    <2>4. sids' \subseteq sids  BY DEF EditRemove, RemoveClient, Replace
    <2>5. ConfigTypeOK'  BY <2>3, <2>4 DEF TypeOK, ConfigTypeOK, ClientTables
    <2>6. pc' \in [Procs -> PCs]  BY DEF EditRemove, Goto, TypeOK, PCs
    <2> QED BY <1>1, <2>5, <2>6 DEF TypeOK, EditRemove, historyVars
  <1>3. LockInv'
    BY <1>2 DEF TypeOK, LockInv, Critical, Goto, EditRemove, Inbound, RemoveClient,
       RemovalChanges, Replace, Removals, Droppable, ManagedSid
  <1>4. TaskInv'
    <2>1. UNCHANGED <<job, status>> /\ pc' = [pc EXCEPT ![t] = "apply"] /\ pc[t] = "edit"
      BY DEF EditRemove, Goto
    <2> QED BY <2>1 DEF TypeOK, TaskInv, Working, Critical
  <1>5. BootTaskInv'
    BY <1>2 DEF TypeOK, LockInv, BootTaskInv, Goto, Jobs, EditRemove, Inbound, RemoveClient,
       RemovalChanges, Replace, Removals, Droppable, ManagedSid
  <1>6. SavedInv' /\ RemovedInv'
    <2>1. UNCHANGED <<job, status, phase, tampered>> /\ pc' = [pc EXCEPT ![t] = "apply"] /\ pc[t] = "edit"
      BY DEF EditRemove, Goto, historyVars
    <2>2. job[t].key \in Keys /\ Inbound(t) \in Inbounds
      BY DEF EditRemove, TaskInv, BootTaskInv, Working, Critical, Inbound, Removals
    <2>3. conf' = [conf EXCEPT ![Inbound(t)] = @ \ {job[t].key}]
      BY DEF EditRemove, RemoveClient, Replace
    <2>4. \A k \in Keys : InConf(k)' => InConf(k)
      BY <2>2, <2>3 DEF InConf, TypeOK, ConfigTypeOK, ClientTables
    <2>5. SavedInv'  BY <2>1 DEF SavedInv, Applying, TypeOK
    <2>6. \A x \in Procs : x # t => pc'[x] = pc[x]  BY <2>1 DEF TypeOK
    <2>7. job[t].op \in {"revoke", "block", "delete"} => Inbound(t) = Transport[job[t].key]
      BY <2>1 DEF Inbound, TaskInv, BootTaskInv, LockInv, Inbounds
    <2>8. job[t].op \in {"revoke", "block", "delete"} => ~InConf(job[t].key)'
      BY <2>2, <2>3, <2>7, <2>1 DEF InConf, TypeOK, ConfigTypeOK, ClientTables
    <2>9. \A x \in Procs : pc[x] \in {"apply", "finish"} /\ job[x].op \in {"revoke", "block", "delete"} => job[x].key \in Keys
      BY DEF TaskInv, BootTaskInv, Working, Critical
    <2> QED BY <2>1, <2>4, <2>5, <2>6, <2>8, <2>9 DEF RemovedInv
  <1>7. GhostInv'
    BY <1>2 DEF TypeOK, GhostInv, configVars, historyVars, EditRemove, Inbound, RemoveClient,
       RemovalChanges, Replace, Removals, Droppable, ManagedSid
  <1>8. ScanInv'
    <2>1. UNCHANGED <<job, status, phase>> /\ pc' = [pc EXCEPT ![t] = "apply"] /\ pc[t] = "edit"
      BY DEF EditRemove, Goto
    <2>2. job[t].key \in Keys /\ Inbound(t) \in Inbounds
      BY DEF EditRemove, TaskInv, BootTaskInv, Working, Critical, Inbound, Removals
    <2>3. conf' = [conf EXCEPT ![Inbound(t)] = @ \ {job[t].key}]
      BY DEF EditRemove, RemoveClient, Replace
    <2>4. \A k \in Keys : InConf(k)' => InConf(k)
      BY <2>2, <2>3 DEF InConf, TypeOK, ConfigTypeOK, ClientTables
    <2>5. CASE t # Boot  BY <2>1, <2>4, <2>5 DEF ScanInv, Listing, TypeOK
    <2>6. CASE t = Boot
      <3>1. pc'[Boot] = "apply"  BY <2>1, <2>6 DEF TypeOK
      <3>2. ASSUME NEW k \in Keys, status[k] \in Dead, InConf(k)', ~(phase \in {"down", "up", "reconcile"})
            PROVE  k # job[Boot].key \/ (Transport[k] # phase /\ phase \in Inbounds)
                     \/ (phase = "nonlive" /\ status[k] # "revoked")
        BY <2>2, <2>3, <2>6, <3>2 DEF Inbound, InConf, TypeOK, ConfigTypeOK, ClientTables,
           Dead, Rows, Statuses, Inbounds
      <3> QED BY <2>1, <2>4, <2>6, <3>1, <3>2 DEF ScanInv, Listing, Inbounds, TypeOK
    <2> QED BY <2>5, <2>6
  <1> QED BY <1>2, <1>3, <1>4, <1>5, <1>6, <1>7, <1>8

\* Keeps the invariant: remove_client finds nothing to remove.
LEMMA EditNothingInd == ASSUME IndInv, NEW t \in Procs, EditNothing(t) PROVE IndInv'
  <1> USE ConfigAssumption, KeysAssumption DEF IndInv, Procs
  <1>1. job' \in [Procs -> Jobs]  BY DEF TypeOK, EditNothing
  <1>2. TypeOK'
    BY <1>1 DEF TypeOK, ConfigTypeOK, PCs, Goto, configVars, historyVars, EditNothing, Inbound,
       RemovalChanges, Removals
  <1>3. LockInv'
    BY <1>2 DEF TypeOK, LockInv, Critical, Goto, EditNothing, Inbound, RemovalChanges, Removals
  <1>4. TaskInv'
    BY <1>2 DEF TypeOK, LockInv, TaskInv, Critical, Working, Goto, Jobs, EditNothing, Inbound,
       RemovalChanges, Removals
  <1>5. BootTaskInv'
    BY <1>2 DEF TypeOK, LockInv, BootTaskInv, Goto, Jobs, EditNothing, Inbound, RemovalChanges,
       Removals
  <1>6. SavedInv' /\ RemovedInv'
    BY <1>2 DEF TypeOK, ConfigTypeOK, ClientTables, LockInv, TaskInv, BootTaskInv, SavedInv,
       RemovedInv, Critical, Working, Applying, InConf, Job, NoJob, Rest, Jobs, Ops, Edits,
       Statuses, Inbounds, Clients, MayExist, Rows, EditNothing, Inbound, RemovalChanges,
       Removals, configVars, historyVars, serviceVars, Goto
  <1>7. GhostInv'
    BY <1>2 DEF TypeOK, GhostInv, configVars, historyVars, EditNothing, Inbound, RemovalChanges,
       Removals
  <1>8. ScanInv'
    BY <1>2 DEF TypeOK, ScanInv, Listing, InConf, Goto, Jobs, configVars, LockInv, BootTaskInv,
       Dead, Critical, Stages, Rows, Statuses, Inbounds, EditNothing, Inbound, RemovalChanges,
       Removals
  <1> QED BY <1>2, <1>3, <1>4, <1>5, <1>6, <1>7, <1>8

\* Keeps the invariant: ensure_short_id replaces the file.
LEMMA EditShortIdInd == ASSUME IndInv, NEW t \in Procs, EditShortId(t) PROVE IndInv'
  <1> USE ConfigAssumption, KeysAssumption DEF IndInv, Procs
  <1>1. job' \in [Procs -> Jobs]  BY DEF TypeOK, EditShortId
  <1>2. TypeOK'
    BY <1>1 DEF TypeOK, TaskInv, BootTaskInv, Working, Critical, ConfigTypeOK, ClientTables,
       Clients, Inbounds, Procs, PCs, Statuses, Roles, Stages, Rows, MayExist, Down,
       EditShortId, EnsureShortId, Replace, ManagedSid, configVars, historyVars, serviceVars,
       Goto
  <1>3. LockInv'
    BY <1>2 DEF TypeOK, LockInv, Critical, Goto, EditShortId, EnsureShortId, Replace, ManagedSid
  <1>4. TaskInv'
    BY <1>2 DEF TypeOK, LockInv, TaskInv, Critical, Working, Goto, Jobs, EditShortId,
       EnsureShortId, Replace, ManagedSid
  <1>5. BootTaskInv'
    BY <1>2 DEF TypeOK, LockInv, BootTaskInv, Goto, Jobs, EditShortId, EnsureShortId, Replace,
       ManagedSid
  <1>6. SavedInv' /\ RemovedInv'
    BY <1>2 DEF TypeOK, SavedInv, RemovedInv, Applying, InConf, Goto, Jobs, configVars,
       historyVars, EditShortId, EnsureShortId, Replace, ManagedSid
  <1>7. GhostInv'
    BY <1>2 DEF TypeOK, GhostInv, configVars, historyVars, EditShortId, EnsureShortId, Replace,
       ManagedSid
  <1>8. ScanInv'
    BY <1>2 DEF TypeOK, ScanInv, Listing, InConf, Goto, Jobs, configVars, LockInv, BootTaskInv,
       Dead, Critical, Stages, Rows, Statuses, Inbounds, EditShortId, EnsureShortId, Replace,
       ManagedSid
  <1> QED BY <1>2, <1>3, <1>4, <1>5, <1>6, <1>7, <1>8

\* Keeps the invariant: the running Xray follows the file.
LEMMA ApplySucceedsInd == ASSUME IndInv, NEW t \in Procs, ApplySucceeds(t) PROVE IndInv'
  <1> USE ConfigAssumption, KeysAssumption DEF IndInv, Procs
  <1>1. job' \in [Procs -> Jobs]  BY DEF TypeOK, ApplySucceeds
  <1>2. TypeOK'
    BY <1>1 DEF TypeOK, TaskInv, BootTaskInv, Working, Critical, ConfigTypeOK, ClientTables,
       Clients, Inbounds, Procs, PCs, Statuses, Roles, Stages, Rows, MayExist, Down,
       ApplySucceeds, ApplyOk, Applied, Inbound, configVars, historyVars, serviceVars, Goto
  <1>3. LockInv'
    BY <1>2 DEF TypeOK, LockInv, Critical, Goto, ApplySucceeds, ApplyOk, Applied, Inbound
  <1>4. TaskInv'
    BY <1>2 DEF TypeOK, LockInv, TaskInv, Critical, Working, Goto, Jobs, ApplySucceeds, ApplyOk,
       Applied, Inbound
  <1>5. BootTaskInv'
    BY <1>2 DEF TypeOK, LockInv, BootTaskInv, Goto, Jobs, ApplySucceeds, ApplyOk, Applied, Inbound
  <1>6. SavedInv' /\ RemovedInv'
    BY <1>2 DEF TypeOK, SavedInv, RemovedInv, Applying, InConf, Goto, Jobs, configVars,
       historyVars, ApplySucceeds, ApplyOk, Applied, Inbound
  <1>7. GhostInv'
    BY <1>2 DEF TypeOK, GhostInv, configVars, historyVars, ApplySucceeds, ApplyOk, Applied, Inbound
  <1>8. ScanInv'
    BY <1>2 DEF TypeOK, ScanInv, Listing, InConf, Goto, Jobs, configVars, ApplySucceeds,
       ApplyOk, Applied, Inbound
  <1> QED BY <1>2, <1>3, <1>4, <1>5, <1>6, <1>7, <1>8

\* Keeps the invariant: an apply fails and may put the older file back, which holds no dead key either.
LEMMA ApplyFailsInd == ASSUME IndInv, NEW t \in Procs, ApplyFails(t) PROVE IndInv'
  <1> USE ConfigAssumption, KeysAssumption DEF IndInv, Procs
  <1>1. job' \in [Procs -> Jobs]  BY DEF TypeOK, ApplyFails
  <1>2. TypeOK'
    BY <1>1 DEF TypeOK, TaskInv, BootTaskInv, Working, Critical, ConfigTypeOK, ClientTables,
       Clients, Inbounds, Procs, PCs, Statuses, Roles, Stages, Rows, MayExist, Down, ApplyFails,
       ApplyFailed, Disturbed, Inbound, configVars, historyVars, serviceVars, Goto
  <1>3. LockInv'
    BY <1>2 DEF TypeOK, LockInv, Critical, Goto, ApplyFails, ApplyFailed, Disturbed, Inbound
  <1>4. TaskInv'
    BY <1>2 DEF TypeOK, LockInv, TaskInv, Critical, Working, Goto, Jobs, ApplyFails,
       ApplyFailed, Disturbed, Inbound
  <1>5. BootTaskInv'
    BY <1>2 DEF TypeOK, LockInv, BootTaskInv, Goto, Jobs, ApplyFails, ApplyFailed, Disturbed,
       Inbound
  <1>6. SavedInv' /\ RemovedInv'
    <2>1. pc[t] = "apply" /\ pc' = [pc EXCEPT ![t] = "undo"] /\ UNCHANGED job
      BY DEF ApplyFails, Goto
    <2>2. \A x \in Procs : x # t => pc'[x] = pc[x] /\ pc[x] \notin Critical
      BY <2>1 DEF TypeOK, LockInv, Critical, BootTaskInv, Stages
    <2> QED BY <2>1, <2>2 DEF TypeOK, SavedInv, RemovedInv, Critical, ApplyFails, ApplyFailed
  <1>7. GhostInv'  BY DEF GhostInv, ApplyFails, ApplyFailed, historyVars
  <1>8. ScanInv'
    BY <1>2 DEF TypeOK, ScanInv, Listing, InConf, Goto, Jobs, configVars, LockInv, BootTaskInv,
       Dead, Critical, Stages, Rows, Statuses, Inbounds, ApplyFails, ApplyFailed, Disturbed,
       Inbound
  <1> QED BY <1>2, <1>3, <1>4, <1>5, <1>6, <1>7, <1>8

-----------------------------------------------------------------------------
(* Settling, compensation, block_user.                                     *)

\* Keeps the invariant: the last write of an operation: the client is out of the file when the row dies.
LEMMA FinishInd == ASSUME IndInv, NEW t \in Tasks, Finish(t) PROVE IndInv'
  <1> USE ConfigAssumption, KeysAssumption DEF IndInv, Procs
  <1>1. Returned(t)  BY ReturnFacts DEF TaskInv, Working, Critical, Finish
  <1>2. TypeOK'
    BY <1>1 DEF Returned, TypeOK, TaskInv, Working, Critical, ConfigTypeOK, ClientTables,
       Clients, Inbounds, Procs, PCs, Statuses, Roles, Stages, Rows, MayExist, Down, Finish,
       FinalStatus, MarkActive, configVars, historyVars, serviceVars, Goto
  <1>3. LockInv'
    BY <1>1, <1>2 DEF Returned, TypeOK, LockInv, Critical, Finish, FinalStatus, MarkActive
  <1>4. TaskInv'
    BY <1>1, <1>2 DEF Returned, TypeOK, LockInv, TaskInv, Critical, Working, Finish,
       FinalStatus, MarkActive
  <1>5. BootTaskInv' /\ ScanInv'
    BY <1>1, <1>2 DEF Returned, TypeOK, LockInv, BootTaskInv, ScanInv, Listing, Critical,
       Stages, InConf, configVars, Finish, FinalStatus, MarkActive
  <1>6. SavedInv' /\ RemovedInv'
    BY <1>1, <1>2 DEF Returned, TypeOK, LockInv, SavedInv, RemovedInv, Critical, Applying,
       InConf, configVars, historyVars, Finish, FinalStatus, MarkActive
  <1>7. GhostInv'
    <2>1. job[t].key \in Keys /\ pc[t] = "finish" /\ job[t].op \in {"create", "revoke", "block", "delete"}
          /\ status[job[t].key] \notin Dead
      BY DEF Finish, TaskInv, Working, Critical
    <2>2. \A x \in Procs : pc[x] \notin Applying
      BY <2>1 DEF LockInv, BootTaskInv, Critical, Applying, Finish, TypeOK, Stages
    <2>3. saved.conf = conf /\ conf' = conf /\ saved' = saved /\ tampered' = tampered
      BY <2>2 DEF SavedInv, Finish, configVars, historyVars
    <2>4. \A k \in Keys : k # job[t].key => status'[k] = status[k]  BY DEF Finish, TypeOK
    <2>5. job[t].op = "create" => status'[job[t].key] \notin Dead
      BY <2>1 DEF Finish, FinalStatus, MarkActive, TypeOK, Dead
    <2> QED BY <2>1, <2>3, <2>4, <2>5 DEF GhostInv, RemovedInv, InConf
  <1> QED BY <1>2, <1>3, <1>4, <1>5, <1>6, <1>7

\* Keeps the invariant: the last write of an operation raises.
LEMMA FinishFailsInd == ASSUME IndInv, NEW t \in Tasks, FinishFails(t) PROVE IndInv'
  <1> USE ConfigAssumption, KeysAssumption DEF IndInv, Procs
  <1>1. job' \in [Procs -> Jobs]
    <2>1. CASE job[t].op = "create"  BY <2>1 DEF FinishFails, TypeOK
    <2>2. CASE job[t].op # "create"
      <3>1. Returned(t)  BY <2>2, ReturnFacts DEF FinishFails, TaskInv, Working, Critical
      <3> QED BY <3>1 DEF Returned
    <2> QED BY <2>1, <2>2
  <1>2. TypeOK'
    BY <1>1 DEF TypeOK, ConfigTypeOK, PCs, Goto, configVars, historyVars, FinishFails, Return
  <1>3. LockInv'  BY <1>2 DEF TypeOK, LockInv, Critical, Goto, FinishFails, Return
  <1>4. TaskInv'
    BY <1>2 DEF TypeOK, LockInv, TaskInv, Critical, Working, Dead, Job, NoJob, Rest, Jobs, Ops,
       Edits, Statuses, Inbounds, Clients, MayExist, Rows, FinishFails, Return, configVars,
       historyVars, serviceVars, Goto
  <1>5. BootTaskInv'  BY <1>2 DEF TypeOK, LockInv, BootTaskInv, Goto, Jobs, FinishFails, Return
  <1>6. SavedInv' /\ RemovedInv'
    BY <1>2 DEF TypeOK, SavedInv, RemovedInv, Applying, InConf, Goto, Jobs, configVars,
       historyVars, FinishFails, Return
  <1>7. GhostInv'  BY <1>2 DEF TypeOK, GhostInv, configVars, historyVars, FinishFails, Return
  <1>8. ScanInv'
    BY <1>2 DEF TypeOK, ScanInv, Listing, InConf, Goto, Jobs, configVars, FinishFails, Return
  <1> QED BY <1>2, <1>3, <1>4, <1>5, <1>6, <1>7, <1>8

\* Keeps the invariant: an operation records its failure; no undo status is a dead one.
LEMMA UndoInd == ASSUME IndInv, NEW t \in Tasks, Undo(t) PROVE IndInv'
  <1> USE ConfigAssumption, KeysAssumption DEF IndInv, Procs
  <1>1. Returned(t)  BY ReturnFacts DEF TaskInv, Working, Critical, Undo
  <1>2. TypeOK'
    BY <1>1 DEF Returned, TypeOK, TaskInv, Working, Critical, ConfigTypeOK, ClientTables,
       Clients, Inbounds, Procs, PCs, Statuses, Roles, Stages, Rows, MayExist, Down, Undo,
       UndoStatus, configVars, historyVars, serviceVars, Goto
  <1>3. LockInv'  BY <1>1, <1>2 DEF Returned, TypeOK, LockInv, Critical, Undo, UndoStatus
  <1>4. TaskInv'
    BY <1>1, <1>2 DEF Returned, TypeOK, LockInv, TaskInv, Critical, Working, Undo, UndoStatus
  <1>5. BootTaskInv' /\ ScanInv'
    BY <1>1, <1>2 DEF Returned, TypeOK, LockInv, BootTaskInv, ScanInv, Listing, Critical,
       Stages, InConf, configVars, Undo, UndoStatus
  <1>6. SavedInv' /\ RemovedInv'
    BY <1>1, <1>2 DEF Returned, TypeOK, LockInv, SavedInv, RemovedInv, Critical, Applying,
       InConf, configVars, historyVars, Undo, UndoStatus
  <1>7. GhostInv'
    BY <1>1, <1>2 DEF Returned, TypeOK, ConfigTypeOK, ClientTables, LockInv, TaskInv, SavedInv,
       RemovedInv, GhostInv, Dead, Critical, Working, Applying, InConf, MayExist, Statuses,
       Undo, UndoStatus, configVars, historyVars, serviceVars, Goto
  <1> QED BY <1>2, <1>3, <1>4, <1>5, <1>6, <1>7

\* Keeps the invariant: the compensation of a create replaces the file.
LEMMA CompensateInd == ASSUME IndInv, NEW t \in Tasks, Compensate(t) PROVE IndInv'
  <1> USE ConfigAssumption, KeysAssumption DEF IndInv, Procs
  <1>1. job' \in [Procs -> Jobs]  BY DEF TypeOK, Compensate
  <1>2. TypeOK'
    <2>1. job[t].key \in Keys  BY DEF Compensate, TaskInv, BootTaskInv, Removals, Working, Critical
    <2>2. Transport[job[t].key] \in Inbounds /\ Inbound(t) \in Inbounds  BY <2>1 DEF Inbound
    <2>3. PICK i \in Inbounds : conf' = [conf EXCEPT ![i] = @ \ {job[t].key}]
                              /\ saved' = [conf |-> conf, sids |-> sids] /\ live' = live
      BY <2>2 DEF Compensate, RemoveClient, Replace
    <2>4. sids' \subseteq sids  BY DEF Compensate, RemoveClient, Replace
    <2>5. ConfigTypeOK'  BY <2>3, <2>4 DEF TypeOK, ConfigTypeOK, ClientTables
    <2>6. pc' \in [Procs -> PCs]  BY DEF Compensate, Goto, TypeOK, PCs
    <2> QED BY <1>1, <2>5, <2>6 DEF TypeOK, Compensate, historyVars
  <1>3. LockInv'
    BY <1>2 DEF TypeOK, LockInv, Critical, Goto, Compensate, Inbound, RemoveClient,
       RemovalChanges, Replace, CompDropped, ManagedSid
  <1>4. TaskInv'
    BY <1>2 DEF TypeOK, LockInv, TaskInv, Critical, Working, Goto, Jobs, Compensate, Inbound,
       RemoveClient, RemovalChanges, Replace, CompDropped, ManagedSid
  <1>5. BootTaskInv'
    BY <1>2 DEF TypeOK, LockInv, BootTaskInv, Goto, Jobs, Compensate, Inbound, RemoveClient,
       RemovalChanges, Replace, CompDropped, ManagedSid
  <1>6. SavedInv' /\ RemovedInv'
    BY <1>2 DEF TypeOK, SavedInv, RemovedInv, Applying, InConf, Goto, Jobs, configVars,
       historyVars, Compensate, Inbound, RemoveClient, RemovalChanges, Replace, CompDropped,
       ManagedSid
  <1>7. GhostInv'
    BY <1>2 DEF TypeOK, GhostInv, configVars, historyVars, Compensate, Inbound, RemoveClient,
       RemovalChanges, Replace, CompDropped, ManagedSid
  <1>8. ScanInv'
    BY <1>2 DEF TypeOK, ScanInv, Listing, InConf, Goto, Jobs, configVars, Compensate, Inbound,
       RemoveClient, RemovalChanges, Replace, CompDropped, ManagedSid
  <1> QED BY <1>2, <1>3, <1>4, <1>5, <1>6, <1>7, <1>8

\* Keeps the invariant: the compensation of a create is applied.
LEMMA CompensateAppliedInd == ASSUME IndInv, NEW t \in Tasks, CompensateApplied(t) PROVE IndInv'
  <1> USE ConfigAssumption, KeysAssumption DEF IndInv, Procs
  <1>1. job' \in [Procs -> Jobs]  BY DEF TypeOK, CompensateApplied
  <1>2. TypeOK'
    BY <1>1 DEF TypeOK, TaskInv, BootTaskInv, Working, Critical, ConfigTypeOK, ClientTables,
       Clients, Inbounds, Procs, PCs, Statuses, Roles, Stages, Rows, MayExist, Down,
       CompensateApplied, ApplyOk, Applied, Inbound, configVars, historyVars, serviceVars, Goto
  <1>3. LockInv'
    BY <1>2 DEF TypeOK, LockInv, Critical, Goto, CompensateApplied, ApplyOk, Applied, Inbound
  <1>4. TaskInv'
    BY <1>2 DEF TypeOK, LockInv, TaskInv, Critical, Working, Goto, Jobs, CompensateApplied,
       ApplyOk, Applied, Inbound
  <1>5. BootTaskInv'
    BY <1>2 DEF TypeOK, LockInv, BootTaskInv, Goto, Jobs, CompensateApplied, ApplyOk, Applied,
       Inbound
  <1>6. SavedInv' /\ RemovedInv'
    BY <1>2 DEF TypeOK, SavedInv, RemovedInv, Applying, InConf, Goto, Jobs, configVars,
       historyVars, CompensateApplied, ApplyOk, Applied, Inbound
  <1>7. GhostInv'
    BY <1>2 DEF TypeOK, GhostInv, configVars, historyVars, CompensateApplied, ApplyOk, Applied,
       Inbound
  <1>8. ScanInv'
    BY <1>2 DEF TypeOK, ScanInv, Listing, InConf, Goto, Jobs, configVars, CompensateApplied,
       ApplyOk, Applied, Inbound
  <1> QED BY <1>2, <1>3, <1>4, <1>5, <1>6, <1>7, <1>8

\* Keeps the invariant: the compensation fails and may leave either file.
LEMMA CompensateFailsInd == ASSUME IndInv, NEW t \in Tasks, CompensateFails(t) PROVE IndInv'
  <1> USE ConfigAssumption, KeysAssumption DEF IndInv, Procs
  <1>1. Returned(t)  BY ReturnFacts DEF TaskInv, Working, Critical, CompensateFails
  <1>2. TypeOK'
    <2>1. job[t].key \in Keys /\ Inbound(t) \in Inbounds
      BY DEF CompensateFails, TaskInv, Working, Critical, Inbound
    <2>2. pc[t] = "comp_apply" => live' \in ClientTables
      BY <2>1 DEF CompensateFails, ApplyFailed, Disturbed, TypeOK, ConfigTypeOK, ClientTables, Down
    <2>3. ConfigTypeOK'  BY <2>2 DEF CompensateFails, ApplyFailed, TypeOK, ConfigTypeOK, configVars
    <2> QED BY <1>1, <2>3 DEF Returned, TypeOK, CompensateFails, PCs, historyVars
  <1>3. LockInv'
    BY <1>1, <1>2 DEF Returned, TypeOK, LockInv, Critical, CompensateFails, ApplyFailed,
       Disturbed, Inbound
  <1>4. TaskInv'
    BY <1>1, <1>2 DEF Returned, TypeOK, LockInv, TaskInv, Critical, Working, CompensateFails,
       ApplyFailed, Disturbed, Inbound
  <1>5. BootTaskInv' /\ ScanInv'
    BY <1>1, <1>2 DEF Returned, TypeOK, LockInv, BootTaskInv, ScanInv, Listing, Critical,
       Stages, InConf, configVars, CompensateFails, ApplyFailed, Disturbed, Inbound
  <1>6. SavedInv' /\ RemovedInv'
    <2>1. \A x \in Procs : x # t => pc'[x] = pc[x] /\ pc[x] \notin Critical
      BY <1>1 DEF CompensateFails, Returned, LockInv, Critical, TypeOK, BootTaskInv, Stages
    <2>2. pc'[t] \in {"idle", "sweep"}  BY <1>1 DEF Returned
    <2>3. saved'.conf = conf' /\ saved'.sids = sids'
      <3>1. CASE pc[t] = "comp"
        BY <2>1, <3>1 DEF SavedInv, CompensateFails, configVars, Applying, Critical
      <3>2. CASE pc[t] = "comp_apply"  BY <3>2 DEF CompensateFails, ApplyFailed
      <3> QED BY <3>1, <3>2 DEF CompensateFails
    <2> QED BY <2>1, <2>2, <2>3 DEF SavedInv, RemovedInv, Critical
  <1>7. GhostInv'
    BY <1>1, <1>2 DEF Returned, TypeOK, GhostInv, Dead, configVars, historyVars,
       CompensateFails, ApplyFailed, Disturbed, Inbound
  <1> QED BY <1>2, <1>3, <1>4, <1>5, <1>6, <1>7

\* Keeps the invariant: a compensated create records its failure.
LEMMA CompensateStatusInd == ASSUME IndInv, NEW t \in Tasks, CompensateStatus(t) PROVE IndInv'
  <1> USE ConfigAssumption, KeysAssumption DEF IndInv, Procs
  <1>1. Returned(t)  BY ReturnFacts DEF TaskInv, Working, Critical, CompensateStatus
  <1>2. TypeOK'
    BY <1>1 DEF Returned, TypeOK, ConfigTypeOK, PCs, configVars, historyVars, Statuses, Stages,
       Roles, Rows, CompensateStatus
  <1>3. LockInv'  BY <1>1, <1>2 DEF Returned, TypeOK, LockInv, Critical, CompensateStatus
  <1>4. TaskInv'
    BY <1>1, <1>2 DEF Returned, TypeOK, LockInv, TaskInv, Critical, Working, CompensateStatus
  <1>5. BootTaskInv' /\ ScanInv'
    BY <1>1, <1>2 DEF Returned, TypeOK, LockInv, BootTaskInv, ScanInv, Listing, Critical,
       Stages, InConf, configVars, CompensateStatus
  <1>6. SavedInv' /\ RemovedInv'
    BY <1>1, <1>2 DEF Returned, TypeOK, LockInv, SavedInv, RemovedInv, Critical, Applying,
       InConf, configVars, historyVars, CompensateStatus
  <1>7. GhostInv'
    BY <1>1, <1>2 DEF Returned, TypeOK, GhostInv, Dead, configVars, historyVars, CompensateStatus
  <1> QED BY <1>2, <1>3, <1>4, <1>5, <1>6, <1>7

\* Keeps the invariant: block_user writes the role.
LEMMA BlockRoleInd == ASSUME IndInv, NEW t \in Tasks, BlockRole(t) PROVE IndInv'
  <1> USE ConfigAssumption, KeysAssumption DEF IndInv, Procs
  <1>1. job' \in [Procs -> Jobs]  BY NoJobType DEF TypeOK, BlockRole
  <1>2. TypeOK'
    BY <1>1 DEF TypeOK, ConfigTypeOK, PCs, Goto, configVars, historyVars, Statuses, Stages,
       Roles, Rows, BlockRole
  <1>3. LockInv'  BY <1>2 DEF TypeOK, LockInv, Critical, Goto, BlockRole
  <1>4. TaskInv'
    <2>1. CASE pc' = [pc EXCEPT ![t] = "sweep"] /\ job' = job
      BY <1>2, <2>1 DEF TypeOK, TaskInv, Critical, Working, BlockRole
    <2>2. CASE pc' = [pc EXCEPT ![t] = "idle"] /\ job' = [job EXCEPT ![t] = NoJob]
      BY <1>2, <2>2, NoJobType DEF TypeOK, TaskInv, Critical, Working, BlockRole
    <2> QED BY <2>1, <2>2 DEF BlockRole, Goto
  <1>5. BootTaskInv'  BY <1>2 DEF TypeOK, LockInv, BootTaskInv, Goto, Jobs, BlockRole
  <1>6. SavedInv' /\ RemovedInv'
    <2>1. CASE pc' = [pc EXCEPT ![t] = "sweep"] /\ job' = job
      BY <1>2, <2>1 DEF TypeOK, SavedInv, RemovedInv, Applying, InConf, BlockRole, configVars,
         historyVars
    <2>2. CASE pc' = [pc EXCEPT ![t] = "idle"] /\ job' = [job EXCEPT ![t] = NoJob]
      BY <1>2, <2>2, NoJobType DEF TypeOK, SavedInv, RemovedInv, Applying, InConf, BlockRole,
         configVars, historyVars
    <2> QED BY <2>1, <2>2 DEF BlockRole, Goto
  <1>7. GhostInv'  BY <1>2 DEF TypeOK, GhostInv, configVars, historyVars, BlockRole
  <1>8. ScanInv'  BY <1>2 DEF TypeOK, ScanInv, Listing, InConf, Goto, Jobs, configVars, BlockRole
  <1> QED BY <1>2, <1>3, <1>4, <1>5, <1>6, <1>7, <1>8

\* Keeps the invariant: block_user lists the user's keys.
LEMMA SweepListInd == ASSUME IndInv, NEW t \in Tasks, SweepList(t) PROVE IndInv'
  <1> USE ConfigAssumption, KeysAssumption DEF IndInv, Procs
  <1>1. job' \in [Procs -> Jobs]
    BY DEF TypeOK, Jobs, Inbounds, Clients, SweepList, Listed, TaskInv, Clients
  <1>2. TypeOK'
    BY <1>1 DEF TypeOK, ConfigTypeOK, PCs, Goto, configVars, historyVars, SweepList, Listed, Tried
  <1>3. LockInv'  BY <1>2 DEF TypeOK, LockInv, Critical, Goto, SweepList, Listed, Tried
  <1>4. TaskInv'
    BY <1>2 DEF TypeOK, LockInv, TaskInv, Critical, Working, Goto, Jobs, SweepList, Listed, Tried
  <1>5. BootTaskInv'  BY <1>2 DEF TypeOK, LockInv, BootTaskInv, Goto, Jobs, SweepList, Listed, Tried
  <1>6. SavedInv' /\ RemovedInv'
    BY <1>2 DEF TypeOK, SavedInv, RemovedInv, Applying, InConf, Goto, Jobs, configVars,
       historyVars, SweepList, Listed, Tried
  <1>7. GhostInv'  BY <1>2 DEF TypeOK, GhostInv, configVars, historyVars, SweepList, Listed, Tried
  <1>8. ScanInv'
    BY <1>2 DEF TypeOK, ScanInv, Listing, InConf, Goto, Jobs, configVars, SweepList, Listed, Tried
  <1> QED BY <1>2, <1>3, <1>4, <1>5, <1>6, <1>7, <1>8

\* Keeps the invariant: block_user turns to one listed key.
LEMMA SweepNextInd == ASSUME IndInv, NEW t \in Tasks, SweepNext(t) PROVE IndInv'
  <1> USE ConfigAssumption, KeysAssumption DEF IndInv, Procs
  <1>1. job' \in [Procs -> Jobs]
    <2>1. PICK k \in Keys : job' = [job EXCEPT ![t].bad = @ \cup {k}] \/ job' = [job EXCEPT ![t].key = k]
      BY DEF TaskInv, SweepNext
    <2>2. CASE job' = [job EXCEPT ![t].bad = @ \cup {k}]  BY <2>2 DEF TypeOK, Jobs
    <2>3. CASE job' = [job EXCEPT ![t].key = k]  BY <2>3 DEF TypeOK, Jobs, Clients
    <2> QED BY <2>1, <2>2, <2>3
  <1>2. TypeOK'
    BY <1>1 DEF TypeOK, ConfigTypeOK, PCs, Goto, configVars, historyVars, SweepNext, Tried
  <1>3. LockInv'  BY <1>2 DEF TypeOK, LockInv, Critical, Goto, SweepNext, Tried
  <1>4. TaskInv'
    BY <1>2 DEF TypeOK, LockInv, TaskInv, Critical, Working, Goto, Jobs, SweepNext, Tried
  <1>5. BootTaskInv'  BY <1>2 DEF TypeOK, LockInv, BootTaskInv, Goto, Jobs, SweepNext, Tried
  <1>6. SavedInv' /\ RemovedInv'
    BY <1>2 DEF TypeOK, SavedInv, RemovedInv, Applying, InConf, Goto, Jobs, configVars,
       historyVars, SweepNext, Tried
  <1>7. GhostInv'  BY <1>2 DEF TypeOK, GhostInv, configVars, historyVars, SweepNext, Tried
  <1>8. ScanInv'
    BY <1>2 DEF TypeOK, ScanInv, Listing, InConf, Goto, Jobs, configVars, SweepNext, Tried
  <1> QED BY <1>2, <1>3, <1>4, <1>5, <1>6, <1>7, <1>8

\* Keeps the invariant: block_user returns.
LEMMA SweepEndInd == ASSUME IndInv, NEW t \in Tasks, SweepEnd(t) PROVE IndInv'
  <1> USE ConfigAssumption, KeysAssumption DEF IndInv, Procs
  <1>1. job' \in [Procs -> Jobs]  BY NoJobType DEF TypeOK, SweepEnd
  <1>2. TypeOK'
    BY <1>1 DEF TypeOK, ConfigTypeOK, PCs, Goto, configVars, historyVars, SweepEnd, Listed, Tried
  <1>3. LockInv'  BY <1>2 DEF TypeOK, LockInv, Critical, Goto, SweepEnd, Listed, Tried
  <1>4. TaskInv'
    BY <1>2 DEF TypeOK, LockInv, TaskInv, Critical, Working, Dead, Job, NoJob, Rest, Jobs, Ops,
       Edits, Statuses, Inbounds, Clients, MayExist, Rows, SweepEnd, Listed, Tried, configVars,
       historyVars, serviceVars, Goto
  <1>5. BootTaskInv'  BY <1>2 DEF TypeOK, LockInv, BootTaskInv, Goto, Jobs, SweepEnd, Listed, Tried
  <1>6. SavedInv' /\ RemovedInv'
    BY <1>2 DEF TypeOK, SavedInv, RemovedInv, Applying, InConf, Goto, Jobs, configVars,
       historyVars, SweepEnd, Listed, Tried
  <1>7. GhostInv'  BY <1>2 DEF TypeOK, GhostInv, configVars, historyVars, SweepEnd, Listed, Tried
  <1>8. ScanInv'
    BY <1>2 DEF TypeOK, ScanInv, Listing, InConf, Goto, Jobs, configVars, SweepEnd, Listed, Tried
  <1> QED BY <1>2, <1>3, <1>4, <1>5, <1>6, <1>7, <1>8

-----------------------------------------------------------------------------
(* Startup, crashes, operators.                                            *)

\* Keeps the invariant: startup_reconcile lists the unsettled keys.
LEMMA BootStartInd == ASSUME IndInv, BootStart PROVE IndInv'
  <1> USE ConfigAssumption, KeysAssumption DEF IndInv, Procs
  <1>1. job' \in [Procs -> Jobs]
    <2>1. Job("none", AnyUser, FALSE, NoKey, {k \in Keys : status[k] \in Unsettled}) \in Jobs
      BY JobType, AnyUserType DEF Ops, Clients
    <2> QED BY <2>1 DEF TypeOK, BootStart, Stage
  <1>2. TypeOK'
    BY <1>1 DEF TypeOK, ConfigTypeOK, PCs, Goto, configVars, historyVars, Statuses, Stages,
       Roles, Rows, BootStart, Stage, Unsettled
  <1>3. LockInv'  BY <1>2 DEF TypeOK, LockInv, Critical, Goto, BootStart, Stage, Unsettled
  <1>4. TaskInv'
    BY <1>2 DEF TypeOK, LockInv, TaskInv, Critical, Working, Goto, Jobs, Job, BootStart, Stage,
       Unsettled
  <1>5. BootTaskInv'
    BY <1>2 DEF TypeOK, LockInv, BootTaskInv, Goto, Jobs, Job, Dead, Stages, Statuses, Rows,
       Inbounds, BootStart, Stage, Unsettled
  <1>6. SavedInv' /\ RemovedInv'
    BY <1>2 DEF TypeOK, SavedInv, RemovedInv, Applying, InConf, Goto, Jobs, configVars,
       historyVars, Job, BootStart, Stage, Unsettled
  <1>7. GhostInv'
    BY <1>2 DEF TypeOK, GhostInv, configVars, historyVars, BootStart, Stage, Unsettled
  <1>8. ScanInv'
    BY <1>2 DEF TypeOK, ScanInv, Listing, InConf, Goto, Jobs, configVars, Job, BootStart, Stage,
       Unsettled
  <1> QED BY <1>2, <1>3, <1>4, <1>5, <1>6, <1>7, <1>8

\* Keeps the invariant: startup settles a key from the file.
LEMMA BootSettleInd == ASSUME IndInv, BootSettle PROVE IndInv'
  <1> USE ConfigAssumption, KeysAssumption DEF IndInv, Procs
  <1>1. job' \in [Procs -> Jobs]  BY DEF TypeOK, Jobs, BootSettle, Skip
  <1>2. TypeOK'
    <2>1. \A k \in Keys : Settled(k) \in Statuses
      BY DEF TypeOK, Settled, MarkActive, Statuses
    <2>2. PICK k \in Keys : status' \in {status, [status EXCEPT ![k] = Settled(k)]}
      BY DEF BootTaskInv, BootSettle, BootIdle
    <2>3. failed' \in {failed, TRUE}
      BY DEF BootSettle
    <2>4. status' \in [Keys -> Statuses]  BY <2>1, <2>2 DEF TypeOK
    <2>5. UNCHANGED <<configVars, role, degraded, xlock, ulock, pc, phase, historyVars>>
      BY DEF BootSettle
    <2> QED BY <1>1, <2>3, <2>4, <2>5 DEF TypeOK, ConfigTypeOK, configVars, historyVars
  <1>3. LockInv'
    BY <1>2 DEF TypeOK, LockInv, Critical, Goto, BootSettle, Skip, Settled, MarkActive,
       BootIdle, InConf
  <1>4. TaskInv'
    BY <1>2 DEF TypeOK, LockInv, TaskInv, Critical, Working, Goto, Jobs, Job, BootSettle, Skip,
       Settled, MarkActive, BootIdle, InConf
  <1>5. BootTaskInv'
    BY <1>2 DEF TypeOK, LockInv, BootTaskInv, Goto, Jobs, Job, BootSettle, Skip, Settled,
       MarkActive, BootIdle, InConf
  <1>6. SavedInv' /\ RemovedInv'
    BY <1>2 DEF TypeOK, SavedInv, RemovedInv, Applying, InConf, Goto, Jobs, configVars,
       historyVars, Job, BootSettle, Skip, Settled, MarkActive, BootIdle
  <1>7. GhostInv'
    BY <1>2 DEF TypeOK, GhostInv, configVars, historyVars, SavedInv, RemovedInv, TaskInv,
       LockInv, BootTaskInv, Critical, Working, Applying, Dead, InConf, BootSettle, Skip,
       Settled, MarkActive, BootIdle
  <1>8. ScanInv'
    BY <1>2 DEF TypeOK, ScanInv, Listing, InConf, Goto, Jobs, configVars, Job, BootSettle, Skip,
       Settled, MarkActive, BootIdle
  <1> QED BY <1>2, <1>3, <1>4, <1>5, <1>6, <1>7, <1>8

\* Keeps the invariant: startup resumes a removal.
LEMMA BootResumeInd == ASSUME IndInv, BootResume PROVE IndInv'
  <1> USE ConfigAssumption, KeysAssumption DEF IndInv, Procs
  <1>1. job' \in [Procs -> Jobs]
    <2>1. ASSUME NEW op \in {"revoke", "delete"}, NEW c \in job[Boot].todo, BootEdit(op, c)
          PROVE  job' \in [Procs -> Jobs]
      <3>1. Job(op, AnyUser, FALSE, c, job[Boot].todo \ {c}) \in Jobs
        BY JobType, AnyUserType DEF TypeOK, Jobs, Ops, Edits
      <3> QED BY <2>1, <3>1 DEF TypeOK, BootEdit
    <2>2. ASSUME NEW c, job' = Skip(c)
          PROVE  job' \in [Procs -> Jobs]
      BY <2>2 DEF TypeOK, Jobs, Skip
    <2> QED BY <2>1, <2>2 DEF BootResume
  <1>2. TypeOK'
    <2>1. UNCHANGED <<configVars, status, role, degraded, xlock, ulock, phase, failed, historyVars>>
      BY DEF BootResume, BootEdit, Skip
    <2>2. pc' = pc \/ pc' = [pc EXCEPT ![Boot] = "edit"]  BY DEF BootResume, BootEdit, Skip, Goto
    <2> QED BY <1>1, <2>1, <2>2 DEF TypeOK, ConfigTypeOK, PCs, configVars, historyVars
  <1>3. LockInv'
    <2>1. xlock' = xlock /\ phase' = phase /\ phase \in Stages /\ (pc' = pc \/ pc' = [pc EXCEPT ![Boot] = "edit"])
      BY DEF BootResume, BootEdit, BootIdle, Goto, Stages, Inbounds
    <2> QED BY <2>1 DEF TypeOK, LockInv
  <1>4. TaskInv'
    BY <1>2 DEF TypeOK, LockInv, TaskInv, Critical, Working, Goto, Jobs, Job, BootResume,
       BootEdit, BootIdle
  <1>5. BootTaskInv'
    BY <1>2 DEF TypeOK, LockInv, BootTaskInv, Goto, Jobs, Job, Dead, Stages, Statuses, Rows,
       Inbounds, BootResume, BootEdit, BootIdle
  <1>6. SavedInv' /\ RemovedInv'
    BY <1>2 DEF TypeOK, SavedInv, RemovedInv, Applying, InConf, Goto, Jobs, configVars,
       historyVars, Job, BootResume, BootEdit, BootIdle
  <1>7. GhostInv'
    BY <1>2 DEF TypeOK, GhostInv, configVars, historyVars, BootResume, BootEdit, BootIdle
  <1>8. ScanInv'
    BY <1>2 DEF TypeOK, ScanInv, Listing, InConf, Goto, Jobs, configVars, Job, BootResume,
       BootEdit, BootIdle
  <1> QED BY <1>2, <1>3, <1>4, <1>5, <1>6, <1>7, <1>8

\* Keeps the invariant: startup finishes a removal or a drift repair.
LEMMA BootFinishInd == ASSUME IndInv, BootFinish PROVE IndInv'
  <1> USE ConfigAssumption, KeysAssumption DEF IndInv, Procs
  <1>1. job' \in [Procs -> Jobs]
    <2>1. Job("none", AnyUser, FALSE, NoKey, job[Boot].todo) \in Jobs
      BY JobType, AnyUserType DEF Ops, TypeOK, Jobs
    <2> QED BY <2>1 DEF TypeOK, BootFinish, Rest
  <1>2. TypeOK'
    <2>1. status' \in [Keys -> Statuses] /\ failed' \in BOOLEAN
      <3>1. phase = "reconcile" => FinalStatus(Boot) \in {"revoked", "gone"}
        BY DEF BootFinish, BootTaskInv, FinalStatus
      <3> QED BY <3>1 DEF BootFinish, TypeOK, Statuses
    <2> QED BY <1>1, <2>1 DEF TypeOK, ConfigTypeOK, PCs, BootFinish, Goto, configVars, historyVars
  <1>3. LockInv'  BY <1>2 DEF TypeOK, LockInv, Critical, Goto, BootFinish, FinalStatus, MarkActive
  <1>4. TaskInv'
    BY <1>2 DEF TypeOK, LockInv, TaskInv, Critical, Working, Goto, Jobs, Job, BootFinish,
       FinalStatus, MarkActive
  <1>5. BootTaskInv'
    BY <1>2 DEF TypeOK, LockInv, BootTaskInv, Dead, Job, NoJob, Rest, Stages, Jobs, Ops, Edits,
       Statuses, Inbounds, Clients, MayExist, Rows, BootFinish, FinalStatus, MarkActive,
       configVars, historyVars, serviceVars, Goto
  <1>6. SavedInv' /\ RemovedInv'
    BY <1>2 DEF TypeOK, SavedInv, RemovedInv, Applying, InConf, Goto, Jobs, configVars,
       historyVars, Job, BootFinish, FinalStatus, MarkActive
  <1>7. GhostInv'
    BY <1>2 DEF TypeOK, GhostInv, configVars, historyVars, SavedInv, RemovedInv, TaskInv,
       LockInv, BootTaskInv, Critical, Working, Applying, Dead, InConf, BootFinish, FinalStatus,
       MarkActive
  <1>8. ScanInv'
    BY <1>2 DEF TypeOK, ConfigTypeOK, ClientTables, LockInv, TaskInv, BootTaskInv, ScanInv,
       Listing, Dead, Critical, Working, InConf, Job, NoJob, Rest, Jobs, Ops, Edits, Statuses,
       Inbounds, Clients, MayExist, Rows, BootFinish, FinalStatus, MarkActive, configVars,
       historyVars, serviceVars, Goto
  <1> QED BY <1>2, <1>3, <1>4, <1>5, <1>6, <1>7, <1>8

\* Keeps the invariant: startup counts a failed key.
LEMMA BootUndoInd == ASSUME IndInv, BootUndo PROVE IndInv'
  <1> USE ConfigAssumption, KeysAssumption DEF IndInv, Procs
  <1>1. job' \in [Procs -> Jobs]
    <2>1. Job("none", AnyUser, FALSE, NoKey, job[Boot].todo) \in Jobs
      BY JobType, AnyUserType DEF Ops, TypeOK, Jobs
    <2> QED BY <2>1 DEF TypeOK, BootUndo, Rest
  <1>2. TypeOK'
    BY <1>1 DEF TypeOK, ConfigTypeOK, PCs, Goto, configVars, historyVars, Statuses, Stages,
       Roles, Rows, BootUndo
  <1>3. LockInv'  BY <1>2 DEF TypeOK, LockInv, Critical, Goto, BootUndo
  <1>4. TaskInv'  BY <1>2 DEF TypeOK, LockInv, TaskInv, Critical, Working, Goto, Jobs, Job, BootUndo
  <1>5. BootTaskInv'
    BY <1>2 DEF TypeOK, LockInv, BootTaskInv, Dead, Job, NoJob, Rest, Stages, Jobs, Ops, Edits,
       Statuses, Inbounds, Clients, MayExist, Rows, BootUndo, configVars, historyVars,
       serviceVars, Goto
  <1>6. SavedInv' /\ RemovedInv'
    BY <1>2 DEF TypeOK, SavedInv, RemovedInv, Applying, InConf, Goto, Jobs, configVars,
       historyVars, Job, BootUndo
  <1>7. GhostInv'
    BY <1>2 DEF TypeOK, GhostInv, configVars, historyVars, SavedInv, RemovedInv, TaskInv,
       LockInv, BootTaskInv, Critical, Working, Applying, Dead, InConf, BootUndo
  <1>8. ScanInv'
    BY <1>2 DEF TypeOK, ScanInv, Listing, InConf, Goto, Jobs, configVars, Job, BootUndo
  <1> QED BY <1>2, <1>3, <1>4, <1>5, <1>6, <1>7, <1>8

\* Keeps the invariant: a drift scan fails and startup ends degraded, still excused for hand edits.
LEMMA BootDriftFailsInd == ASSUME IndInv, BootDriftFails PROVE IndInv'
  <1> USE ConfigAssumption, KeysAssumption DEF IndInv, Procs
  <1>1. job' \in [Procs -> Jobs]
    BY NoJobType, AnyUserType, JobType DEF TypeOK, Jobs, BootDriftFails, BootEnd
  <1>2. TypeOK'
    BY <1>1 DEF TypeOK, ConfigTypeOK, PCs, Goto, configVars, historyVars, BootDriftFails, BootEnd
  <1>3. LockInv'
    BY <1>2 DEF TypeOK, LockInv, Critical, Goto, BootTaskInv, Stages, BootDriftFails, BootEnd
  <1>4. TaskInv'
    BY <1>2 DEF TypeOK, LockInv, TaskInv, Critical, Working, Goto, Jobs, Job, BootDriftFails,
       BootEnd
  <1>5. BootTaskInv'
    BY <1>2 DEF TypeOK, LockInv, BootTaskInv, Goto, Jobs, Job, BootDriftFails, BootEnd
  <1>6. SavedInv' /\ RemovedInv'
    BY <1>2 DEF TypeOK, SavedInv, RemovedInv, Applying, InConf, Goto, Jobs, configVars,
       historyVars, Job, BootDriftFails, BootEnd
  <1>7. GhostInv'  BY <1>2 DEF TypeOK, GhostInv, configVars, historyVars, BootDriftFails, BootEnd
  <1>8. ScanInv'
    BY <1>2 DEF TypeOK, ScanInv, Listing, InConf, Goto, Jobs, configVars, Job, BootDriftFails,
       BootEnd
  <1> QED BY <1>2, <1>3, <1>4, <1>5, <1>6, <1>7, <1>8

\* Keeps the invariant: startup lists the non-live keys, or ends degraded.
LEMMA BootReconciledInd == ASSUME IndInv, BootReconciled PROVE IndInv'
  <1> USE ConfigAssumption, KeysAssumption DEF IndInv, Procs
  <1>1. job' \in [Procs -> Jobs]
    <2>1. Job("none", AnyUser, FALSE, NoKey, {k \in Keys : status[k] \in Rows \ {"active"}}) \in Jobs
      BY JobType, AnyUserType DEF Ops, Clients
    <2> QED BY <2>1, NoJobType DEF TypeOK, BootReconciled, Stage, BootEnd
  <1>2. TypeOK'
    <2>1. UNCHANGED <<configVars, status, role, ulock, swept>> /\ (pc' = pc \/ pc' = [pc EXCEPT ![Boot] = "idle"])
      BY DEF BootReconciled, BootEnd, historyVars
    <2>2. xlock' \in {xlock, NoTask} /\ degraded' \in {degraded, TRUE} /\ failed' \in {failed, FALSE}
      BY DEF BootReconciled, BootEnd
    <2>3. phase' \in {"nonlive", "up"} /\ tampered' \in BOOLEAN
      BY DEF BootReconciled, BootEnd, Stage, historyVars, TypeOK
    <2> QED BY <1>1, <2>1, <2>2, <2>3 DEF TypeOK, ConfigTypeOK, PCs, Stages, configVars
  <1>3. LockInv'
    <2>1. CASE failed
      BY <2>1 DEF TypeOK, LockInv, Critical, BootReconciled, BootEnd, BootIdle
    <2>2. CASE ~failed
      BY <2>2 DEF TypeOK, LockInv, Stages, BootReconciled, Stage, BootIdle
    <2> QED BY <2>1, <2>2
  <1>4. TaskInv'
    BY <1>2 DEF TypeOK, LockInv, TaskInv, Critical, Working, Goto, Jobs, Job, BootReconciled,
       Stage, BootEnd, BootIdle
  <1>5. BootTaskInv'
    BY <1>2 DEF TypeOK, LockInv, BootTaskInv, Goto, Jobs, Job, BootReconciled, Stage, BootEnd,
       BootIdle
  <1>6. SavedInv' /\ RemovedInv'
    BY <1>2 DEF TypeOK, SavedInv, RemovedInv, Applying, InConf, Goto, Jobs, configVars,
       historyVars, Job, BootReconciled, Stage, BootEnd, BootIdle
  <1>7. GhostInv'
    BY <1>2 DEF TypeOK, GhostInv, configVars, historyVars, BootReconciled, Stage, BootEnd, BootIdle
  <1>8. ScanInv'
    BY <1>2 DEF TypeOK, ScanInv, Listing, InConf, Goto, Jobs, configVars, Job, LockInv,
       BootTaskInv, Dead, Critical, Stages, Rows, Statuses, Inbounds, BootReconciled, Stage,
       BootEnd, BootIdle
  <1> QED BY <1>2, <1>3, <1>4, <1>5, <1>6, <1>7, <1>8

\* Keeps the invariant: startup takes a non-live key's client out.
LEMMA BootNonLiveInd == ASSUME IndInv, BootNonLive PROVE IndInv'
  <1> USE ConfigAssumption, KeysAssumption DEF IndInv, Procs
  <1>1. job' \in [Procs -> Jobs]
    <2>1. ASSUME NEW op \in {"strip"}, NEW c \in job[Boot].todo, BootEdit(op, c)
          PROVE  job' \in [Procs -> Jobs]
      <3>1. Job(op, AnyUser, FALSE, c, job[Boot].todo \ {c}) \in Jobs
        BY JobType, AnyUserType DEF TypeOK, Jobs, Ops, Edits
      <3> QED BY <2>1, <3>1 DEF TypeOK, BootEdit
    <2>2. ASSUME NEW c, job' = Skip(c)
          PROVE  job' \in [Procs -> Jobs]
      BY <2>2 DEF TypeOK, Jobs, Skip
    <2> QED BY <2>1, <2>2 DEF BootNonLive
  <1>2. TypeOK'
    <2>1. UNCHANGED <<configVars, status, role, degraded, xlock, ulock, phase, failed, historyVars>>
      BY DEF BootNonLive, BootEdit, Skip
    <2>2. pc' = pc \/ pc' = [pc EXCEPT ![Boot] = "edit"]  BY DEF BootNonLive, BootEdit, Skip, Goto
    <2> QED BY <1>1, <2>1, <2>2 DEF TypeOK, ConfigTypeOK, PCs, configVars, historyVars
  <1>3. LockInv'
    <2>1. xlock' = xlock /\ phase' = phase /\ phase \in Stages /\ (pc' = pc \/ pc' = [pc EXCEPT ![Boot] = "edit"])
      BY DEF BootNonLive, BootEdit, BootIdle, Goto, Stages, Inbounds
    <2> QED BY <2>1 DEF TypeOK, LockInv
  <1>4. TaskInv'
    BY <1>2 DEF TypeOK, LockInv, TaskInv, Critical, Working, Goto, Jobs, Job, BootNonLive,
       BootEdit, Skip, BootIdle, InConf
  <1>5. BootTaskInv'
    BY <1>2 DEF TypeOK, LockInv, BootTaskInv, Goto, Jobs, Job, BootNonLive, BootEdit, Skip,
       BootIdle, InConf
  <1>6. SavedInv' /\ RemovedInv'
    BY <1>2 DEF TypeOK, SavedInv, RemovedInv, Applying, InConf, Goto, Jobs, configVars,
       historyVars, Job, BootNonLive, BootEdit, Skip, BootIdle
  <1>7. GhostInv'
    BY <1>2 DEF TypeOK, GhostInv, configVars, historyVars, BootNonLive, BootEdit, Skip,
       BootIdle, InConf
  <1>8. ScanInv'
    BY <1>2 DEF TypeOK, ScanInv, Listing, InConf, Goto, Jobs, configVars, Job, BootNonLive,
       BootEdit, Skip, BootIdle
  <1> QED BY <1>2, <1>3, <1>4, <1>5, <1>6, <1>7, <1>8

\* Keeps the invariant: startup turns to the next scan.
LEMMA BootScanInd == ASSUME IndInv, BootScan PROVE IndInv'
  <1> USE ConfigAssumption, KeysAssumption DEF IndInv, Procs
  <1>1. job' \in [Procs -> Jobs]
    <2>1. /\ Job("none", AnyUser, FALSE, NoKey, conf["tcp"]) \in Jobs
          /\ Job("none", AnyUser, FALSE, NoKey, conf["http"]) \in Jobs
          /\ Job("none", AnyUser, FALSE, NoKey, {k \in Keys : status[k] = "active"}) \in Jobs
      BY JobType, AnyUserType DEF Ops, Clients, TypeOK, ConfigTypeOK, ClientTables, Inbounds
    <2> QED BY <2>1 DEF TypeOK, BootScan, Stage
  <1>2. TypeOK'
    BY <1>1 DEF TypeOK, ConfigTypeOK, PCs, Goto, configVars, historyVars, Statuses, Stages,
       Roles, Rows, BootScan, Stage
  <1>3. LockInv'  BY <1>2 DEF TypeOK, LockInv, Critical, Goto, BootScan, Stage
  <1>4. TaskInv'
    BY <1>2 DEF TypeOK, LockInv, TaskInv, Critical, Working, Goto, Jobs, Job, BootScan, Stage
  <1>5. BootTaskInv'  BY <1>2 DEF TypeOK, LockInv, BootTaskInv, Goto, Jobs, Job, BootScan, Stage
  <1>6. SavedInv' /\ RemovedInv'
    BY <1>2 DEF TypeOK, SavedInv, RemovedInv, Applying, InConf, Goto, Jobs, configVars,
       historyVars, Job, BootScan, Stage
  <1>7. GhostInv'  BY <1>2 DEF TypeOK, GhostInv, configVars, historyVars, BootScan, Stage
  <1>8. ScanInv'
    BY <1>2 DEF TypeOK, ScanInv, Listing, InConf, Goto, Jobs, configVars, Job, LockInv,
       BootTaskInv, Dead, Critical, Stages, Rows, Statuses, Inbounds, BootScan, Stage
  <1> QED BY <1>2, <1>3, <1>4, <1>5, <1>6, <1>7, <1>8

\* Keeps the invariant: the orphan scan handles one client.
LEMMA BootOrphanInd == ASSUME IndInv, BootOrphan PROVE IndInv'
  <1> USE ConfigAssumption, KeysAssumption DEF IndInv, Procs
  <1>1. job' \in [Procs -> Jobs]
    <2>1. ASSUME NEW op \in {"strip"}, NEW c \in job[Boot].todo, BootEdit(op, c)
          PROVE  job' \in [Procs -> Jobs]
      <3>1. Job(op, AnyUser, FALSE, c, job[Boot].todo \ {c}) \in Jobs
        BY JobType, AnyUserType DEF TypeOK, Jobs, Ops, Edits
      <3> QED BY <2>1, <3>1 DEF TypeOK, BootEdit
    <2>2. ASSUME NEW c, job' = Skip(c)
          PROVE  job' \in [Procs -> Jobs]
      BY <2>2 DEF TypeOK, Jobs, Skip
    <2> QED BY <2>1, <2>2 DEF BootOrphan
  <1>2. TypeOK'
    <2>1. UNCHANGED <<configVars, status, role, degraded, xlock, ulock, phase, failed, historyVars>>
      BY DEF BootOrphan, BootEdit, Skip
    <2>2. pc' = pc \/ pc' = [pc EXCEPT ![Boot] = "edit"]  BY DEF BootOrphan, BootEdit, Skip, Goto
    <2> QED BY <1>1, <2>1, <2>2 DEF TypeOK, ConfigTypeOK, PCs, configVars, historyVars
  <1>3. LockInv'
    <2>1. xlock' = xlock /\ phase' = phase /\ phase \in Stages /\ (pc' = pc \/ pc' = [pc EXCEPT ![Boot] = "edit"])
      BY DEF BootOrphan, BootEdit, BootIdle, Goto, Stages, Inbounds
    <2> QED BY <2>1 DEF TypeOK, LockInv
  <1>4. TaskInv'
    BY <1>2 DEF TypeOK, LockInv, TaskInv, Critical, Working, Goto, Jobs, Job, BootOrphan,
       BootEdit, Skip
  <1>5. BootTaskInv'
    BY <1>2 DEF TypeOK, LockInv, BootTaskInv, Goto, Jobs, Job, Dead, Stages, Statuses, Rows,
       Inbounds, BootOrphan, BootEdit, Skip
  <1>6. SavedInv' /\ RemovedInv'
    BY <1>2 DEF TypeOK, SavedInv, RemovedInv, Applying, InConf, Goto, Jobs, configVars,
       historyVars, Job, BootOrphan, BootEdit, Skip
  <1>7. GhostInv'  BY <1>2 DEF TypeOK, GhostInv, configVars, historyVars, BootOrphan, BootEdit, Skip
  <1>8. ScanInv'
    BY <1>2 DEF TypeOK, ScanInv, Listing, InConf, Goto, Jobs, configVars, Job, LockInv,
       BootTaskInv, Dead, Critical, Stages, Rows, Statuses, Inbounds, BootOrphan, BootEdit, Skip
  <1> QED BY <1>2, <1>3, <1>4, <1>5, <1>6, <1>7, <1>8

\* Keeps the invariant: a read raises, or an unknown label stops the orphan scan.
LEMMA BootStopsInd == ASSUME IndInv, BootStops PROVE IndInv'
  <1> USE ConfigAssumption, KeysAssumption DEF IndInv, Procs
  <1>1. job' \in [Procs -> Jobs]
    BY NoJobType, AnyUserType, JobType DEF TypeOK, Jobs, BootStops, BootEnd
  <1>2. TypeOK'
    BY <1>1 DEF TypeOK, ConfigTypeOK, PCs, Goto, configVars, historyVars, BootStops, BootEnd
  <1>3. LockInv'
    <2>1. phase' = "up" /\ pc' = [pc EXCEPT ![Boot] = "idle"] /\ phase # "up" /\ xlock' = NoTask
      BY DEF BootStops, BootEnd, Stages
    <2> QED BY <2>1 DEF TypeOK, LockInv, Critical
  <1>4. TaskInv'
    BY <1>2 DEF TypeOK, LockInv, TaskInv, Critical, Working, Goto, Jobs, Job, BootStops, BootEnd
  <1>5. BootTaskInv'  BY <1>2 DEF TypeOK, LockInv, BootTaskInv, Goto, Jobs, Job, BootStops, BootEnd
  <1>6. SavedInv' /\ RemovedInv'
    BY <1>2 DEF TypeOK, SavedInv, RemovedInv, Applying, InConf, Goto, Jobs, configVars,
       historyVars, Job, BootStops, BootEnd
  <1>7. GhostInv'  BY <1>2 DEF TypeOK, GhostInv, configVars, historyVars, BootStops, BootEnd
  <1>8. ScanInv'
    BY <1>2 DEF TypeOK, ScanInv, Listing, InConf, Goto, Jobs, configVars, Job, BootStops, BootEnd
  <1> QED BY <1>2, <1>3, <1>4, <1>5, <1>6, <1>7, <1>8

\* Keeps the invariant: startup restores an active key.
LEMMA BootRestoreInd == ASSUME IndInv, BootRestore PROVE IndInv'
  <1> USE ConfigAssumption, KeysAssumption DEF IndInv, Procs
  <1>1. job' \in [Procs -> Jobs]
    <2>1. ASSUME NEW op \in {"restore", "short_id"}, NEW c \in job[Boot].todo, BootEdit(op, c)
          PROVE  job' \in [Procs -> Jobs]
      <3>1. Job(op, AnyUser, FALSE, c, job[Boot].todo \ {c}) \in Jobs
        BY JobType, AnyUserType DEF TypeOK, Jobs, Ops, Edits
      <3> QED BY <2>1, <3>1 DEF TypeOK, BootEdit
    <2>2. ASSUME NEW c, job' = Skip(c)
          PROVE  job' \in [Procs -> Jobs]
      BY <2>2 DEF TypeOK, Jobs, Skip
    <2> QED BY <2>1, <2>2 DEF BootRestore
  <1>2. TypeOK'
    <2>1. UNCHANGED <<configVars, status, role, degraded, xlock, ulock, phase, failed, historyVars>>
      BY DEF BootRestore, BootEdit, Skip
    <2>2. pc' = pc \/ pc' = [pc EXCEPT ![Boot] = "edit"]  BY DEF BootRestore, BootEdit, Skip, Goto
    <2> QED BY <1>1, <2>1, <2>2 DEF TypeOK, ConfigTypeOK, PCs, configVars, historyVars
  <1>3. LockInv'
    <2>1. xlock' = xlock /\ phase' = phase /\ phase \in Stages /\ (pc' = pc \/ pc' = [pc EXCEPT ![Boot] = "edit"])
      BY DEF BootRestore, BootEdit, BootIdle, Goto, Stages, Inbounds
    <2> QED BY <2>1 DEF TypeOK, LockInv
  <1>4. TaskInv'
    BY <1>2 DEF TypeOK, LockInv, TaskInv, Critical, Working, Goto, Jobs, Job, BootRestore,
       BootEdit, Skip, BootIdle, InConf, ManagedSid
  <1>5. BootTaskInv'
    BY <1>2 DEF TypeOK, LockInv, BootTaskInv, Goto, Jobs, Job, BootRestore, BootEdit, Skip,
       BootIdle, InConf, ManagedSid
  <1>6. SavedInv' /\ RemovedInv'
    BY <1>2 DEF TypeOK, SavedInv, RemovedInv, Applying, InConf, Goto, Jobs, configVars,
       historyVars, Job, BootRestore, BootEdit, Skip, BootIdle, ManagedSid
  <1>7. GhostInv'
    BY <1>2 DEF TypeOK, GhostInv, configVars, historyVars, BootRestore, BootEdit, Skip,
       BootIdle, InConf, ManagedSid
  <1>8. ScanInv'
    BY <1>2 DEF TypeOK, ScanInv, Listing, InConf, Goto, Jobs, configVars, Job, BootRestore,
       BootEdit, Skip, BootIdle, ManagedSid
  <1> QED BY <1>2, <1>3, <1>4, <1>5, <1>6, <1>7, <1>8

\* Keeps the invariant: startup ends cleanly: the scans have left no dead key in the file.
LEMMA BootDoneInd == ASSUME IndInv, BootDone PROVE IndInv'
  <1> USE ConfigAssumption, KeysAssumption DEF IndInv, Procs
  <1>1. job' \in [Procs -> Jobs]
    BY NoJobType, AnyUserType, JobType DEF TypeOK, Jobs, BootDone, BootEnd, BootIdle
  <1>2. TypeOK'
    BY <1>1 DEF TypeOK, ConfigTypeOK, PCs, Goto, configVars, historyVars, BootDone, BootEnd,
       BootIdle
  <1>3. LockInv'  BY <1>2 DEF TypeOK, LockInv, Critical, Goto, BootDone, BootEnd, BootIdle
  <1>4. TaskInv'
    BY <1>2 DEF TypeOK, LockInv, TaskInv, Critical, Working, Goto, Jobs, Job, BootDone, BootEnd,
       BootIdle
  <1>5. BootTaskInv'
    BY <1>2 DEF TypeOK, LockInv, BootTaskInv, Goto, Jobs, Job, BootDone, BootEnd, BootIdle
  <1>6. SavedInv' /\ RemovedInv'
    BY <1>2 DEF TypeOK, SavedInv, RemovedInv, Applying, InConf, Goto, Jobs, configVars,
       historyVars, Job, LockInv, TaskInv, BootTaskInv, Critical, Working, Stages, BootDone,
       BootEnd, BootIdle
  <1>7. GhostInv'
    BY <1>2 DEF TypeOK, ConfigTypeOK, ClientTables, LockInv, TaskInv, BootTaskInv, SavedInv,
       RemovedInv, GhostInv, ScanInv, Dead, Critical, Working, Applying, InConf, Jobs, Ops,
       Edits, Statuses, Inbounds, Clients, MayExist, Rows, BootDone, BootEnd, BootIdle,
       configVars, historyVars, serviceVars, Goto
  <1>8. ScanInv'
    BY <1>2 DEF TypeOK, ScanInv, Listing, InConf, Goto, Jobs, configVars, Job, BootDone,
       BootEnd, BootIdle
  <1> QED BY <1>2, <1>3, <1>4, <1>5, <1>6, <1>7, <1>8

\* Keeps the invariant: an administrator changes a role.
LEMMA RoleWriteInd == ASSUME IndInv, NEW u \in Users, NEW r \in {"approved", "pending"}, RoleWrite(u, r) PROVE IndInv'
  <1> USE ConfigAssumption, KeysAssumption DEF IndInv, Procs
  <1>1. job' \in [Procs -> Jobs]  BY DEF TypeOK, RoleWrite
  <1>2. TypeOK'
    BY <1>1 DEF TypeOK, ConfigTypeOK, PCs, Goto, configVars, historyVars, Statuses, Stages,
       Roles, Rows, RoleWrite
  <1>3. LockInv'  BY <1>2 DEF TypeOK, LockInv, Critical, Goto, RoleWrite
  <1>4. TaskInv'
    BY <1>2 DEF TypeOK, LockInv, TaskInv, Critical, Working, Goto, Jobs, Job, RoleWrite
  <1>5. BootTaskInv'  BY <1>2 DEF TypeOK, LockInv, BootTaskInv, Goto, Jobs, Job, RoleWrite
  <1>6. SavedInv' /\ RemovedInv'
    BY <1>2 DEF TypeOK, SavedInv, RemovedInv, Applying, InConf, Goto, Jobs, configVars,
       historyVars, Job, RoleWrite
  <1>7. GhostInv'  BY <1>2 DEF TypeOK, GhostInv, configVars, historyVars, RoleWrite
  <1>8. ScanInv'
    BY <1>2 DEF TypeOK, ScanInv, Listing, InConf, Goto, Jobs, configVars, Job, RoleWrite
  <1> QED BY <1>2, <1>3, <1>4, <1>5, <1>6, <1>7, <1>8

\* Keeps the invariant: the process dies: the file stays as it is and the older one is forgotten.
LEMMA CrashInd == ASSUME IndInv, Crash PROVE IndInv'
  <1> USE ConfigAssumption, KeysAssumption DEF IndInv, Procs
  <1>1. job' \in [Procs -> Jobs]  BY NoJobType, AnyUserType, JobType DEF TypeOK, Jobs, Crash
  <1>2. TypeOK'  BY <1>1 DEF TypeOK, ConfigTypeOK, PCs, Goto, configVars, historyVars, Crash
  <1>3. LockInv'  BY <1>2 DEF TypeOK, LockInv, Critical, Goto, Crash
  <1>4. TaskInv'
    BY <1>2 DEF TypeOK, LockInv, TaskInv, Critical, Working, Dead, Job, NoJob, Rest, Jobs, Ops,
       Edits, Statuses, Inbounds, Clients, MayExist, Rows, Crash, configVars, historyVars,
       serviceVars, Goto
  <1>5. BootTaskInv'  BY <1>2 DEF TypeOK, LockInv, BootTaskInv, Goto, Jobs, Job, Crash
  <1>6. SavedInv' /\ RemovedInv'
    BY <1>2 DEF TypeOK, SavedInv, RemovedInv, Applying, InConf, Goto, Jobs, configVars,
       historyVars, Job, Crash
  <1>7. GhostInv'  BY <1>2 DEF TypeOK, GhostInv, configVars, historyVars, Crash
  <1>8. ScanInv'  BY <1>2 DEF TypeOK, ScanInv, Listing, InConf, Goto, Jobs, configVars, Job, Crash
  <1> QED BY <1>2, <1>3, <1>4, <1>5, <1>6, <1>7, <1>8

\* Keeps the invariant: the operator edits the file by hand, which the invariant excuses.
LEMMA OperatorEditInd == ASSUME IndInv, OperatorEdit PROVE IndInv'
  <1> USE ConfigAssumption, KeysAssumption DEF IndInv, Procs
  <1>1. job' \in [Procs -> Jobs]
    BY NoJobType, AnyUserType, JobType DEF TypeOK, TaskInv, BootTaskInv, Rest, Jobs, Ops, Edits,
       Statuses, Inbounds, Clients, MayExist, Rows, Working, Critical, OperatorEdit, configVars,
       historyVars, serviceVars, Goto
  <1>2. TypeOK'
    BY <1>1 DEF TypeOK, TaskInv, BootTaskInv, Working, Critical, ConfigTypeOK, ClientTables,
       Clients, Inbounds, Procs, PCs, Statuses, Roles, Stages, Rows, MayExist, Down,
       OperatorEdit, configVars, historyVars, serviceVars, Goto
  <1>3. LockInv'
    BY <1>2 DEF TypeOK, LockInv, TaskInv, BootTaskInv, Critical, Working, PCs, Stages,
       OperatorEdit, configVars, historyVars, serviceVars, Goto
  <1>4. TaskInv'
    BY <1>2 DEF TypeOK, LockInv, TaskInv, Critical, Working, Dead, Job, NoJob, Rest, Jobs, Ops,
       Edits, Statuses, Inbounds, Clients, MayExist, Rows, OperatorEdit, configVars,
       historyVars, serviceVars, Goto
  <1>5. BootTaskInv'
    BY <1>2 DEF TypeOK, LockInv, BootTaskInv, Dead, Job, NoJob, Rest, Stages, Jobs, Ops, Edits,
       Statuses, Inbounds, Clients, MayExist, Rows, OperatorEdit, configVars, historyVars,
       serviceVars, Goto
  <1>6. SavedInv' /\ RemovedInv'
    BY <1>2 DEF TypeOK, SavedInv, RemovedInv, Applying, InConf, Goto, Jobs, configVars,
       historyVars, Job, OperatorEdit
  <1>7. GhostInv'  BY <1>2 DEF TypeOK, GhostInv, configVars, historyVars, OperatorEdit
  <1>8. ScanInv'
    BY <1>2 DEF TypeOK, ConfigTypeOK, ClientTables, LockInv, TaskInv, BootTaskInv, ScanInv,
       Listing, Dead, Critical, Working, InConf, Job, NoJob, Rest, Jobs, Ops, Edits, Statuses,
       Inbounds, Clients, MayExist, Rows, OperatorEdit, configVars, historyVars, serviceVars,
       Goto
  <1> QED BY <1>2, <1>3, <1>4, <1>5, <1>6, <1>7, <1>8

-----------------------------------------------------------------------------
(* The theorems.                                                            *)

\* The empty file and the empty database satisfy the invariant.
LEMMA InitInd == Init => IndInv
  <1> SUFFICES ASSUME Init PROVE IndInv
    OBVIOUS
  <1> USE ConfigAssumption, KeysAssumption DEF Procs
  <1>1. TypeOK
    BY NoJobType DEF Init, TypeOK, ConfigTypeOK, ClientTables, Down, Statuses, Roles, PCs
  <1>2. LockInv  BY DEF Init, LockInv, Critical
  <1>3. TaskInv /\ BootTaskInv  BY NoJobType DEF Init, TaskInv, BootTaskInv, Working, Critical
  <1>4. SavedInv /\ RemovedInv  BY DEF Init, SavedInv, RemovedInv
  <1>5. GhostInv /\ ScanInv  BY DEF Init, GhostInv, ScanInv, InConf, Down, Inbounds
  <1> QED BY <1>1, <1>2, <1>3, <1>4, <1>5 DEF IndInv

\* Every step of the system, and every step that changes nothing, keeps the invariant.
LEMMA NextInd == IndInv /\ [Next]_vars => IndInv'
  <1> SUFFICES ASSUME IndInv, [Next]_vars PROVE IndInv'
    OBVIOUS
  <1>1. CASE \E t \in Tasks : Call(t) \/ Lock(t) \/ Run(t)
    <2>1. PICK t \in Tasks : Call(t) \/ Lock(t) \/ Run(t)  BY <1>1
    <2>2. t \in Procs  BY DEF Procs
    <2>3. CASE Call(t) \/ Lock(t)
      BY <2>3, StartCreateInd, StartManageInd, StartBlockInd, AcquireUserInd, AcquireLockInd
         DEF Call, Lock
    <2>4. CASE Mark(t)
      BY <2>4, MarkRefusedInd, MarkCreateInd, InsertInd, MarkRevokeInd, AlreadyRevokedInd,
         MarkDeleteInd, ManualReconcileInd DEF Mark
    <2>5. CASE Edit(t) \/ Apply(t)
      BY <2>2, <2>5, EditRefusedInd, EditAddInd, EditRemoveInd, EditNothingInd,
         EditShortIdInd, ApplySucceedsInd, ApplyFailsInd DEF Edit, Apply
    <2>6. CASE Settle(t) \/ Compensation(t)
      BY <2>6, FinishInd, FinishFailsInd, UndoInd, CompensateInd, CompensateAppliedInd,
         CompensateFailsInd, CompensateStatusInd DEF Settle, Compensation
    <2>7. CASE Block(t)  BY <2>7, BlockRoleInd, SweepListInd, SweepNextInd, SweepEndInd DEF Block
    <2> QED BY <2>1, <2>3, <2>4, <2>5, <2>6, <2>7 DEF Run
  <1>2. CASE BootStep
    <2>1. Boot \in Procs  BY DEF Procs
    <2>2. CASE Edit(Boot) \/ Apply(Boot)
      BY <2>1, <2>2, EditRefusedInd, EditAddInd, EditRemoveInd, EditNothingInd,
         EditShortIdInd, ApplySucceedsInd, ApplyFailsInd DEF Edit, Apply
    <2> QED BY <1>2, <2>2, BootStartInd, BootSettleInd, BootResumeInd, BootFinishInd,
       BootUndoInd, BootDriftFailsInd, BootReconciledInd, BootNonLiveInd, BootScanInd,
       BootOrphanInd, BootStopsInd, BootRestoreInd, BootDoneInd DEF BootStep
  <1>3. CASE SetRole \/ UnblockUser \/ ApproveUser
    BY <1>3, RoleWriteInd DEF SetRole, UnblockUser, ApproveUser
  <1>4. CASE Crash \/ OperatorEdit  BY <1>4, CrashInd, OperatorEditInd
  <1>5. CASE UNCHANGED vars
    <2>1. UNCHANGED <<conf, sids, live, saved, status, role, degraded, xlock, ulock, pc, job, phase, failed, tampered, swept>>
      BY <1>5 DEF vars, configVars, serviceVars, historyVars
    <2>2. TypeOK' /\ LockInv'  BY <2>1 DEF IndInv, TypeOK, ConfigTypeOK, LockInv
    <2>3. TaskInv' /\ BootTaskInv'  BY <2>1 DEF IndInv, TaskInv, BootTaskInv
    <2>4. SavedInv' /\ RemovedInv' /\ GhostInv' /\ ScanInv'
      BY <2>1 DEF IndInv, SavedInv, RemovedInv, GhostInv, ScanInv, InConf, Listing
    <2> QED BY <2>2, <2>3, <2>4 DEF IndInv
  <1> QED BY <1>1, <1>2, <1>3, <1>4, <1>5 DEF Next

\* Every variable of the service and of its configuration keeps its type: no task edits the
\* client of something that is not a key, and no default short id reaches the managed ones.
THEOREM TypeCorrect == Spec => []TypeOK
  <1>1. IndInv => TypeOK  BY DEF IndInv
  <1> QED BY InitInd, NextInd, <1>1, PTL DEF Spec

\* A key that is revoked, deleted or not issued yet has no client in config.json, whatever
\* was interrupted, failed or interleaved before, unless the file was edited by hand since
\* the last clean startup: what revoke_xray_key and delete_xray_key promise.
THEOREM NoGhost == Spec => []NoGhostClient
  <1>1. IndInv => NoGhostClient  BY DEF IndInv, GhostInv, NoGhostClient, Dead, InConf
  <1> QED BY InitInd, NextInd, <1>1, PTL DEF Spec
=============================================================================
