--------------------------- MODULE XrayAccessProofs ---------------------------
(***************************************************************************)
(* What else XrayKeys guarantees, on top of the inductive invariant IndInv *)
(* of XrayKeysProofs: a degraded Xray is left alone, no client loses its   *)
(* short id to another key, a clean startup leaves the file exact, a       *)
(* blocked user stays out, and the service implements KeyLife.             *)
(***************************************************************************)
EXTENDS XrayKeysProofs

\* A step outside startup is one of a task, a role write or a crash.
LEMMA UpStep ==
  ASSUME IndInv, Next, phase = "up"
  PROVE  \/ (\E t \in Tasks : Call(t) \/ Lock(t) \/ Run(t)) /\ phase' = "up"
         \/ (\E u \in Users, r \in {"approved", "pending"} : RoleWrite(u, r)) /\ phase' = "up"
         \/ Crash
  <1>1. CASE \E t \in Tasks : Call(t) \/ Lock(t) \/ Run(t)
    <2>1. PICK t \in Tasks : Call(t) \/ Lock(t) \/ Run(t)  BY <1>1
    <2>2. ASSUME Call(t) \/ Lock(t) PROVE phase' = phase
      BY <2>2 DEF Call, Lock, StartCreate, StartManage, StartBlock, Start, AcquireUser, AcquireLock
    <2>3. ASSUME Mark(t) PROVE phase' = phase
      BY <2>3 DEF Mark, MarkRefused, MarkCreate, Insert, MarkRevoke, AlreadyRevoked, MarkDelete, ManualReconcile
    <2>4. ASSUME Edit(t) \/ Apply(t) PROVE phase' = phase
      BY <2>4 DEF Edit, Apply, EditRefused, EditAdd, EditRemove, EditNothing, EditShortId, ApplySucceeds, ApplyFails
    <2>5. ASSUME Settle(t) \/ Compensation(t) PROVE phase' = phase
      BY <2>5 DEF Settle, Compensation, Finish, FinishFails, Undo, Compensate, CompensateApplied,
         CompensateFails, CompensateStatus
    <2>6. ASSUME Block(t) PROVE phase' = phase
      BY <2>6 DEF Block, BlockRole, SweepList, SweepNext, SweepEnd
    <2> QED BY <2>1, <2>2, <2>3, <2>4, <2>5, <2>6 DEF Run
  <1>2. ~BootStep
    <2>1. pc[Boot] = "idle"  BY DEF IndInv, LockInv, Stages
    <2> QED BY <2>1 DEF BootStep, BootStart, BootSettle, BootResume, BootFinish, BootUndo,
            BootDriftFails, BootReconciled, BootNonLive, BootScan, BootOrphan, BootStops,
            BootRestore, BootDone, BootIdle, Edit, Apply, EditRefused, EditAdd, EditRemove,
            EditNothing, EditShortId, ApplySucceeds, ApplyFails, Stages, Inbounds
  <1>3. CASE SetRole \/ UnblockUser \/ ApproveUser
    BY <1>3 DEF SetRole, UnblockUser, ApproveUser, RoleWrite
  <1>4. ~OperatorEdit  BY DEF OperatorEdit
  <1> QED BY <1>1, <1>2, <1>3, <1>4 DEF Next

\* A step of startup, or of a stopped bot, is none of a task.
LEMMA DownStep ==
  ASSUME IndInv, Next, phase # "up"
  PROVE  BootStep \/ Crash \/ OperatorEdit
  <1>1. ASSUME NEW t \in Tasks, Call(t) \/ Lock(t) \/ Run(t) PROVE FALSE
    <2>1. pc[t] = "idle"  BY DEF IndInv, LockInv
    <2>2. ~Call(t)  BY DEF Call, StartCreate, StartManage, StartBlock, Start, Idle
    <2>3. ~Lock(t) /\ ~Mark(t)
      BY <2>1 DEF Lock, AcquireUser, AcquireLock, Mark, MarkRefused, MarkCreate, Insert,
         MarkRevoke, AlreadyRevoked, MarkDelete, ManualReconcile
    <2>4. ~Edit(t) /\ ~Apply(t) /\ ~Block(t)
      BY <2>1 DEF Edit, Apply, EditRefused, EditAdd, EditRemove, EditNothing, EditShortId,
         ApplySucceeds, ApplyFails, Block, BlockRole, SweepList, SweepNext, SweepEnd
    <2>5. ~Settle(t) /\ ~Compensation(t)
      BY <2>1 DEF Settle, Compensation, Finish, FinishFails, Undo, Compensate,
         CompensateApplied, CompensateFails, CompensateStatus
    <2> QED BY <1>1, <2>2, <2>3, <2>4, <2>5 DEF Run
  <1>2. ~SetRole /\ ~UnblockUser /\ ~ApproveUser  BY DEF SetRole, UnblockUser, ApproveUser, RoleWrite
  <1> QED BY <1>1, <1>2 DEF Next

-----------------------------------------------------------------------------
(* A degraded Xray is left alone.                                           *)

\* Nobody is past the second check of the degraded flag while it is set.
FrozenInv == degraded /\ phase = "up" => \A t \in Tasks : pc[t] \notin Critical \ {"mark"}

\* A task past the check holds the service lock, and only it can set the flag.
LEMMA FrozenStep ==
  ASSUME IndInv, FrozenInv, [Next]_vars
  PROVE  FrozenInv'
  <1> USE DEF IndInv
  <1>1. CASE UNCHANGED vars  BY <1>1 DEF vars, serviceVars, FrozenInv
  <1>2. CASE Next /\ phase # "up"
    <2>1. \A t \in Tasks : pc[t] = "idle"  BY <1>2 DEF LockInv
    <2>2. CASE Crash \/ OperatorEdit
      BY <1>2, <2>2 DEF Crash, OperatorEdit, serviceVars, FrozenInv
    <2>3. CASE BootStep
      <3>1. \A t \in Tasks : pc'[t] = pc[t]
        BY <2>3, KeysAssumption DEF TypeOK, Procs, BootStep, BootStart, BootSettle, BootResume, BootFinish,
           BootUndo, BootDriftFails, BootReconciled, BootNonLive, BootScan, BootOrphan, BootStops,
           BootRestore, BootDone, BootEdit, BootEnd, Goto, Edit, Apply, EditRefused, EditAdd,
           EditRemove, EditNothing, EditShortId, ApplySucceeds, ApplyFails
      <3> QED BY <2>1, <3>1 DEF FrozenInv, Critical
    <2> QED BY <1>2, <2>2, <2>3, DownStep
  <1>3. CASE Next /\ phase = "up"
    <2>1. CASE Crash  BY <2>1 DEF Crash, FrozenInv
    <2>2. CASE \E u \in Users, r \in {"approved", "pending"} : RoleWrite(u, r)
      BY <2>2 DEF RoleWrite, FrozenInv
    <2>3. CASE \E t \in Tasks : Call(t) \/ Lock(t) \/ Run(t)
      <3>1. PICK t \in Tasks : Call(t) \/ Lock(t) \/ Run(t)  BY <2>3
      <3>2. CASE Call(t) \/ Lock(t)
        BY <1>3, <3>2 DEF Call, Lock, StartCreate, StartManage, StartBlock, Start, Goto, AcquireUser, AcquireLock,
           FrozenInv, Critical, TypeOK, Procs
      <3>3. CASE Mark(t)
        BY <1>3, <3>3 DEF Mark, MarkRefused, MarkCreate, Insert, MarkRevoke, AlreadyRevoked, MarkDelete,
           ManualReconcile, Return, Goto, FrozenInv, Critical, TypeOK, Procs
      <3>4. CASE Edit(t) \/ Apply(t)
        BY <1>3, <3>4 DEF Edit, Apply, EditRefused, EditAdd, EditRemove, EditNothing, EditShortId,
           ApplySucceeds, ApplyFails, Goto, FrozenInv, Critical, TypeOK, Procs
      <3>5. CASE Settle(t)
        BY <1>3, <3>5 DEF Settle, Finish, FinishFails, Undo, Return, Goto, FrozenInv, Critical, TypeOK, Procs
      <3>6. CASE Compensation(t)
        <4>1. pc[t] \in Critical  BY <3>6 DEF Compensation, Compensate, CompensateApplied,
                CompensateFails, CompensateStatus, Critical
        <4>2. \A x \in Tasks : x # t => pc[x] \notin Critical  BY <4>1 DEF LockInv
        <4>3. CASE CompensateFails(t)
          <5>1. pc'[t] \in {"idle", "sweep"} /\ \A x \in Tasks : x # t => pc'[x] = pc[x]
            BY <4>3 DEF CompensateFails, Return, Goto, TypeOK, Procs
          <5> QED BY <4>2, <5>1 DEF FrozenInv, Critical
        <4> QED BY <1>3, <3>6, <4>3 DEF Compensation, Compensate, CompensateApplied,
                CompensateStatus, Return, Goto, FrozenInv, Critical, TypeOK, Procs
      <3>7. CASE Block(t)
        BY <1>3, <3>7 DEF Block, BlockRole, SweepList, SweepNext, SweepEnd, Goto, FrozenInv, Critical, TypeOK, Procs
      <3> QED BY <3>1, <3>2, <3>3, <3>4, <3>5, <3>6, <3>7 DEF Run
    <2> QED BY <1>3, <2>1, <2>2, <2>3, UpStep
  <1> QED BY <1>1, <1>2, <1>3

\* While Xray is degraded the running bot changes neither the file nor the running Xray: the
\* mutation guard that create, revoke and delete repeat under the service lock is enough,
\* whoever had passed the first check before the flag was set.
THEOREM DegradedFreezes == Spec => DegradedFreezesConfig
  <1>1. Init => FrozenInv  BY DEF Init, FrozenInv
  <1>2. IndInv /\ FrozenInv /\ [Next]_vars => FrozenInv'  BY FrozenStep
  <1>3. ASSUME IndInv, FrozenInv, [Next]_vars, degraded, phase = "up", phase' = "up"
        PROVE  UNCHANGED <<conf, sids, live>>
    <2>1. CASE UNCHANGED vars  BY <2>1 DEF vars, configVars
    <2>2. CASE Next
      <3>1. ~Crash  BY <1>3 DEF Crash
      <3>2. CASE \E u \in Users, r \in {"approved", "pending"} : RoleWrite(u, r)
        BY <3>2 DEF RoleWrite, configVars
      <3>3. CASE \E t \in Tasks : Call(t) \/ Lock(t) \/ Run(t)
        <4>1. PICK t \in Tasks : Call(t) \/ Lock(t) \/ Run(t)  BY <3>3
        <4>2. pc[t] \notin Critical \ {"mark"}  BY <1>3 DEF FrozenInv
        <4>3. CASE Call(t) \/ Lock(t) \/ Mark(t) \/ Block(t)
          BY <4>3 DEF configVars, Call, Lock, Mark, Block, StartCreate, StartManage, StartBlock, Start,
             AcquireUser, AcquireLock, MarkRefused, MarkCreate, Insert, MarkRevoke, AlreadyRevoked,
             MarkDelete, ManualReconcile, BlockRole, SweepList, SweepNext, SweepEnd
        <4>4. ~Edit(t) /\ ~Apply(t) /\ ~Settle(t) /\ ~Compensation(t)
          BY <4>2 DEF Critical, Edit, Apply, Settle, Compensation, EditRefused, EditAdd, EditRemove,
             EditNothing, EditShortId, ApplySucceeds, ApplyFails, Finish, FinishFails, Undo,
             Compensate, CompensateApplied, CompensateFails, CompensateStatus
        <4> QED BY <4>1, <4>3, <4>4 DEF Run
      <3> QED BY <1>3, <2>2, <3>1, <3>2, <3>3, UpStep
    <2> QED BY <1>3, <2>1, <2>2
  <1> QED BY <1>1, <1>2, <1>3, InitInd, NextInd, PTL DEF Spec, DegradedFreezesConfig

-----------------------------------------------------------------------------
(* What startup reconciliation has cleaned so far.                          *)

\* Statuses of a key that is half-way through an operation
HalfWay == Unsettled \ {"apply_failed"}

\* A client of a key that is not active is still on the list of a scan to come.
DriftInv == \A k \in Keys :
    status[k] # "active" /\ InConf(k) /\ pc[Boot] # "undo" =>
        \/ phase \in {"down", "up", "reconcile"}
        \/ phase = "nonlive" /\ (status[k] \in Rows => Listing(k))
        \/ phase = "tcp" /\ status[k] \notin Rows /\ (Transport[k] = "tcp" => Listing(k))
        \/ phase = "http" /\ status[k] \notin Rows /\ Transport[k] = "http" /\ Listing(k)

\* An active key is complete in the file, or still on the last list.
RestoredInv == phase = "restore" /\ pc[Boot] # "undo" =>
    /\ \A k \in Keys : status[k] = "active" =>
          Listing(k) \/ (InConf(k) /\ ManagedSid(k) \subseteq sids)
    /\ pc[Boot] = "edit" /\ job[Boot].op = "short_id" => InConf(job[Boot].key)

\* The scans begin with no key half-way.
SettledInv ==
    /\ phase \in Stages \ {"reconcile"} => \A k \in Keys : status[k] \notin HalfWay
    /\ phase = "reconcile" /\ ~failed => \A k \in Keys : status[k] \in HalfWay =>
          k \in job[Boot].todo \/ (pc[Boot] # "idle" /\ job[Boot].key = k)

\* No scan gets past a client whose label the bot does not recognise.
ForeignInv == pc[Boot] # "undo" => \A f \in Foreign :
    /\ phase = "tcp" /\ f \in conf["tcp"] => f \in job[Boot].todo
    /\ phase = "http" /\ f \in conf["http"] => f \in job[Boot].todo
    /\ phase \in {"http", "restore"} => f \notin conf["tcp"]
    /\ phase = "restore" => f \notin conf["http"]

StartupInv == DriftInv /\ RestoredInv /\ SettledInv /\ ForeignInv

\* The steps of startup that touch neither the file nor its edit
LEMMA StartupListStep ==
  ASSUME IndInv, StartupInv,
         \/ BootStart \/ BootSettle \/ BootResume \/ BootReconciled \/ BootNonLive \/ BootScan
         \/ BootOrphan \/ BootRestore
  PROVE  StartupInv'
  <1> USE ConfigAssumption, KeysAssumption DEF IndInv, Procs, StartupInv
  <1> USE DEF TypeOK, ConfigTypeOK, ClientTables, Jobs, Job, Stages, HalfWay, Unsettled, MayExist,
              Listing, InConf, BootIdle, BootEdit, Skip, Goto, configVars, DriftInv, RestoredInv,
              SettledInv, ForeignInv
  <1>1. CASE BootStart  BY <1>1 DEF BootStart, Stage
  <1>2. CASE BootSettle  BY <1>2 DEF BootSettle, Settled, MarkActive
  <1>3. CASE BootResume  BY <1>3 DEF BootResume
  <1>4. CASE BootReconciled
    <2>1. CASE failed  BY <1>4, <2>1 DEF BootReconciled, BootEnd
    <2>2. CASE ~failed
      <3>1. phase = "reconcile" /\ pc[Boot] = "idle" /\ job[Boot].todo = {} /\ phase' = "nonlive"
            /\ UNCHANGED <<conf, sids, status, pc>>
            /\ job'[Boot].todo = {k \in Keys : status[k] \in Rows \ {"active"}}
        BY <1>4, <2>2 DEF BootReconciled, Stage
      <3> QED BY <2>2, <3>1
    <2> QED BY <2>1, <2>2
  <1>5. CASE BootNonLive  BY <1>5 DEF BootNonLive
  <1>6. CASE BootScan
    <2>1. pc[Boot] = "idle" /\ job[Boot].todo = {} /\ UNCHANGED <<conf, sids, status, pc, failed>>
      BY <1>6 DEF BootScan
    <2>2. CASE phase = "nonlive"
      <3>1. phase' = "tcp" /\ job'[Boot].todo = conf["tcp"]  BY <1>6, <2>2 DEF BootScan, Stage
      <3> QED BY <2>1, <2>2, <3>1
    <2>3. CASE phase = "tcp"
      <3>1. phase' = "http" /\ job'[Boot].todo = conf["http"]  BY <1>6, <2>3 DEF BootScan, Stage
      <3>2. \A k \in Keys : Transport[k] \in {"tcp", "http"}  BY DEF Inbounds
      <3> QED BY <2>1, <2>3, <3>1, <3>2
    <2>4. CASE phase = "http"
      <3>1. phase' = "restore" /\ job'[Boot].todo = {k \in Keys : status[k] = "active"}
        BY <1>6, <2>4 DEF BootScan, Stage
      <3> QED BY <2>1, <2>4, <3>1
    <2> QED BY <1>6, <2>2, <2>3, <2>4 DEF BootScan
  <1>7. CASE BootOrphan  BY <1>7 DEF BootOrphan, Inbounds
  <1>8. CASE BootRestore  BY <1>8 DEF BootRestore, ManagedSid
  <1> QED BY <1>1, <1>2, <1>3, <1>4, <1>5, <1>6, <1>7, <1>8

\* The steps of startup that edit the file, settle the key they edited it for, or end startup
LEMMA StartupEditStep ==
  ASSUME IndInv, StartupInv,
         \/ Edit(Boot) \/ Apply(Boot) \/ BootFinish \/ BootUndo \/ BootDriftFails \/ BootStops
         \/ BootDone
  PROVE  StartupInv'
  <1> USE ConfigAssumption, KeysAssumption DEF IndInv, Procs, StartupInv
  <1> USE DEF TypeOK, ConfigTypeOK, ClientTables, Jobs, Job, Stages, HalfWay, Unsettled, MayExist,
              Listing, InConf, Goto, configVars, DriftInv, RestoredInv, SettledInv, ForeignInv,
              BootTaskInv
  <1>1. CASE EditRefused(Boot)  BY <1>1 DEF EditRefused
  <1>2. CASE EditAdd(Boot)
    <2>1. phase = "restore" /\ job[Boot].op = "restore" /\ job[Boot].key \in Keys
          /\ status[job[Boot].key] = "active"
      BY <1>2 DEF EditAdd, LockInv
    <2>2. /\ conf' = [conf EXCEPT ![Transport[job[Boot].key]] = @ \cup {job[Boot].key}]
          /\ sids' = sids \cup ManagedSid(job[Boot].key)
          /\ UNCHANGED <<status, phase>> /\ pc[Boot] = "edit" /\ pc'[Boot] = "apply"
          /\ job'[Boot].todo = job[Boot].todo
      BY <1>2 DEF EditAdd, AddClient, Replace
    <2>3. DriftInv'  BY <2>1, <2>2
    <2>4. RestoredInv'
      BY <2>1, <2>2 DEF ManagedSid
    <2>5. SettledInv' /\ ForeignInv'  BY <2>1, <2>2, ConfigAssumption DEF Inbounds
    <2> QED BY <2>3, <2>4, <2>5
  <1>3. CASE EditRemove(Boot)
    <2>1. phase # "restore" /\ job[Boot].key \in Keys /\ Inbound(Boot) \in Inbounds
          /\ phase \in Stages
      BY <1>3 DEF EditRemove, Removals, Inbound, LockInv
    <2>2. /\ conf' = [conf EXCEPT ![Inbound(Boot)] = @ \ {job[Boot].key}]
          /\ UNCHANGED <<status, phase, job, failed>> /\ pc[Boot] = "edit" /\ pc'[Boot] = "apply"
      BY <1>3 DEF EditRemove, RemoveClient, Replace
    <2>3. \A i \in Inbounds : conf'[i] \subseteq conf[i]  BY <2>1, <2>2
    <2>4. DriftInv'
      <3>1. SUFFICES ASSUME NEW k \in Keys, status[k] # "active", InConf(k)', ~(phase \in {"down", "up", "reconcile"})
                     PROVE  \/ phase = "nonlive" /\ (status[k] \in Rows => k \in job[Boot].todo)
                            \/ phase = "tcp" /\ status[k] \notin Rows /\ (Transport[k] = "tcp" => k \in job[Boot].todo)
                            \/ phase = "http" /\ status[k] \notin Rows /\ Transport[k] = "http" /\ k \in job[Boot].todo
        BY <2>2
      <3>2. InConf(k)  BY <2>3, <3>1
      <3>3. k # job[Boot].key \/ (phase \in Inbounds /\ status[k] \notin Rows /\ phase # Transport[k])
        BY <2>1, <2>2, <3>1 DEF Inbound
      <3> QED BY <2>2, <3>1, <3>2, <3>3 DEF Inbounds
    <2>5. RestoredInv' /\ SettledInv'  BY <2>1, <2>2
    <2>6. ForeignInv'  BY <2>1, <2>2, <2>3 DEF Inbounds
    <2> QED BY <2>4, <2>5, <2>6
  <1>4. CASE EditNothing(Boot)
    <2>1. phase # "restore" /\ job[Boot].key \in Keys
      BY <1>4 DEF EditNothing, Removals, LockInv
    <2>2. /\ job[Boot].key \notin conf[Inbound(Boot)] /\ pc[Boot] = "edit" /\ pc'[Boot] = "finish"
          /\ UNCHANGED <<conf, sids, status, phase, job, failed>>
      BY <1>4 DEF EditNothing, RemovalChanges
    <2> QED BY <2>1, <2>2 DEF Inbound, Inbounds
  <1>5. CASE EditShortId(Boot)
    <2>1. phase = "restore"  BY <1>5 DEF EditShortId, LockInv
    <2>2. /\ conf' = conf /\ sids' = sids \cup ManagedSid(job[Boot].key)
          /\ UNCHANGED <<status, phase, job>> /\ pc[Boot] = "edit" /\ pc'[Boot] = "apply"
          /\ job[Boot].op = "short_id"
      BY <1>5 DEF EditShortId, EnsureShortId, Replace
    <2> QED BY <2>1, <2>2 DEF ManagedSid
  <1>6. CASE ApplySucceeds(Boot)
    <2>1. UNCHANGED <<conf, sids, status, phase, job, failed>> /\ pc[Boot] = "apply" /\ pc'[Boot] = "finish"
      BY <1>6 DEF ApplySucceeds, ApplyOk
    <2> QED BY <2>1 DEF ManagedSid
  <1>7. CASE ApplyFails(Boot)
    <2>1. UNCHANGED <<status, phase, job, failed>> /\ pc[Boot] = "apply" /\ pc'[Boot] = "undo"
      BY <1>7 DEF ApplyFails
    <2> QED BY <2>1
  <1>8. CASE BootFinish
    <2>1. /\ UNCHANGED <<conf, sids, phase>> /\ pc[Boot] = "finish" /\ pc'[Boot] = "idle"
          /\ job'[Boot].todo = job[Boot].todo /\ job[Boot].key \in Keys
          /\ phase \in Stages
      BY <1>8 DEF BootFinish, Rest, LockInv
    <2>2. CASE phase = "reconcile"
      <3>1. \/ failed'
            \/ failed' = failed /\ status' = [status EXCEPT ![job[Boot].key] = FinalStatus(Boot)]
               /\ FinalStatus(Boot) \in {"revoked", "gone"}
        BY <1>8, <2>1, <2>2 DEF BootFinish, FinalStatus
      <3> QED BY <2>1, <2>2, <3>1
    <2>3. CASE phase # "reconcile"
      <3>1. UNCHANGED <<status, failed>>  BY <1>8, <2>3 DEF BootFinish
      <3> QED BY <2>1, <2>3, <3>1 DEF ManagedSid
    <2> QED BY <2>2, <2>3
  <1>9. CASE BootUndo
    <2>1. phase = "reconcile" /\ phase' = phase /\ failed' = TRUE  BY <1>9 DEF BootUndo
    <2> QED BY <2>1
  <1>10. CASE BootDriftFails \/ BootStops \/ BootDone
    <2>1. phase' = "up"  BY <1>10 DEF BootDriftFails, BootStops, BootDone, BootEnd
    <2> QED BY <2>1
  <1> QED BY <1>1, <1>2, <1>3, <1>4, <1>5, <1>6, <1>7, <1>8, <1>9, <1>10 DEF Edit, Apply

\* StartupInv is kept by every step.
LEMMA StartupStep ==
  ASSUME IndInv, StartupInv, [Next]_vars
  PROVE  StartupInv'
  <1>1. CASE UNCHANGED vars
    BY <1>1 DEF vars, configVars, serviceVars, StartupInv, DriftInv, RestoredInv, SettledInv,
       ForeignInv, InConf, Listing
  <1>2. CASE Next /\ phase = "up"
    <2>1. phase' \in {"up", "down"}  BY <1>2, UpStep DEF Crash
    <2> QED BY <2>1 DEF StartupInv, DriftInv, RestoredInv, SettledInv, ForeignInv, Stages
  <1>3. CASE Next /\ phase # "up"
    <2>1. CASE Crash \/ OperatorEdit
      <3>1. phase' = "down"  BY <2>1 DEF Crash, OperatorEdit, serviceVars
      <3> QED BY <3>1 DEF StartupInv, DriftInv, RestoredInv, SettledInv, ForeignInv, Stages
    <2>2. CASE BootStep  BY <2>2, StartupListStep, StartupEditStep DEF BootStep
    <2> QED BY <1>3, <2>1, <2>2, DownStep
  <1> QED BY <1>1, <1>2, <1>3

-----------------------------------------------------------------------------
(* How steps change the file.                                               *)

\* The file, its short ids and its backup after a step that edits them, for the key of task t
Added(t) ==
    /\ job[t].key \in Keys /\ status[job[t].key] \notin Dead
    /\ conf' = [conf EXCEPT ![Transport[job[t].key]] = @ \cup {job[t].key}]
    /\ sids' = sids \cup ManagedSid(job[t].key)
    /\ saved' = [conf |-> conf, sids |-> sids]

Removed(t) ==
    /\ job[t].key \in Keys
    /\ \E i \in Inbounds, d \in {{}, ManagedSid(job[t].key)} :
         /\ conf' = [conf EXCEPT ![i] = @ \ {job[t].key}]
         /\ sids' = sids \ d
         /\ d # {} => /\ i = Transport[job[t].key]
                      /\ SidUsed(job[t].key) => pc[t] = "comp" /\ job[t].ins
    /\ saved' = [conf |-> conf, sids |-> sids]

Completed(t) ==
    /\ conf' = conf
    /\ sids' = sids \cup ManagedSid(job[t].key)
    /\ saved' = [conf |-> conf, sids |-> sids]

\* ... or that only forgets the backup, or falls back to it
Forgot == UNCHANGED <<conf, sids>> /\ saved' \in {saved, [conf |-> conf, sids |-> sids]}

FellBack == conf' = saved.conf /\ sids' = saved.sids /\ saved' = saved

\* These are all the ways in which a step of the bot changes the file; an edit leaves the
\* rows and the roles alone.
LEMMA FileSteps ==
  ASSUME IndInv, Next
  PROVE  \/ Forgot
         \/ OperatorEdit
         \/ FellBack /\ UNCHANGED <<status, swept, tampered>>
            /\ \E t \in Procs : pc[t] \in Applying /\ pc'[t] \in {"undo", "idle", "sweep"}
         \/ /\ UNCHANGED <<status, swept, tampered>>
            /\ \E t \in Procs : \/ EditAdd(t) /\ Added(t)
                                \/ EditRemove(t) /\ Removed(t)
                                \/ Compensate(t) /\ Removed(t)
                                \/ EditShortId(t) /\ Completed(t)
  <1> USE ConfigAssumption, KeysAssumption DEF IndInv, Procs
  <1>1. ASSUME NEW t \in Procs, Edit(t) \/ Apply(t)
        PROVE  \/ Forgot
               \/ FellBack /\ pc[t] \in Applying /\ pc'[t] = "undo" /\ UNCHANGED <<status, swept, tampered>>
               \/ EditAdd(t) /\ Added(t) /\ UNCHANGED <<status, swept, tampered>>
               \/ EditRemove(t) /\ Removed(t) /\ UNCHANGED <<status, swept, tampered>>
               \/ EditShortId(t) /\ Completed(t) /\ UNCHANGED <<status, swept, tampered>>
    <2>1. CASE EditRefused(t) \/ EditNothing(t)
      BY <2>1 DEF EditRefused, EditNothing, Forgot, configVars
    <2>2. CASE EditAdd(t)
      BY <2>2 DEF EditAdd, AddClient, Replace, Added, TaskInv, BootTaskInv, Working, Critical, Dead,
         historyVars
    <2>3. CASE EditRemove(t)
      <3>1. job[t].key \in Keys /\ Inbound(t) \in Inbounds
        BY <2>3 DEF EditRemove, TaskInv, BootTaskInv, Working, Critical, Inbound, Removals
      <3>2. Droppable(job[t].key) # {} => Inbound(t) = Transport[job[t].key] /\ ~SidUsed(job[t].key)
        BY <3>1 DEF Droppable, Inbound
      <3>3. Droppable(job[t].key) \in {{}, ManagedSid(job[t].key)}  BY DEF Droppable
      <3>4. Removed(t)
        BY <2>3, <3>1, <3>2, <3>3 DEF EditRemove, RemoveClient, Replace, Removed
      <3> QED BY <2>3, <3>4 DEF EditRemove, historyVars
    <2>4. CASE EditShortId(t)
      BY <2>4 DEF EditShortId, EnsureShortId, Replace, Completed, historyVars
    <2>5. CASE ApplySucceeds(t)  BY <2>5 DEF ApplySucceeds, ApplyOk, Forgot
    <2>6. CASE ApplyFails(t)
      BY <2>6 DEF ApplyFails, ApplyFailed, Forgot, FellBack, Applying, Goto, TypeOK, historyVars
    <2> QED BY <1>1, <2>1, <2>2, <2>3, <2>4, <2>5, <2>6 DEF Edit, Apply
  <1>2. ASSUME NEW t \in Tasks, Compensation(t), phase = "up"
        PROVE  \/ Forgot
               \/ FellBack /\ pc[t] \in Applying /\ pc'[t] \in {"idle", "sweep"} /\ UNCHANGED <<status, swept, tampered>>
               \/ Compensate(t) /\ Removed(t) /\ UNCHANGED <<status, swept, tampered>>
    <2>1. CASE Compensate(t)
      <3>1. job[t].key \in Keys /\ Inbound(t) = Transport[job[t].key]
        BY <1>2, <2>1 DEF Compensate, TaskInv, Working, Critical, Inbound, Inbounds
      <3>2. Transport[job[t].key] \in Inbounds  BY <3>1
      <3>3. Removed(t)
        BY <2>1, <3>1, <3>2 DEF Compensate, RemoveClient, Replace, Removed, CompDropped
      <3> QED BY <2>1, <3>3 DEF Compensate, historyVars
    <2>2. CASE CompensateApplied(t)  BY <2>2 DEF CompensateApplied, ApplyOk, Forgot
    <2>3. CASE CompensateFails(t)
      BY <2>3 DEF CompensateFails, ApplyFailed, Forgot, FellBack, Applying, Return, Goto, TypeOK,
         configVars, historyVars
    <2>4. CASE CompensateStatus(t)  BY <2>4 DEF CompensateStatus, Forgot, configVars
    <2> QED BY <1>2, <2>1, <2>2, <2>3, <2>4 DEF Compensation
  <1>3. CASE phase = "up"
    <2>1. CASE \E t \in Tasks : Call(t) \/ Lock(t) \/ Run(t)
      <3>1. PICK t \in Tasks : Call(t) \/ Lock(t) \/ Run(t)  BY <2>1
      <3>2. CASE Call(t) \/ Lock(t) \/ Mark(t)
        BY <3>2 DEF configVars, Forgot, Call, Lock, Mark, StartCreate, StartManage, StartBlock, Start,
           AcquireUser, AcquireLock, MarkRefused, MarkCreate, Insert, MarkRevoke, AlreadyRevoked,
           MarkDelete, ManualReconcile
      <3>3. CASE Settle(t) \/ Block(t)
        BY <3>3 DEF configVars, Forgot, Settle, Block, Finish, FinishFails, Undo, BlockRole, SweepList,
           SweepNext, SweepEnd
      <3>4. CASE Edit(t) \/ Apply(t)  BY <3>4, <1>1
      <3>5. CASE Compensation(t)  BY <1>3, <3>5, <1>2
      <3> QED BY <3>1, <3>2, <3>3, <3>4, <3>5 DEF Run
    <2>2. CASE \E u \in Users, r \in {"approved", "pending"} : RoleWrite(u, r)
      BY <2>2 DEF RoleWrite, configVars, Forgot
    <2>3. CASE Crash  BY <2>3 DEF Crash, Forgot
    <2> QED BY <1>3, <2>1, <2>2, <2>3, UpStep
  <1>4. CASE phase # "up"
    <2>1. CASE BootStep
      <3>1. CASE Edit(Boot) \/ Apply(Boot)  BY <3>1, <1>1
      <3> QED BY <2>1, <3>1 DEF BootStep, BootStart, BootSettle, BootResume, BootFinish,
           BootUndo, BootDriftFails, BootReconciled, BootNonLive, BootScan, BootOrphan, BootStops,
           BootRestore, BootDone, BootEdit, configVars, Forgot
    <2>2. CASE Crash  BY <2>2 DEF Crash, Forgot
    <2> QED BY <1>4, <2>1, <2>2, DownStep
  <1> QED BY <1>3, <1>4

\* Only the end of a clean startup stops excusing hand edits.
LEMMA Excused ==
  ASSUME IndInv, Next, tampered, ~tampered'
  PROVE  BootDone
  <1> USE DEF IndInv, historyVars
  <1>1. phase # "up"
    <2> SUFFICES ASSUME phase = "up" PROVE FALSE
      OBVIOUS
    <2>1. CASE \E t \in Tasks : Call(t) \/ Lock(t) \/ Run(t)
      <3>1. PICK t \in Tasks : Call(t) \/ Lock(t) \/ Run(t)  BY <2>1
      <3>2. ~(Call(t) \/ Lock(t) \/ Mark(t))
        BY DEF Call, Lock, Mark, StartCreate, StartManage, StartBlock, Start,
           AcquireUser, AcquireLock, MarkRefused, MarkCreate, Insert, MarkRevoke, AlreadyRevoked,
           MarkDelete, ManualReconcile
      <3>3. ~(Settle(t) \/ Block(t))
        BY DEF Settle, Block, Finish, FinishFails, Undo, BlockRole, SweepList, SweepNext, SweepEnd
      <3>4. ~(Edit(t) \/ Apply(t) \/ Compensation(t))
        BY DEF Edit, Apply, Compensation, EditRefused, EditAdd, EditRemove, EditNothing, EditShortId,
           ApplySucceeds, ApplyFails, Compensate, CompensateApplied, CompensateFails, CompensateStatus
      <3> QED BY <3>1, <3>2, <3>3, <3>4 DEF Run
    <2> QED BY <2>1, UpStep DEF RoleWrite, Crash
  <1>2. ~Crash /\ ~OperatorEdit  BY DEF Crash, OperatorEdit
  <1>3. ~(Edit(Boot) \/ Apply(Boot))
    BY DEF Edit, Apply, EditRefused, EditAdd, EditRemove, EditNothing, EditShortId, ApplySucceeds, ApplyFails
  <1> QED BY <1>1, <1>2, <1>3, DownStep DEF BootStep, BootStart, BootSettle, BootResume, BootFinish,
          BootUndo, BootDriftFails, BootReconciled, BootNonLive, BootScan, BootOrphan, BootStops,
          BootRestore, BootEdit, BootEnd

\* At the end of a clean startup nothing is being applied, so the backup is the file.
LEMMA NothingSaved ==
  ASSUME IndInv, BootDone
  PROVE  saved.conf = conf /\ saved.sids = sids /\ UNCHANGED <<conf, sids, saved, status>> /\ \A t \in Tasks : pc'[t] = "idle"
  BY KeysAssumption DEF IndInv, BootDone, BootIdle, BootEnd, LockInv, SavedInv, Applying, TypeOK, Procs, configVars

-----------------------------------------------------------------------------
(* A clean startup leaves the file exact.                                   *)

\* A client of a key sits in the inbound of that key.
PlaceInv == \A k \in Keys, i \in Inbounds : k \in conf[i] \/ k \in saved.conf[i] => i = Transport[k]

\* So it stays, unless the operator moves it.
LEMMA PlaceStep ==
  ASSUME ~CrossEdits, IndInv, PlaceInv, [Next]_vars
  PROVE  PlaceInv'
  <1> USE ConfigAssumption DEF PlaceInv, IndInv, TypeOK, ConfigTypeOK, ClientTables
  <1>1. CASE UNCHANGED vars  BY <1>1 DEF vars, configVars
  <1>2. CASE Next
    <2>1. CASE Forgot  BY <2>1 DEF Forgot
    <2>2. CASE OperatorEdit
      <3>1. conf' = conf \/ \E c \in Clients, i \in Inbounds :
              /\ c \in Keys => i = Transport[c]
              /\ conf' = [conf EXCEPT ![i] = IF c \in @ THEN @ \ {c} ELSE @ \cup {c}]
        BY <2>2 DEF OperatorEdit
      <3>2. saved'.conf = conf'  BY <2>2 DEF OperatorEdit
      <3> QED BY <3>1, <3>2
    <2>3. CASE FellBack  BY <2>3 DEF FellBack
    <2>4. CASE \E t \in Procs : Added(t)  BY <2>4 DEF Added
    <2>5. CASE \E t \in Procs : Removed(t)  BY <2>5 DEF Removed
    <2>6. CASE \E t \in Procs : Completed(t)  BY <2>6 DEF Completed
    <2> QED BY <1>2, <2>1, <2>2, <2>3, <2>4, <2>5, <2>6, FileSteps DEF IndInv
  <1> QED BY <1>1, <1>2

\* A startup_reconcile that ends without marking Xray degraded leaves in each inbound of the
\* file the clients of exactly the active keys, each with its short id, and no key half-way,
\* whatever a crash or an operator had left behind; only a client that the operator put in
\* the inbound of another transport is beyond it.
THEOREM CleanStart == ASSUME ~CrossEdits PROVE Spec => CleanStartIsExact
  <1>1. Init => StartupInv
    BY ConfigAssumption DEF Init, StartupInv, DriftInv, RestoredInv, SettledInv, ForeignInv, InConf, Down, Stages
  <1>2. Init => PlaceInv  BY DEF Init, PlaceInv, Down
  <1>3. IndInv /\ StartupInv /\ [Next]_vars => StartupInv'  BY StartupStep
  <1>4. IndInv /\ PlaceInv /\ [Next]_vars => PlaceInv'  BY PlaceStep
  <1>5. ASSUME IndInv, StartupInv, PlaceInv, [Next]_vars, phase = "restore", phase' = "up", ~degraded'
        PROVE  Exact'
    <2>1. BootDone
      <3>1. Next  BY <1>5 DEF vars, serviceVars
      <3>2. ~Crash /\ ~OperatorEdit  BY <1>5 DEF Crash, OperatorEdit
      <3>3. ~(Edit(Boot) \/ Apply(Boot))
        BY <1>5 DEF Edit, Apply, EditRefused, EditAdd, EditRemove, EditNothing, EditShortId, ApplySucceeds, ApplyFails
      <3> QED BY <1>5, <3>1, <3>2, <3>3, DownStep DEF BootStep, BootStart, BootSettle, BootResume,
              BootFinish, BootUndo, BootDriftFails, BootReconciled, BootNonLive, BootScan, BootOrphan,
              BootStops, BootRestore, BootEdit, BootEnd, BootIdle, Inbounds
    <2>2. UNCHANGED <<conf, sids, status>> /\ pc[Boot] = "idle" /\ job[Boot].todo = {}
      BY <2>1 DEF BootDone, BootIdle, BootEnd, configVars
    <2>3. \A k \in Keys : /\ InConf(k) => status[k] = "active"
                          /\ status[k] = "active" => InConf(k) /\ ManagedSid(k) \subseteq sids
      BY <1>5, <2>2 DEF StartupInv, DriftInv, RestoredInv, Listing
    <2>4. \A i \in Inbounds : conf[i] \subseteq Keys
      BY <1>5, <2>2 DEF StartupInv, ForeignInv, IndInv, TypeOK, ConfigTypeOK, ClientTables, Clients, Inbounds
    <2>5. \A i \in Inbounds : conf[i] = {k \in Keys : status[k] = "active" /\ Transport[k] = i}
      BY <1>5, <2>3, <2>4 DEF PlaceInv, InConf
    <2>6. \A k \in Keys : status[k] \notin Unsettled \ {"apply_failed"}
      BY <1>5 DEF StartupInv, SettledInv, HalfWay, Stages
    <2> QED BY <2>2, <2>3, <2>5, <2>6 DEF Exact, ManagedSid
  <1> QED BY <1>1, <1>2, <1>3, <1>4, <1>5, InitInd, NextInd, PTL DEF Spec, CleanStartIsExact

-----------------------------------------------------------------------------
(* No client loses its short id to another key.                             *)

\* Every client of the file, and of the backup, finds its short id beside it.
SidInv == ~tampered => \A k \in Keys :
    /\ k \in conf[Transport[k]] => ManagedSid(k) \subseteq sids
    /\ k \in saved.conf[Transport[k]] => ManagedSid(k) \subseteq saved.sids

\* A create that inserted the short id is the only one to use it, until it gives up the lock.
InsertedInv == \A t \in Tasks :
    pc[t] \in {"apply", "finish", "comp"} /\ job[t].op = "create" /\ job[t].ins /\ ~tampered =>
        \A j \in Keys \ {job[t].key} : InConf(j) => ManagedSid(j) \cap ManagedSid(job[t].key) = {}

\* The removals of the short id: by a key no other row shares it with, or by the create that
\* inserted it.
LEMMA SidRemoved ==
  ASSUME IndInv, SidInv, InsertedInv, ~tampered, NEW t \in Procs, Removed(t),
         EditRemove(t) \/ (t \in Tasks /\ Compensate(t))
  PROVE  \A k \in Keys : InConf(k)' => ManagedSid(k) \subseteq sids'
  <1> USE ConfigAssumption DEF IndInv, TypeOK, ConfigTypeOK, ClientTables
  <1>1. PICK i \in Inbounds, d \in {{}, ManagedSid(job[t].key)} :
         /\ conf' = [conf EXCEPT ![i] = @ \ {job[t].key}]
         /\ sids' = sids \ d
         /\ d # {} => /\ i = Transport[job[t].key]
                      /\ SidUsed(job[t].key) => pc[t] = "comp" /\ job[t].ins
    BY DEF Removed
  <1>2. TAKE k \in Keys
  <1>3. HAVE InConf(k)'
  <1>4. InConf(k)  BY <1>1, <1>3 DEF InConf
  <1>5. CASE d = {}  BY <1>1, <1>4, <1>5 DEF SidInv, InConf
  <1>6. CASE d # {}
    <2>1. k # job[t].key /\ job[t].key \in Keys  BY <1>1, <1>3, <1>6 DEF InConf, Removed
    <2>2. status[k] \in MayExist  BY <1>4 DEF GhostInv, InConf, Dead, Statuses, MayExist
    <2>3. CASE SidUsed(job[t].key)
      <3>1. pc[t] = "comp" /\ job[t].ins  BY <1>1, <1>6, <2>3
      <3>2. t \in Tasks /\ job[t].op = "create"
        BY <3>1 DEF EditRemove, TaskInv
      <3> QED BY <1>1, <1>4, <1>6, <2>1, <3>1, <3>2 DEF SidInv, InsertedInv, InConf
    <2>4. CASE ~SidUsed(job[t].key)
      <3>1. Sid[k] # Sid[job[t].key]  BY <2>1, <2>2, <2>4 DEF SidUsed
      <3> QED BY <1>1, <1>4, <1>6, <3>1 DEF SidInv, InConf, ManagedSid
    <2> QED BY <2>3, <2>4
  <1> QED BY <1>5, <1>6

\* Every step keeps the short ids of the file.
LEMMA SidStep ==
  ASSUME IndInv, StartupInv, SidInv, InsertedInv, [Next]_vars
  PROVE  SidInv'
  <1> USE ConfigAssumption
  <1>1. CASE UNCHANGED vars  BY <1>1 DEF vars, configVars, historyVars, SidInv, ManagedSid
  <1>2. CASE Next /\ tampered'  BY <1>2 DEF SidInv
  <1>3. CASE Next /\ ~tampered' /\ tampered
    <2>1. BootDone  BY <1>3, Excused
    <2>2. \A k \in Keys : InConf(k) => ManagedSid(k) \subseteq sids
      BY <2>1 DEF BootDone, BootIdle, StartupInv, DriftInv, RestoredInv, Listing
    <2> QED BY <2>1, <2>2, NothingSaved DEF SidInv, InConf, ManagedSid
  <1>4. CASE Next /\ ~tampered' /\ ~tampered
    <2> USE DEF IndInv, TypeOK, ConfigTypeOK, ClientTables
    <2>1. CASE Forgot  BY <1>4, <2>1 DEF Forgot, SidInv, ManagedSid
    <2>2. ~OperatorEdit  BY <1>4 DEF OperatorEdit
    <2>3. CASE FellBack  BY <1>4, <2>3 DEF FellBack, SidInv, ManagedSid
    <2>4. CASE \E t \in Procs : Added(t)  BY <1>4, <2>4 DEF Added, SidInv, ManagedSid
    <2>5. ASSUME NEW t \in Procs, Removed(t), EditRemove(t) \/ Compensate(t) PROVE SidInv'
      <3>1. t \in Tasks \/ EditRemove(t)
        BY <2>5 DEF Compensate, BootTaskInv, Procs
      <3>2. \A k \in Keys : InConf(k)' => ManagedSid(k) \subseteq sids'
        BY <1>4, <2>5, <3>1, SidRemoved
      <3> QED BY <1>4, <2>5, <3>2 DEF SidInv, InConf, Removed, ManagedSid
    <2>6. CASE \E t \in Procs : Completed(t)  BY <1>4, <2>6 DEF Completed, SidInv, ManagedSid
    <2> QED BY <1>4, <2>1, <2>2, <2>3, <2>4, <2>5, <2>6, FileSteps
  <1> QED BY <1>1, <1>2, <1>3, <1>4

\* While a create is between its edit and its last write, only its own steps and a crash
\* move it, and nobody else edits the file.
LEMMA CreateStep ==
  ASSUME IndInv, Next, NEW t \in Tasks, pc'[t] \in {"apply", "finish", "comp"}, job'[t].op = "create"
  PROVE  /\ phase = "up" /\ ~BootDone
         /\ \/ EditAdd(t)
            \/ /\ pc[t] \in {"apply", "finish", "comp"}
               /\ UNCHANGED <<conf, job[t]>>
  <1> USE DEF IndInv, Procs
  <1>1. phase = "up"
    <2> SUFFICES ASSUME phase # "up" PROVE FALSE
      OBVIOUS
    <2>1. \A x \in Tasks : pc[x] = "idle"  BY DEF LockInv
    <2>2. CASE Crash \/ OperatorEdit  BY <2>1, <2>2 DEF Crash, OperatorEdit, serviceVars
    <2>3. CASE BootStep
      <3>1. pc'[t] = pc[t]
        BY <2>3, KeysAssumption DEF TypeOK, BootStep, BootStart, BootSettle, BootResume, BootFinish,
           BootUndo, BootDriftFails, BootReconciled, BootNonLive, BootScan, BootOrphan, BootStops,
           BootRestore, BootDone, BootEdit, BootEnd, Goto, Edit, Apply, EditRefused, EditAdd,
           EditRemove, EditNothing, EditShortId, ApplySucceeds, ApplyFails
      <3> QED BY <2>1, <3>1
    <2> QED BY <2>2, <2>3, DownStep
  <1>2. ~Crash  BY DEF Crash
  <1>3. CASE \E u \in Users, r \in {"approved", "pending"} : RoleWrite(u, r)
    BY <1>1, <1>3 DEF RoleWrite, configVars, BootDone, BootIdle
  <1>4. ASSUME NEW x \in Tasks, Call(x) \/ Lock(x) \/ Run(x), x # t
        PROVE  pc[t] = pc'[t] /\ job'[t] = job[t] /\ conf' = conf
    <2>1. CASE Call(x) \/ Lock(x) \/ Mark(x)
      BY <1>4, <2>1 DEF configVars, Call, Lock, Mark, StartCreate, StartManage, StartBlock, Start, Goto,
         AcquireUser, AcquireLock, MarkRefused, MarkCreate, Insert, MarkRevoke, AlreadyRevoked,
         MarkDelete, ManualReconcile, Return, TypeOK
    <2>2. CASE Settle(x) \/ Block(x)
      BY <1>4, <2>2 DEF configVars, Settle, Block, Finish, FinishFails, Undo, BlockRole, SweepList,
         SweepNext, SweepEnd, Return, Goto, TypeOK
    <2>3. CASE Edit(x) \/ Apply(x) \/ Compensation(x)
      <3>1. pc[x] \in Critical /\ pc'[t] = pc[t]
        BY <1>4, <2>3 DEF Edit, Apply, Compensation, EditRefused, EditAdd, EditRemove, EditNothing, EditShortId,
           ApplySucceeds, ApplyFails, Compensate, CompensateApplied, CompensateFails, CompensateStatus,
           Critical, Return, Goto, TypeOK
      <3> QED BY <1>4, <3>1 DEF LockInv, Critical
    <2> QED BY <1>4, <2>1, <2>2, <2>3 DEF Run
  <1>5. ASSUME Call(t) \/ Lock(t) \/ Run(t)
        PROVE  \/ EditAdd(t)
               \/ pc[t] \in {"apply", "finish", "comp"} /\ UNCHANGED <<conf, job[t]>>
    <2>1. ~Call(t) /\ ~Lock(t) /\ ~Mark(t)
      <3>1. ~Call(t) /\ ~Lock(t)
        BY DEF Call, Lock, StartCreate, StartManage, StartBlock, Start, Goto, AcquireUser, AcquireLock, TypeOK
      <3>2. ~MarkDelete(t)
        <4>1. MarkDelete(t) => job'[t].op = job[t].op  BY DEF MarkDelete, TypeOK, Jobs
        <4> QED BY <4>1 DEF MarkDelete
      <3> QED BY <3>1, <3>2 DEF Mark, MarkRefused, MarkCreate, Insert, MarkRevoke, AlreadyRevoked,
              ManualReconcile, Return, Goto, TypeOK
    <2>2. CASE Settle(t) \/ Block(t)
      BY <2>2 DEF configVars, Settle, Block, Finish, FinishFails, Undo, BlockRole, SweepList,
         SweepNext, SweepEnd, Return, Goto, TypeOK
    <2>3. CASE Edit(t) \/ Apply(t)
      BY <2>3 DEF Edit, Apply, EditRefused, EditRemove, EditNothing, EditShortId, Removals,
         ApplySucceeds, ApplyOk, ApplyFails, Goto, TypeOK
    <2>4. CASE Compensation(t)
      BY <2>4 DEF Compensation, Compensate, CompensateApplied, CompensateFails, CompensateStatus,
         Return, Goto, TypeOK
    <2> QED BY <1>5, <2>1, <2>2, <2>3, <2>4 DEF Run
  <1> QED BY <1>1, <1>2, <1>3, <1>4, <1>5, UpStep DEF BootDone, BootIdle

\* A create keeps its inserted short id to itself.
LEMMA InsertedStep ==
  ASSUME IndInv, SidInv, InsertedInv, [Next]_vars
  PROVE  InsertedInv'
  <1> USE ConfigAssumption
  <1>1. CASE UNCHANGED vars
    BY <1>1 DEF vars, configVars, serviceVars, historyVars, InsertedInv, ManagedSid, InConf
  <1>2. CASE Next
    <2> SUFFICES ASSUME NEW t \in Tasks, pc'[t] \in {"apply", "finish", "comp"},
                        job'[t].op = "create", job'[t].ins, ~tampered',
                        NEW j \in Keys \ {job'[t].key}, InConf(j)'
                 PROVE  ManagedSid(j) \cap ManagedSid(job'[t].key) = {}
      BY DEF InsertedInv, ManagedSid
    <2>1. ~tampered  BY <1>2, CreateStep, Excused
    <2>2. CASE EditAdd(t)
      <3>1. t \in Procs /\ job[t].key \in Keys
        BY <2>2 DEF Procs, IndInv, EditAdd, TaskInv, Working, Critical
      <3>2. job'[t].key = job[t].key /\ (job'[t].ins => ~(ManagedSid(job[t].key) \subseteq sids))
        <4>1. PICK b \in BOOLEAN : /\ b = ~(ManagedSid(job[t].key) \subseteq sids)
                                  /\ job' = [job EXCEPT ![t].ins = b]
          BY <2>2, Zenon DEF EditAdd
        <4> QED BY <3>1, <4>1 DEF IndInv, TypeOK, Jobs
      <3>3. InConf(j)
        BY <2>2, <3>1, <3>2 DEF EditAdd, AddClient, Replace, InConf, IndInv, TypeOK, ConfigTypeOK, ClientTables
      <3>4. ManagedSid(j) \subseteq sids  BY <2>1, <3>3 DEF SidInv, InConf
      <3> QED BY <3>2, <3>4 DEF ManagedSid
    <2>3. CASE pc[t] \in {"apply", "finish", "comp"} /\ UNCHANGED <<conf, job[t]>>
      BY <2>1, <2>3 DEF InsertedInv, InConf
    <2> QED BY <1>2, <2>2, <2>3, CreateStep
  <1> QED BY <1>1, <1>2

\* Nobody's client loses its REALITY short id: _can_remove_short_id looks at the rows only,
\* yet no row without a client is missed and no client without a row exists, and the
\* compensation of a create takes back only what it inserted, also after a failed apply put
\* the older file back.
THEOREM NoSidLost == Spec => []ShortIdKept
  <1>1. Init => StartupInv /\ SidInv /\ InsertedInv
    BY ConfigAssumption DEF Init, StartupInv, DriftInv, RestoredInv, SettledInv, ForeignInv, InConf, Down, Stages,
       SidInv, InsertedInv, Procs
  <1>2. IndInv /\ StartupInv /\ SidInv /\ InsertedInv /\ [Next]_vars
          => StartupInv' /\ SidInv' /\ InsertedInv'
    BY StartupStep, SidStep, InsertedStep
  <1>3. SidInv => ShortIdKept  BY DEF SidInv, ShortIdKept, InConf
  <1> QED BY <1>1, <1>2, <1>3, InitInd, NextInd, PTL DEF Spec

-----------------------------------------------------------------------------
(* A blocked user stays out.                                                *)

Holding == {"lock", "block", "sweep"} \cup Critical

\* Statuses from which a key is, or becomes at a restart, active
Revivable == {"active", "pending_apply", "apply_failed"}

\* A create and a block hold the lock of their user until they return, and a create works
\* on a key of that user.
UserInv == \A t \in Tasks :
    /\ pc[t] \in Holding /\ job[t].op \in {"create", "block"} => ulock[job[t].user] = t
    /\ pc[t] \in Working /\ job[t].op = "create" => Owner[job[t].key] = job[t].user

\* A step of one task leaves the lock of another user, and the place of another task, alone.
LEMMA OthersKeep ==
  ASSUME IndInv, UserInv, NEW x \in Tasks, Call(x) \/ Lock(x) \/ Run(x), NEW t \in Tasks, t # x
  PROVE  /\ pc'[t] = pc[t] /\ job'[t] = job[t]
         /\ \A u \in Users : ulock[u] = t => ulock'[u] = t
  <1> USE KeysAssumption DEF IndInv, TypeOK, Procs
  <1>1. CASE Call(x)
    BY <1>1 DEF Call, StartCreate, StartManage, StartBlock, Start, Goto
  <1>2. CASE Lock(x)
    <2>1. job[x].user \in Users  BY DEF Jobs
    <2> QED BY <1>2, <2>1 DEF Lock, AcquireUser, AcquireLock, Goto
  <1>3. CASE Mark(x)
    BY <1>3 DEF Mark, MarkRefused, MarkCreate, Insert, MarkRevoke, AlreadyRevoked, MarkDelete,
       ManualReconcile, Return, Goto
  <1>4. CASE Edit(x) \/ Apply(x)
    BY <1>4 DEF Edit, Apply, EditRefused, EditAdd, EditRemove, EditNothing, EditShortId,
       ApplySucceeds, ApplyFails, Goto
  <1>5. CASE Settle(x)
    BY <1>5 DEF Settle, Finish, FinishFails, Undo, Return, Goto
  <1>6. CASE Compensation(x)
    BY <1>6 DEF Compensation, Compensate, CompensateApplied, CompensateFails, CompensateStatus,
       Return, Goto
  <1>7. CASE Block(x)
    <2>1. pc[x] \in {"block", "sweep"} /\ ulock[job[x].user] = x /\ job[x].user \in Users
      BY <1>7 DEF Block, BlockRole, SweepList, SweepNext, SweepEnd, UserInv, TaskInv, Holding, Jobs
    <2> QED BY <1>7, <2>1 DEF Block, BlockRole, SweepList, SweepNext, SweepEnd, Goto
  <1> QED BY <1>1, <1>2, <1>3, <1>4, <1>5, <1>6, <1>7 DEF Run

\* The task that moves keeps the lock of its user until it returns.
LEMMA SelfKeeps ==
  ASSUME IndInv, UserInv, NEW t \in Tasks, Call(t) \/ Lock(t) \/ Run(t)
  PROVE  /\ pc'[t] \in Holding /\ job'[t].op \in {"create", "block"} => ulock'[job'[t].user] = t
         /\ pc'[t] \in Working /\ job'[t].op = "create" => Owner[job'[t].key] = job'[t].user
  <1> USE KeysAssumption DEF IndInv, TypeOK, Procs, UserInv, Holding, Critical, Working
  <1>1. CASE Call(t)
    BY <1>1, AnyUserType DEF Call, StartCreate, StartManage, StartBlock, Start, Goto, Job
  <1>2. CASE Lock(t)
    <2>1. job[t].user \in Users  BY DEF Jobs
    <2> QED BY <1>2, <2>1 DEF Lock, AcquireUser, AcquireLock, Goto, TaskInv
  <1>3. CASE Mark(t)
    <2>1. CASE MarkRefused(t) \/ AlreadyRevoked(t) \/ ManualReconcile(t)
      BY <2>1 DEF MarkRefused, AlreadyRevoked, ManualReconcile, Return, Goto, Jobs
    <2>2. CASE MarkCreate(t) \/ MarkRevoke(t) \/ MarkDelete(t)
      BY <2>2 DEF MarkCreate, MarkRevoke, MarkDelete, Goto, Jobs, TaskInv
    <2>3. CASE Insert(t)
      BY <2>3 DEF Insert, Goto, Jobs, TaskInv
    <2> QED BY <1>3, <2>1, <2>2, <2>3 DEF Mark
  <1>4. CASE Edit(t) \/ Apply(t)
    <2>1. CASE EditAdd(t)
      <3>1. \E b \in BOOLEAN : job' = [job EXCEPT ![t].ins = b]  BY <2>1, Zenon DEF EditAdd
      <3> QED BY <2>1, <3>1 DEF EditAdd, Goto, Jobs
    <2> QED BY <1>4, <2>1 DEF Edit, Apply, EditRefused, EditRemove, EditNothing, EditShortId,
       ApplySucceeds, ApplyFails, Goto
  <1>5. CASE Settle(t)
    BY <1>5 DEF Settle, Finish, FinishFails, Undo, Return, Goto, Jobs
  <1>6. CASE Compensation(t)
    BY <1>6 DEF Compensation, Compensate, CompensateApplied, CompensateFails, CompensateStatus,
       Return, Goto, Jobs
  <1>7. CASE Block(t)
    BY <1>7 DEF Block, BlockRole, SweepList, SweepNext, SweepEnd, Goto, Jobs, TaskInv
  <1> QED BY <1>1, <1>2, <1>3, <1>4, <1>5, <1>6, <1>7 DEF Run

\* When the bot is not up, its tasks stay idle.
LEMMA TasksIdle ==
  ASSUME IndInv, Next, phase # "up" \/ Crash
  PROVE  \A t \in Tasks : pc'[t] = "idle"
  <1> USE KeysAssumption DEF IndInv, TypeOK, Procs
  <1>1. CASE Crash  BY <1>1 DEF Crash
  <1>2. CASE phase # "up" /\ OperatorEdit  BY <1>2 DEF OperatorEdit, serviceVars, LockInv
  <1>3. CASE phase # "up" /\ BootStep
    BY <1>3 DEF LockInv, BootStep, BootStart, BootSettle, BootResume, BootFinish, BootUndo, BootDriftFails,
       BootReconciled, BootNonLive, BootScan, BootOrphan, BootStops, BootRestore, BootDone, BootEdit,
       BootEnd, Goto, Edit, Apply, EditRefused, EditAdd, EditRemove, EditNothing, EditShortId,
       ApplySucceeds, ApplyFails
  <1> QED BY <1>1, <1>2, <1>3, DownStep DEF IndInv

\* Every step keeps the user locks in order.
LEMMA UserStep ==
  ASSUME IndInv, UserInv, [Next]_vars
  PROVE  UserInv'
  <1>1. CASE UNCHANGED vars  BY <1>1 DEF vars, serviceVars, UserInv
  <1>2. CASE Next /\ (phase # "up" \/ Crash)
    BY <1>2, TasksIdle DEF UserInv, Holding, Critical, Working
  <1>3. CASE \E u \in Users, r \in {"approved", "pending"} : RoleWrite(u, r)
    BY <1>3 DEF RoleWrite, UserInv
  <1>4. CASE \E t \in Tasks : Call(t) \/ Lock(t) \/ Run(t)
    <2>1. PICK x \in Tasks : Call(x) \/ Lock(x) \/ Run(x)  BY <1>4
    <2> SUFFICES ASSUME NEW t \in Tasks
                 PROVE  /\ pc'[t] \in Holding /\ job'[t].op \in {"create", "block"} => ulock'[job'[t].user] = t
                        /\ pc'[t] \in Working /\ job'[t].op = "create" => Owner[job'[t].key] = job'[t].user
      BY DEF UserInv
    <2>2. CASE t = x  BY <2>1, <2>2, SelfKeeps
    <2>3. CASE t # x
      <3>1. job[t].user \in Users  BY DEF IndInv, TypeOK, Jobs, Procs
      <3> QED BY <2>1, <2>3, <3>1, OthersKeep DEF UserInv
    <2> QED BY <2>2, <2>3
  <1> QED BY <1>1, <1>2, <1>3, <1>4, UpStep

\* While a block stands that reported no error, no create for the user is past its role
\* check, and no revocation can fall back to a status from which the key comes to life.
SweptInv == \A u \in Users : swept[u] =>
    /\ role[u] = "blocked"
    /\ \A t \in Tasks : pc[t] \in Holding /\ job[t].op = "create" => job[t].user # u
    /\ \A t \in Tasks : /\ pc[t] \in {"edit", "apply", "undo"} /\ job[t].op \in {"revoke", "block"}
                        /\ Owner[job[t].key] = u
                        => job[t].prev \notin Revivable

\* ... no row of the user is, or can become, active
RowInv == \A k \in Keys : swept[Owner[k]] => status[k] \notin Revivable

\* ... and neither the file nor the backup of an edit in flight has a client of the user.
FileInv == \A k \in Keys : swept[Owner[k]] /\ ~tampered =>
    k \notin conf[Transport[k]] /\ k \notin saved.conf[Transport[k]]

\* A block ends without errors only when none of the user's rows may have a client.
LEMMA BlockEnds ==
  ASSUME IndInv, NEW x \in Tasks, SweepEnd(x), NEW u \in Users, swept'[u], ~swept[u]
  PROVE  u = job[x].user /\ role[u] = "blocked" /\ \A k \in Keys : Owner[k] = u => status[k] \in Dead
  <1>1. u = job[x].user /\ swept'[u] = (role[u] = "blocked" /\ job[x].bad = {} /\ Listed(x) \cap job[x].done = {})
    BY DEF SweepEnd, IndInv, TypeOK
  <1>2. Listed(x) = {}  BY <1>1 DEF SweepEnd, Tried
  <1>3. \A k \in Keys : Owner[k] = u => status[k] \notin MayExist  BY <1>1, <1>2 DEF Listed
  <1> QED BY <1>1, <1>3 DEF IndInv, TypeOK, Statuses, MayExist, Dead

\* Only the end of a block sets the mark.
LEMMA NewlySwept ==
  ASSUME IndInv, Next, NEW u \in Users, swept'[u], ~swept[u]
  PROVE  \E x \in Tasks : SweepEnd(x)
  <1> USE DEF IndInv, historyVars
  <1>1. CASE \E t \in Tasks : Call(t) \/ Lock(t) \/ Run(t)
    <2>1. PICK t \in Tasks : Call(t) \/ Lock(t) \/ Run(t)  BY <1>1
    <2>2. ~(Call(t) \/ Lock(t) \/ Mark(t))
      BY DEF Call, Lock, Mark, StartCreate, StartManage, StartBlock, Start,
         AcquireUser, AcquireLock, MarkRefused, MarkCreate, Insert, MarkRevoke, AlreadyRevoked,
         MarkDelete, ManualReconcile
    <2>3. ~(Settle(t) \/ Edit(t) \/ Apply(t) \/ Compensation(t))
      BY DEF Settle, Finish, FinishFails, Undo, Edit, Apply, Compensation, EditRefused, EditAdd,
         EditRemove, EditNothing, EditShortId, ApplySucceeds, ApplyFails, Compensate,
         CompensateApplied, CompensateFails, CompensateStatus
    <2> QED BY <2>1, <2>2, <2>3 DEF Run, Block, BlockRole, SweepList, SweepNext
  <1>2. ~(\E v \in Users, r \in {"approved", "pending"} : RoleWrite(v, r))  BY DEF RoleWrite, TypeOK
  <1>3. ~Crash /\ ~OperatorEdit  BY DEF Crash, OperatorEdit
  <1>4. ~BootStep
    BY DEF BootStep, BootStart, BootSettle, BootResume, BootFinish, BootUndo, BootDriftFails,
       BootReconciled, BootNonLive, BootScan, BootOrphan, BootStops, BootRestore, BootDone, BootEdit,
       BootEnd, Edit, Apply, EditRefused, EditAdd, EditRemove, EditNothing, EditShortId,
       ApplySucceeds, ApplyFails
  <1> QED BY <1>1, <1>2, <1>3, <1>4, UpStep, DownStep

\* The task that moves enters no create for a swept user and notes no status that could be
\* brought back.
LEMMA SweptSelf ==
  ASSUME IndInv, SweptInv, RowInv, NEW t \in Tasks, Call(t) \/ Lock(t) \/ Run(t),
         NEW u \in Users, swept[u]
  PROVE  /\ role'[u] = "blocked"
         /\ pc'[t] \in Holding /\ job'[t].op = "create" => job'[t].user # u
         /\ pc'[t] \in {"edit", "apply", "undo"} /\ job'[t].op \in {"revoke", "block"}
              /\ Owner[job'[t].key] = u => job'[t].prev \notin Revivable
  <1> USE KeysAssumption DEF IndInv, TypeOK, Procs, SweptInv, Holding, Critical
  <1>1. CASE Call(t)
    BY <1>1 DEF Call, StartCreate, StartManage, StartBlock, Start, Goto, Job
  <1>2. CASE Lock(t)
    <2>1. CASE AcquireUser(t)
      BY <2>1 DEF AcquireUser, CanCreate, Goto
    <2>2. CASE AcquireLock(t)  BY <2>2 DEF AcquireLock, Goto
    <2> QED BY <1>2, <2>1, <2>2 DEF Lock
  <1>3. CASE Mark(t)
    <2>1. CASE MarkRefused(t) \/ AlreadyRevoked(t) \/ ManualReconcile(t)
      BY <2>1 DEF MarkRefused, AlreadyRevoked, ManualReconcile, Return, Goto, Jobs
    <2>2. CASE MarkCreate(t) \/ MarkDelete(t)
      BY <2>2 DEF MarkCreate, MarkDelete, Goto, Jobs
    <2>3. CASE MarkRevoke(t)
      BY <2>3 DEF MarkRevoke, Goto, Jobs, RowInv, TaskInv
    <2>4. CASE Insert(t)
      BY <2>4 DEF Insert, Goto, Jobs, TaskInv
    <2> QED BY <1>3, <2>1, <2>2, <2>3, <2>4 DEF Mark
  <1>4. CASE Edit(t) \/ Apply(t)
    <2>1. CASE EditAdd(t)
      <3>1. \E b \in BOOLEAN : job' = [job EXCEPT ![t].ins = b]  BY <2>1, Zenon DEF EditAdd
      <3> QED BY <2>1, <3>1 DEF EditAdd, Goto, Jobs
    <2> QED BY <1>4, <2>1 DEF Edit, Apply, EditRefused, EditRemove, EditNothing, EditShortId,
       ApplySucceeds, ApplyFails, Goto
  <1>5. CASE Settle(t)
    BY <1>5 DEF Settle, Finish, FinishFails, Undo, Return, Goto, Jobs
  <1>6. CASE Compensation(t)
    BY <1>6 DEF Compensation, Compensate, CompensateApplied, CompensateFails, CompensateStatus,
       Return, Goto, Jobs
  <1>7. CASE Block(t)
    BY <1>7 DEF Block, BlockRole, SweepList, SweepNext, SweepEnd, Goto, Jobs, TaskInv
  <1> QED BY <1>1, <1>2, <1>3, <1>4, <1>5, <1>6, <1>7 DEF Run

\* Every step keeps what a block has achieved.
LEMMA SweptStep ==
  ASSUME IndInv, UserInv, SweptInv, RowInv, [Next]_vars
  PROVE  SweptInv'
  <1>1. CASE UNCHANGED vars  BY <1>1 DEF vars, serviceVars, historyVars, SweptInv
  <1>2. CASE Next /\ (phase # "up" \/ Crash)
    <2>1. \A u \in Users : swept'[u] => swept[u]
      BY <1>2, NewlySwept DEF SweepEnd, IndInv, LockInv, Crash, historyVars
    <2>2. role' = role
      BY <1>2, DownStep DEF Crash, OperatorEdit, serviceVars, BootStep, BootStart, BootSettle, BootResume,
         BootFinish, BootUndo, BootDriftFails, BootReconciled, BootNonLive, BootScan, BootOrphan, BootStops,
         BootRestore, BootDone, BootEdit, BootEnd, Edit, Apply, EditRefused, EditAdd, EditRemove,
         EditNothing, EditShortId, ApplySucceeds, ApplyFails
    <2> QED BY <1>2, <2>1, <2>2, TasksIdle DEF SweptInv, Holding, Critical
  <1>3. CASE \E u \in Users, r \in {"approved", "pending"} : RoleWrite(u, r)
    BY <1>3 DEF RoleWrite, SweptInv, IndInv, TypeOK
  <1>4. CASE \E t \in Tasks : Call(t) \/ Lock(t) \/ Run(t)
    <2>1. PICK x \in Tasks : Call(x) \/ Lock(x) \/ Run(x)  BY <1>4
    <2> SUFFICES ASSUME NEW u \in Users, swept'[u]
                 PROVE  /\ role'[u] = "blocked"
                        /\ \A t \in Tasks : pc'[t] \in Holding /\ job'[t].op = "create" => job'[t].user # u
                        /\ \A t \in Tasks : /\ pc'[t] \in {"edit", "apply", "undo"} /\ job'[t].op \in {"revoke", "block"}
                                            /\ Owner[job'[t].key] = u
                                            => job'[t].prev \notin Revivable
      BY DEF SweptInv
    <2>2. CASE swept[u]
      BY <2>1, <2>2, SweptSelf, OthersKeep DEF SweptInv
    <2>3. CASE ~swept[u]
      <3>1. PICK y \in Tasks : SweepEnd(y)  BY <1>4, <2>3, NewlySwept DEF Next
      <3>2. u = job[y].user /\ role[u] = "blocked" /\ \A k \in Keys : Owner[k] = u => status[k] \in Dead
        BY <2>3, <3>1, BlockEnds
      <3>3. role' = role /\ pc'[y] = "idle" /\ \A t \in Tasks : t # y => pc'[t] = pc[t] /\ job'[t] = job[t]
        BY <3>1 DEF SweepEnd, Goto, IndInv, TypeOK, Procs
      <3>4. ulock[u] = y  BY <3>1, <3>2 DEF SweepEnd, UserInv, Holding, IndInv, TaskInv
      <3>5. \A t \in Tasks : t # y /\ pc[t] \in Holding /\ job[t].op = "create" => job[t].user # u
        BY <3>4 DEF UserInv
      <3>6. \A t \in Tasks : pc[t] \in {"edit", "apply", "undo"} => Owner[job[t].key] # u
        BY <3>2 DEF IndInv, TaskInv, Working, Critical
      <3> QED BY <3>2, <3>3, <3>5, <3>6 DEF Holding, Critical
    <2> QED BY <2>2, <2>3
  <1> QED BY <1>1, <1>2, <1>3, <1>4, UpStep

\* No step brings a row of a swept user back to life.
LEMMA RowStep ==
  ASSUME IndInv, UserInv, SweptInv, RowInv, [Next]_vars
  PROVE  RowInv'
  <1> USE KeysAssumption DEF IndInv, Procs
  <1>1. CASE UNCHANGED vars  BY <1>1 DEF vars, serviceVars, historyVars, RowInv
  <1>2. CASE \E x \in Tasks : SweepEnd(x)
    <2>1. PICK x \in Tasks : SweepEnd(x)  BY <1>2
    <2>2. status' = status  BY <2>1 DEF SweepEnd
    <2> SUFFICES ASSUME NEW k \in Keys, swept'[Owner[k]] PROVE status[k] \notin Revivable
      BY <2>2 DEF RowInv
    <2>3. Owner[k] \in Users  OBVIOUS
    <2>4. CASE swept[Owner[k]]  BY <2>4 DEF RowInv
    <2>5. CASE ~swept[Owner[k]]
      <3>1. status[k] \in Dead  BY <2>1, <2>3, <2>5, BlockEnds DEF IndInv
      <3> QED BY <3>1 DEF Dead, Revivable
    <2> QED BY <2>4, <2>5
  <1>3. CASE Next /\ ~(\E x \in Tasks : SweepEnd(x))
    <2>1. \A k \in Keys : swept'[Owner[k]] => swept[Owner[k]]  BY <1>3, NewlySwept DEF IndInv
    <2> USE DEF TypeOK
    <2>2. ASSUME NEW t \in Tasks, Mark(t) PROVE RowInv'
      <3>1. job[t].op = "create" \/ job[t].key \in Keys  BY <2>2 DEF Mark, MarkRefused, MarkCreate, Insert,
              MarkRevoke, AlreadyRevoked, MarkDelete, ManualReconcile, TaskInv
      <3>2. CASE Insert(t)
        <4>1. job[t].op = "create" /\ pc[t] \in Holding  BY <3>2 DEF Insert, TaskInv, Holding, Critical
        <4> QED BY <2>1, <3>2, <4>1 DEF Insert, SweptInv, RowInv
      <3>3. CASE MarkRevoke(t) \/ MarkDelete(t)
        BY <2>1, <3>1, <3>3 DEF MarkRevoke, MarkDelete, RowInv, Revivable
      <3>4. CASE ManualReconcile(t)
        <4>1. Settled(job[t].key) \in Revivable => status[job[t].key] \in Revivable
          BY DEF Settled, Revivable
        <4> QED BY <2>1, <3>1, <3>4, <4>1 DEF ManualReconcile, RowInv
      <3> QED BY <2>1, <2>2, <3>2, <3>3, <3>4 DEF Mark, MarkRefused, MarkCreate, AlreadyRevoked, RowInv
    <2>3. ASSUME NEW t \in Tasks, Settle(t) \/ Compensation(t) PROVE RowInv'
      <3>1. pc[t] \in Working /\ job[t].key \in Keys
        BY <2>3 DEF Settle, Compensation, Finish, FinishFails, Undo, Compensate, CompensateApplied,
           CompensateFails, CompensateStatus, TaskInv, Working, Critical
      <3>2. pc[t] \in Holding  BY <3>1 DEF Working, Holding
      <3>3. job[t].op = "create" => ~swept[Owner[job[t].key]]
        BY <3>1, <3>2 DEF SweptInv, UserInv
      <3>4. CASE Finish(t)
        <4>1. job[t].op # "create" => FinalStatus(t) \in {"revoked", "gone"}  BY DEF FinalStatus
        <4> QED BY <2>1, <3>1, <3>3, <3>4, <4>1 DEF Finish, RowInv, Revivable
      <3>5. CASE Undo(t)
        <4>1. job[t].op \in {"revoke", "block"} /\ swept[Owner[job[t].key]] => job[t].prev \notin Revivable
          BY <3>1, <3>5 DEF Undo, SweptInv
        <4>2. job[t].op # "create" /\ swept[Owner[job[t].key]] => UndoStatus(t) \notin Revivable
          BY <3>1, <4>1 DEF UndoStatus, TaskInv, Revivable
        <4> QED BY <2>1, <3>1, <3>3, <3>5, <4>2 DEF Undo, RowInv
      <3>6. CASE CompensateStatus(t)
        <4>1. job[t].op = "create"  BY <3>6 DEF CompensateStatus, TaskInv
        <4> QED BY <2>1, <3>1, <3>3, <3>6, <4>1 DEF CompensateStatus, RowInv
      <3> QED BY <2>1, <2>3, <3>4, <3>5, <3>6 DEF Settle, Compensation, FinishFails, Compensate,
              CompensateApplied, CompensateFails, RowInv
    <2>4. CASE BootStep
      <3>1. CASE BootSettle
        <4>1. \A k \in Keys : Settled(k) \in Revivable => status[k] \in Revivable
          BY DEF Settled, Revivable
        <4> QED BY <2>1, <3>1, <4>1 DEF BootSettle, RowInv
      <3>2. CASE BootFinish
        <4>1. phase = "reconcile" => FinalStatus(Boot) \in {"revoked", "gone"}
          BY <3>2 DEF BootFinish, BootTaskInv, FinalStatus
        <4> QED BY <2>1, <3>2, <4>1 DEF BootFinish, RowInv, Revivable
      <3>3. CASE BootUndo  BY <2>1, <3>3 DEF BootUndo, RowInv, Revivable
      <3> QED BY <2>1, <2>4, <3>1, <3>2, <3>3 DEF RowInv, BootStep, BootStart, BootResume, BootDriftFails,
              BootReconciled, BootNonLive, BootScan, BootOrphan, BootStops, BootRestore, BootDone,
              BootEdit, BootEnd, Edit, Apply, EditRefused, EditAdd, EditRemove, EditNothing,
              EditShortId, ApplySucceeds, ApplyFails
    <2>5. ASSUME NEW t \in Tasks, Call(t) \/ Lock(t) \/ Edit(t) \/ Apply(t) \/ Block(t) PROVE RowInv'
      BY <2>1, <2>5 DEF RowInv, Call, Lock, Edit, Apply, Block, StartCreate, StartManage, StartBlock, Start,
         AcquireUser, AcquireLock, EditRefused, EditAdd, EditRemove, EditNothing, EditShortId,
         ApplySucceeds, ApplyFails, BlockRole, SweepList, SweepNext, SweepEnd
    <2>6. CASE Crash \/ OperatorEdit \/ \E u \in Users, r \in {"approved", "pending"} : RoleWrite(u, r)
      BY <2>1, <2>6 DEF RowInv, Crash, OperatorEdit, RoleWrite, serviceVars
    <2> QED BY <1>3, <2>2, <2>3, <2>4, <2>5, <2>6, UpStep, DownStep DEF Run, IndInv
  <1> QED BY <1>1, <1>2, <1>3

\* No step brings a client of a swept user back into the file.
LEMMA FileStep ==
  ASSUME IndInv, StartupInv, UserInv, SweptInv, RowInv, FileInv, [Next]_vars
  PROVE  FileInv'
  <1> USE ConfigAssumption, KeysAssumption DEF IndInv, Procs
  <1>1. CASE UNCHANGED vars  BY <1>1 DEF vars, configVars, historyVars, FileInv
  <1>2. CASE Next
    <2> SUFFICES ASSUME NEW k \in Keys, swept'[Owner[k]], ~tampered'
                 PROVE  k \notin conf'[Transport[k]] /\ k \notin saved'.conf[Transport[k]]
      BY DEF FileInv
    <2>1. CASE tampered
      <3>1. BootDone  BY <1>2, <2>1, Excused DEF IndInv
      <3>2. swept[Owner[k]]  BY <3>1 DEF BootDone, BootEnd
      <3>3. ~InConf(k)
        BY <3>1, <3>2 DEF BootDone, BootIdle, StartupInv, DriftInv, RowInv, Revivable, Listing
      <3> QED BY <3>1, <3>3, NothingSaved DEF InConf, IndInv
    <2>2. CASE ~tampered /\ ~swept[Owner[k]]
      <3>1. PICK x \in Tasks : SweepEnd(x)  BY <1>2, <2>2, NewlySwept DEF IndInv
      <3>2. status[k] \in Dead  BY <2>2, <3>1, BlockEnds DEF IndInv
      <3>3. UNCHANGED <<conf, saved>>  BY <3>1 DEF SweepEnd, configVars
      <3> QED BY <2>2, <3>2, <3>3 DEF GhostInv
    <2>3. CASE ~tampered /\ swept[Owner[k]]
      <3> USE DEF TypeOK, ConfigTypeOK, ClientTables
      <3>1. k \notin conf[Transport[k]] /\ k \notin saved.conf[Transport[k]]  BY <2>3 DEF FileInv
      <3>2. CASE Forgot  BY <3>1, <3>2 DEF Forgot
      <3>3. ~OperatorEdit  BY DEF OperatorEdit
      <3>4. CASE FellBack  BY <3>1, <3>4 DEF FellBack
      <3>5. ASSUME NEW t \in Procs, EditAdd(t), Added(t)
            PROVE  k \notin conf'[Transport[k]] /\ k \notin saved'.conf[Transport[k]]
        <4>1. job[t].key # k
          <5>1. CASE t = Boot
            <6>1. status[job[t].key] = "active"  BY <3>5, <5>1 DEF EditAdd, BootTaskInv, LockInv, Stages
            <6> QED BY <2>3, <6>1 DEF RowInv, Revivable
          <5>2. CASE t \in Tasks
            <6>1. job[t].op = "create" /\ pc[t] \in Working /\ pc[t] \in Holding
              BY <3>5, <5>2 DEF EditAdd, TaskInv, Working, Critical, Holding
            <6> QED BY <2>3, <5>2, <6>1 DEF UserInv, SweptInv
          <5> QED BY <5>1, <5>2
        <4> QED BY <3>1, <3>5, <4>1 DEF Added
      <3>6. CASE \E t \in Procs : Removed(t)  BY <3>1, <3>6 DEF Removed
      <3>7. CASE \E t \in Procs : Completed(t)  BY <3>1, <3>7 DEF Completed
      <3> QED BY <1>2, <3>2, <3>3, <3>4, <3>5, <3>6, <3>7, FileSteps
    <2> QED BY <2>1, <2>2, <2>3
  <1> QED BY <1>1, <1>2

\* Once block_user has reported no error the user stays out until the role is written again:
\* no key of theirs is active or comes to life at a restart, and no client of theirs is in
\* the file.  A create that was under way had to finish first (it holds the user lock), and
\* a later one meets the role.
THEOREM Blocked == Spec => []BlockedStaysOut
  <1>1. Init => StartupInv /\ UserInv /\ SweptInv /\ RowInv /\ FileInv
    BY ConfigAssumption, KeysAssumption DEF Init, StartupInv, DriftInv, RestoredInv, SettledInv, ForeignInv,
       InConf, Down, Stages, UserInv, SweptInv, RowInv, FileInv, Holding, Critical, Working, Procs
  <1>2. IndInv /\ StartupInv /\ UserInv /\ SweptInv /\ RowInv /\ FileInv /\ [Next]_vars
          => StartupInv' /\ UserInv' /\ SweptInv' /\ RowInv' /\ FileInv'
    BY StartupStep, UserStep, SweptStep, RowStep, FileStep
  <1>3. RowInv /\ FileInv => BlockedStaysOut
    BY DEF RowInv, FileInv, BlockedStaysOut, Revivable, InConf
  <1> QED BY <1>1, <1>2, <1>3, InitInd, NextInd, PTL DEF Spec

-----------------------------------------------------------------------------
(* The service keeps the promise of KeyLife.                                *)

\* The row of a key that task t works on is in the state in which its operation left it.
Marked(t) ==
    pc[t] \in Working =>
      \/ job[t].op = "create" /\ status[job[t].key] \in Issuing
      \/ job[t].op \in {"revoke", "block"} /\ status[job[t].key] = "pending_revoke"
      \/ job[t].op = "delete" /\ status[job[t].key] = "pending_delete"

\* So is the row that startup resumes.
BootMarked ==
    phase = "reconcile" /\ pc[Boot] # "idle" =>
      \/ job[Boot].op = "revoke" /\ status[job[Boot].key] = "pending_revoke"
      \/ job[Boot].op = "delete" /\ status[job[Boot].key] \in {"pending_delete", "delete_failed"}

\* A create reaches its last write with its client in the file.
AddedInv == \A t \in Tasks :
    pc[t] \in {"apply", "finish", "comp"} /\ job[t].op = "create" => InConf(job[t].key)

\* The backup of an edit in flight differs from the file only in the key that is edited.
OneEditInv == \A t \in Procs : pc[t] \in Applying =>
    \A k \in Keys \ {job[t].key} : InConf(k) <=> k \in saved.conf[Transport[k]]

WorkInv == (\A t \in Tasks : Marked(t)) /\ BootMarked /\ AddedInv /\ OneEditInv

\* A task that writes rows or the file is in its critical section.
LEMMA Quiet ==
  ASSUME IndInv, NEW x \in Tasks, Call(x) \/ Lock(x) \/ Run(x), pc[x] \notin Critical
  PROVE  UNCHANGED <<status, configVars>> /\ pc'[x] \notin Working
  <1> USE KeysAssumption DEF IndInv, TypeOK, Procs
  <1>1. ~(Mark(x) \/ Edit(x) \/ Apply(x) \/ Settle(x) \/ Compensation(x))
    BY DEF Critical, Mark, MarkRefused, MarkCreate, Insert, MarkRevoke, AlreadyRevoked, MarkDelete,
       ManualReconcile, Edit, Apply, EditRefused, EditAdd, EditRemove, EditNothing, EditShortId,
       ApplySucceeds, ApplyFails, Settle, Finish, FinishFails, Undo, Compensation, Compensate,
       CompensateApplied, CompensateFails, CompensateStatus
  <1>2. CASE Call(x)
    BY <1>2 DEF Call, StartCreate, StartManage, StartBlock, Start, Goto, Working, Critical
  <1>3. CASE Lock(x)
    BY <1>3 DEF Lock, AcquireUser, AcquireLock, Goto, Working, Critical
  <1>4. CASE Block(x)
    BY <1>4 DEF Block, BlockRole, SweepList, SweepNext, SweepEnd, Goto, Working, Critical
  <1> QED BY <1>1, <1>2, <1>3, <1>4 DEF Run

\* A task in its critical section leaves its row as its operation has it.
LEMMA MarkedSelf ==
  ASSUME IndInv, NEW t \in Tasks, Marked(t), Run(t), pc[t] \in Critical
  PROVE  Marked(t)'
  <1> USE KeysAssumption DEF IndInv, TypeOK, Procs, Marked, Working, Critical, Issuing
  <1>1. CASE MarkRefused(t) \/ MarkCreate(t) \/ AlreadyRevoked(t) \/ ManualReconcile(t)
    BY <1>1 DEF MarkRefused, MarkCreate, AlreadyRevoked, ManualReconcile, Return, Goto
  <1>2. CASE Insert(t)
    BY <1>2 DEF Insert, Goto, TaskInv, Jobs
  <1>3. CASE MarkRevoke(t) \/ MarkDelete(t)
    <2>1. job[t].key \in Keys  BY <1>3 DEF MarkRevoke, MarkDelete, TaskInv
    <2> QED BY <1>3, <2>1 DEF MarkRevoke, MarkDelete, Goto, Jobs
  <1>4. CASE EditAdd(t)
    <2>1. \E b \in BOOLEAN : job' = [job EXCEPT ![t].ins = b]  BY <1>4, Zenon DEF EditAdd
    <2> QED BY <1>4, <2>1 DEF EditAdd, Goto, Jobs
  <1>5. CASE EditRefused(t) \/ EditRemove(t) \/ EditNothing(t) \/ EditShortId(t) \/ Apply(t)
    BY <1>5 DEF EditRefused, EditRemove, EditNothing, EditShortId, Apply, ApplySucceeds, ApplyFails, Goto
  <1>6. CASE Settle(t)
    BY <1>6 DEF Settle, Finish, FinishFails, Undo, Return, Goto
  <1>7. CASE Compensation(t)
    BY <1>7 DEF Compensation, Compensate, CompensateApplied, CompensateFails, CompensateStatus,
       Return, Goto
  <1>8. CASE Block(t)
    BY <1>8 DEF Block, BlockRole, SweepList, SweepNext, SweepEnd, Goto
  <1> QED BY <1>1, <1>2, <1>3, <1>4, <1>5, <1>6, <1>7, <1>8 DEF Run, Mark, Edit

\* Every step leaves the rows in work as their operations have them.
LEMMA MarkedStep ==
  ASSUME IndInv, UserInv, \A t \in Tasks : Marked(t), [Next]_vars
  PROVE  \A t \in Tasks : Marked(t)'
  <1> TAKE t \in Tasks
  <1>1. CASE UNCHANGED vars  BY <1>1 DEF vars, serviceVars, Marked
  <1>2. CASE Next /\ (phase # "up" \/ Crash)
    BY <1>2, TasksIdle DEF Marked, Working, Critical
  <1>3. CASE \E u \in Users, r \in {"approved", "pending"} : RoleWrite(u, r)
    BY <1>3 DEF RoleWrite, Marked
  <1>4. CASE \E x \in Tasks : Call(x) \/ Lock(x) \/ Run(x)
    <2>1. PICK x \in Tasks : Call(x) \/ Lock(x) \/ Run(x)  BY <1>4
    <2>2. CASE pc[x] \notin Critical
      <3>1. UNCHANGED <<status, configVars>> /\ pc'[x] \notin Working  BY <2>1, <2>2, Quiet
      <3> QED BY <2>1, <3>1, OthersKeep DEF Marked
    <2>3. CASE pc[x] \in Critical
      <3>1. Run(x)
        BY <2>1, <2>3 DEF Call, Lock, StartCreate, StartManage, StartBlock, Start, Idle, AcquireUser, AcquireLock, Critical
      <3>2. CASE x = t  BY <2>3, <3>1, <3>2, MarkedSelf
      <3>3. CASE x # t
        <4>1. pc'[t] = pc[t] /\ pc[t] \notin Critical
          BY <2>1, <2>3, <3>3, OthersKeep DEF IndInv, LockInv
        <4> QED BY <4>1 DEF Marked, Working
      <3> QED BY <3>2, <3>3
    <2> QED BY <2>2, <2>3
  <1> QED BY <1>1, <1>2, <1>3, <1>4, UpStep

\* What startup resumes stays marked until it is settled.
LEMMA BootMarkedStep ==
  ASSUME IndInv, BootMarked, [Next]_vars
  PROVE  BootMarked'
  <1> USE KeysAssumption DEF IndInv, TypeOK, Procs, BootMarked
  <1>1. CASE UNCHANGED vars  BY <1>1 DEF vars, serviceVars
  <1>2. CASE Next /\ phase = "up"
    <2>1. phase' \in {"up", "down"}  BY <1>2, UpStep DEF Crash
    <2> QED BY <2>1
  <1>3. CASE Next /\ phase # "up"
    <2>1. CASE Crash \/ OperatorEdit
      <3>1. phase' = "down"  BY <2>1 DEF Crash, OperatorEdit, serviceVars
      <3> QED BY <3>1
    <2>2. CASE BootStart \/ BootSettle \/ BootFinish \/ BootUndo \/ BootDriftFails \/ BootReconciled
                 \/ BootScan \/ BootStops \/ BootDone
      BY <2>2 DEF LockInv, Stages, BootStart, BootSettle, BootFinish, BootUndo, BootDriftFails, BootReconciled,
         BootScan, BootStops, BootDone, BootEnd, BootIdle, Stage, Goto
    <2>3. CASE BootNonLive \/ BootOrphan \/ BootRestore
      BY <2>3 DEF Inbounds, BootNonLive, BootOrphan, BootRestore, BootIdle, BootEdit
    <2>4. CASE BootResume
      BY <2>4 DEF BootResume, BootIdle, BootEdit, Goto, Job, BootTaskInv
    <2>5. CASE Edit(Boot) \/ Apply(Boot)
      <3>1. CASE EditAdd(Boot)
        BY <3>1 DEF EditAdd
      <3> QED BY <2>5, <3>1 DEF Edit, Apply, EditRefused, EditRemove, EditNothing, EditShortId, ApplySucceeds,
           ApplyFails, Goto
    <2> QED BY <1>3, <2>1, <2>2, <2>3, <2>4, <2>5, DownStep DEF BootStep
  <1> QED BY <1>1, <1>2, <1>3

\* A client that a create has added stays until the create gives up.
LEMMA AddedStep ==
  ASSUME IndInv, AddedInv, [Next]_vars
  PROVE  AddedInv'
  <1>1. CASE UNCHANGED vars  BY <1>1 DEF vars, configVars, serviceVars, AddedInv, InConf
  <1>2. CASE Next
    <2> SUFFICES ASSUME NEW t \in Tasks, pc'[t] \in {"apply", "finish", "comp"}, job'[t].op = "create"
                 PROVE  job'[t].key \in conf'[Transport[job'[t].key]]
      BY DEF AddedInv, InConf
    <2>1. CASE EditAdd(t)
      <3>1. job[t].key \in Keys  BY <2>1 DEF IndInv, EditAdd, TaskInv, Working, Critical
      <3>2. \E b \in BOOLEAN : job' = [job EXCEPT ![t].ins = b]  BY <2>1, Zenon DEF EditAdd
      <3>3. job'[t].key = job[t].key  BY <3>2 DEF IndInv, TypeOK, Jobs, Procs
      <3> QED BY <2>1, <3>1, <3>3, ConfigAssumption
           DEF EditAdd, AddClient, Replace, InConf, IndInv, TypeOK, ConfigTypeOK, ClientTables
    <2>2. CASE pc[t] \in {"apply", "finish", "comp"} /\ UNCHANGED <<conf, job[t]>>
      BY <2>2 DEF AddedInv, InConf
    <2> QED BY <1>2, <2>1, <2>2, CreateStep
  <1> QED BY <1>1, <1>2

\* An edit, and nothing else, makes the file differ from the backup, in one key.
LEMMA OneEditSelf ==
  ASSUME IndInv, NEW t \in Procs, Edit(t) \/ Compensate(t), pc'[t] \in Applying, NEW k \in Keys, k # job'[t].key
  PROVE  k \in conf'[Transport[k]] <=> k \in saved'.conf[Transport[k]]
  <1> USE ConfigAssumption DEF IndInv, TypeOK, ConfigTypeOK, ClientTables
  <1>1. CASE EditAdd(t)
    <2>1. \E b \in BOOLEAN : job' = [job EXCEPT ![t].ins = b]  BY <1>1, Zenon DEF EditAdd
    <2>2. job'[t].key = job[t].key  BY <2>1 DEF Jobs
    <2> QED BY <1>1, <2>2 DEF EditAdd, AddClient, Replace
  <1>2. CASE EditRemove(t)
    <2>1. job'[t].key = job[t].key  BY <1>2 DEF EditRemove
    <2> QED BY <1>2, <2>1 DEF EditRemove, RemoveClient, Replace
  <1>3. CASE Compensate(t)
    <2>1. job'[t].key = job[t].key  BY <1>3 DEF Compensate
    <2> QED BY <1>3, <2>1 DEF Compensate, RemoveClient, Replace
  <1>4. CASE EditShortId(t)
    BY <1>4 DEF EditShortId, EnsureShortId, Replace
  <1>5. ~EditRefused(t) /\ ~EditNothing(t)
    BY DEF EditRefused, EditNothing, Goto, Applying, Procs
  <1> QED BY <1>1, <1>2, <1>3, <1>4, <1>5 DEF Edit

\* Only an edit starts an apply, and whoever applies works alone.
LEMMA OneEditStep ==
  ASSUME IndInv, UserInv, OneEditInv, [Next]_vars
  PROVE  OneEditInv'
  <1> USE KeysAssumption DEF IndInv
  <1>1. CASE UNCHANGED vars  BY <1>1 DEF vars, configVars, serviceVars, OneEditInv, InConf
  <1>2. CASE Next
    <2> SUFFICES ASSUME NEW t \in Procs, pc'[t] \in Applying, NEW k \in Keys, k # job'[t].key
                 PROVE  k \in conf'[Transport[k]] <=> k \in saved'.conf[Transport[k]]
      BY DEF OneEditInv, InConf
    <2>1. CASE phase # "up" \/ Crash
      <3>1. t = Boot  BY <1>2, <2>1, TasksIdle DEF Procs, Applying
      <3>2. ~Crash /\ ~OperatorEdit
        BY <3>1 DEF Crash, OperatorEdit, serviceVars, LockInv, Applying, Procs, Stages
      <3>3. ~Apply(Boot)
        BY <3>1 DEF Apply, ApplySucceeds, ApplyFails, Goto, TypeOK, Procs, Applying
      <3>4. ~BootStart  BY <3>1 DEF BootStart, LockInv, Stages, Applying
      <3>5. Edit(Boot)
        BY <1>2, <2>1, <3>1, <3>2, <3>3, <3>4, DownStep DEF TypeOK, Procs, Applying, BootStep, BootSettle, BootResume,
           BootFinish, BootUndo, BootDriftFails, BootReconciled, BootNonLive, BootScan, BootOrphan, BootStops,
           BootRestore, BootDone, BootIdle, BootEdit, BootEnd, Goto
      <3> QED BY <3>1, <3>5, OneEditSelf
    <2>2. CASE \E u \in Users, r \in {"approved", "pending"} : RoleWrite(u, r)
      BY <2>2 DEF RoleWrite, configVars, OneEditInv, InConf
    <2>3. CASE phase = "up" /\ \E x \in Tasks : Call(x) \/ Lock(x) \/ Run(x)
      <3>1. PICK x \in Tasks : Call(x) \/ Lock(x) \/ Run(x)  BY <2>3
      <3>2. x \in Procs /\ Applying \subseteq Working  BY DEF Procs, Applying, Working, Critical
      <3>3. t \in Tasks
        <4>1. ASSUME t = Boot PROVE FALSE
          <5>1. pc[Boot] = "idle"  BY <2>3 DEF LockInv, Stages
          <5>2. ~(Call(x) \/ Lock(x) \/ Run(x)) \/ pc'[Boot] = pc[Boot]
            <6>1. CASE Call(x) \/ Lock(x)
              BY <6>1 DEF Call, Lock, StartCreate, StartManage, StartBlock, Start, AcquireUser, AcquireLock, Goto, TypeOK, Procs
            <6>2. CASE Mark(x) \/ Block(x)
              BY <6>2 DEF Mark, MarkRefused, MarkCreate, Insert, MarkRevoke, AlreadyRevoked, MarkDelete,
                 ManualReconcile, Block, BlockRole, SweepList, SweepNext, SweepEnd, Return, Goto, TypeOK, Procs
            <6>3. CASE Edit(x) \/ Apply(x)
              BY <6>3 DEF Edit, Apply, EditRefused, EditAdd, EditRemove, EditNothing, EditShortId,
                 ApplySucceeds, ApplyFails, Goto, TypeOK, Procs
            <6>4. CASE Settle(x) \/ Compensation(x)
              BY <6>4 DEF Settle, Finish, FinishFails, Undo, Compensation, Compensate,
                 CompensateApplied, CompensateFails, CompensateStatus, Return, Goto, TypeOK, Procs
            <6> QED BY <6>1, <6>2, <6>3, <6>4 DEF Run
          <5> QED BY <3>1, <4>1, <5>1, <5>2 DEF Applying
        <4> QED BY <4>1 DEF Procs
      <3>4. CASE t # x
        <4>1. pc'[t] = pc[t] /\ job'[t] = job[t]  BY <3>1, <3>3, <3>4, OthersKeep
        <4>2. pc[x] \notin Critical  BY <3>2, <3>3, <3>4, <4>1 DEF LockInv, Working
        <4>3. UNCHANGED configVars  BY <3>1, <4>2, Quiet
        <4> QED BY <4>1, <4>3 DEF configVars, OneEditInv, InConf
      <3>5. CASE t = x
        <4>1. CASE Edit(t) \/ Compensate(t)  BY <4>1, OneEditSelf
        <4>2. pc[t] \in Critical  BY <3>1, <3>2, <3>5, Quiet
        <4>3. ~(Call(t) \/ Lock(t) \/ Block(t))
          BY <4>2 DEF Call, Lock, StartCreate, StartManage, StartBlock, Start, Idle, AcquireUser, AcquireLock, Critical,
             Block, BlockRole, SweepList, SweepNext, SweepEnd, TypeOK, Applying, Procs, Goto
        <4>4. ~Mark(t)
          BY DEF Mark, MarkRefused, MarkCreate, Insert, MarkRevoke, AlreadyRevoked, MarkDelete, ManualReconcile,
             Return, Goto, TypeOK, Procs, Applying
        <4>5. ~Apply(t) /\ ~Settle(t)
          BY DEF Apply, ApplySucceeds, ApplyFails, Settle, Finish, FinishFails, Undo, Return, Goto, TypeOK, Procs, Applying
        <4>6. ~CompensateApplied(t) /\ ~CompensateFails(t) /\ ~CompensateStatus(t)
          BY DEF CompensateApplied, CompensateFails, CompensateStatus, Return, Goto, TypeOK, Procs, Applying
        <4> QED BY <3>1, <3>5, <4>1, <4>3, <4>4, <4>5, <4>6 DEF Run, Compensation
      <3> QED BY <3>4, <3>5
    <2> QED BY <1>2, <2>1, <2>2, <2>3, UpStep
  <1> QED BY <1>1, <1>2

\* Every step keeps WorkInv.
LEMMA WorkStep ==
  ASSUME IndInv, UserInv, WorkInv, [Next]_vars
  PROVE  WorkInv'
  BY MarkedStep, BootMarkedStep, AddedStep, OneEditStep DEF WorkInv

-----------------------------------------------------------------------------
(* How the lives follow the steps.                                          *)

\* Task t can still put the row of k back.
Mine(t, k, from) ==
    /\ pc[t] \in {"edit", "apply", "undo"} /\ job[t].op \in {"revoke", "block"}
    /\ job[t].key = k /\ job[t].prev \in from

\* Nobody but the holder of the service lock can give a key back.
LEMMA Locked ==
  ASSUME IndInv, UserInv, NEW t \in Tasks, pc[t] \in Critical, Run(t), NEW k \in Keys, NEW from
  PROVE  /\ CanGiveBack(k, from) <=> Mine(t, k, from)
         /\ CanGiveBack(k, from)' <=> Mine(t, k, from)'
  <1>1. \A x \in Tasks : x # t => pc[x] \notin Critical /\ pc'[x] = pc[x] /\ job'[x] = job[x]
    BY OthersKeep DEF IndInv, LockInv
  <1> QED BY <1>1 DEF CanGiveBack, Mine, Critical

\* A key keeps its life when its row and the task that could give it back stay.
LEMMA SameLife ==
  ASSUME NEW k \in Keys, status'[k] = status[k],
         status[k] = "pending_revoke" =>
           \A from \in {{"active"}, Issuing} : CanGiveBack(k, from)' <=> CanGiveBack(k, from)
  PROVE  Life(k)' = Life(k)
  <1>1. CASE status[k] # "pending_revoke"  BY <1>1 DEF Life
  <1>2. CASE status[k] = "pending_revoke"
    <2>1. /\ CanGiveBack(k, {"active"})' <=> CanGiveBack(k, {"active"})
          /\ CanGiveBack(k, Issuing)' <=> CanGiveBack(k, Issuing)
      BY <1>2
    <2> QED BY <1>2, <2>1 DEF Life, Issuing
  <1> QED BY <1>1, <1>2

\* The holder of the service lock changes the life of no key but its own.
LEMMA OtherLives ==
  ASSUME IndInv, UserInv, NEW t \in Tasks, pc[t] \in Critical, Run(t), NEW k \in Keys,
         k # job[t].key, k # job'[t].key, status'[k] = status[k]
  PROVE  Life(k)' = Life(k)
  BY SameLife, Locked DEF Mine

\* What a life says of the row
LEMMA LifeOfRow ==
  ASSUME NEW k \in Keys, IndInv
  PROVE  /\ Life(k) = "none" <=> status[k] = "absent"
         /\ Life(k) = "issuing" <=> status[k] \in Issuing
         /\ Life(k) = "active" <=> status[k] = "active"
         /\ Life(k) = "revoked" <=> status[k] = "revoked"
         /\ Life(k) = "gone" <=> status[k] = "gone"
         /\ status[k] \in {"pending_delete", "delete_failed"} => Life(k) = "doomed"
         /\ status[k] = "pending_revoke" /\ ~CanGiveBack(k, {"active"}) /\ ~CanGiveBack(k, Issuing)
              => Life(k) = "doomed"
         /\ status[k] = "pending_revoke" => Life(k) \in {"closing", "cancelling", "doomed"}
  BY DEF IndInv, TypeOK, Statuses, Life, Issuing

-----------------------------------------------------------------------------
(* The steps of the promise.                                                *)

\* A step that changes no life, no client and nothing of the world is none of the promise.
LEMMA Stutters ==
  ASSUME \A k \in Keys : Life(k)' = Life(k), \A k \in Keys : InConf(k)' <=> InConf(k),
         phase' = "up" <=> phase = "up", UNCHANGED <<degraded, tampered>>
  PROVE  UNCHANGED Promise!vars
  <1>1. [k \in Keys |-> Life(k)]' = [k \in Keys |-> Life(k)]  OBVIOUS
  <1>2. {k \in Keys : InConf(k)}' = {k \in Keys : InConf(k)}  OBVIOUS
  <1> QED BY <1>1, <1>2 DEF Promise!vars, Promise!world

\* One key turns from one life to another.
LEMMA Turns ==
  ASSUME NEW k \in Keys, NEW from, NEW to, Life(k) \in from, Life(k)' = to,
         \A j \in Keys \ {k} : Life(j)' = Life(j), UNCHANGED <<conf, phase, degraded, tampered>>
  PROVE  Promise!Becomes(k, from, to)
  <1>1. [j \in Keys |-> Life(j)]' = [[j \in Keys |-> Life(j)] EXCEPT ![k] = to]  OBVIOUS
  <1>2. {j \in Keys : InConf(j)}' = {j \in Keys : InConf(j)}  BY DEF InConf
  <1> QED BY <1>1, <1>2 DEF Promise!Becomes, Promise!world

\* The file changes for one key, within what an edit may do.
LEMMA EditsOne ==
  ASSUME IndInv, NEW k \in Keys, \A j \in Keys : Life(j)' = Life(j),
         \A j \in Keys \ {k} : InConf(j)' <=> InConf(j),
         InConf(k)' /\ ~tampered => status[k] \notin Dead,
         ~InConf(k)' /\ phase = "up" => status[k] # "active",
         phase = "up" => ~degraded
  PROVE  Promise!Edit(k)
  <1>1. [j \in Keys |-> Life(j)]' = [j \in Keys |-> Life(j)]  OBVIOUS
  <1>2. CASE InConf(k)'
    <2>1. {j \in Keys : InConf(j)}' = {j \in Keys : InConf(j)} \cup {k}  BY <1>2
    <2>2. ~tampered => Life(k) \notin Promise!Dead  BY <1>2, LifeOfRow DEF Dead, Promise!Dead
    <2> QED BY <1>1, <2>1, <2>2 DEF Promise!Edit, Promise!Enter
  <1>3. CASE ~InConf(k)'
    <2>1. {j \in Keys : InConf(j)}' = {j \in Keys : InConf(j)} \ {k}  BY <1>3
    <2>2. phase = "up" => Life(k) # "active"  BY <1>3, LifeOfRow
    <2> QED BY <1>1, <2>1, <2>2 DEF Promise!Edit, Promise!Leave
  <1> QED BY <1>2, <1>3

\* A start gives up, with or without a last edit.
LEMMA GivesUp ==
  ASSUME (\E k \in Keys : Promise!Edit(k)) \/ ((\A k \in Keys : Life(k)' = Life(k)) /\ conf' = conf),
         phase' = "up", degraded' = TRUE, tampered' = tampered
  PROVE  Promise!GiveUp
  <1>1. ASSUME \A k \in Keys : Life(k)' = Life(k), conf' = conf
        PROVE  /\ [k \in Keys |-> Life(k)]' = [k \in Keys |-> Life(k)]
               /\ {k \in Keys : InConf(k)}' = {k \in Keys : InConf(k)}
    BY <1>1 DEF InConf
  <1> QED BY <1>1 DEF Promise!GiveUp

-----------------------------------------------------------------------------
(* What each step of a task is to the promise.                              *)

\* One step of the promise, or none
Keeps == Promise!Next \/ UNCHANGED Promise!vars

\* A step under the lock that leaves the row, and the way back, alone
LEMMA HeldLife ==
  ASSUME IndInv, UserInv, NEW t \in Tasks, pc[t] \in Critical, Run(t), NEW k \in Keys, status'[k] = status[k],
         \A from \in {{"active"}, Issuing} : Mine(t, k, from)' <=> Mine(t, k, from)
  PROVE  Life(k)' = Life(k)
  <1>1. \A from \in {{"active"}, Issuing} : CanGiveBack(k, from)' <=> CanGiveBack(k, from)
    <2> TAKE from \in {{"active"}, Issuing}
    <2>1. /\ CanGiveBack(k, from) <=> Mine(t, k, from)
          /\ CanGiveBack(k, from)' <=> Mine(t, k, from)'
      BY Locked
    <2> QED BY <2>1
  <1> QED BY <1>1, SameLife

\* A turn of one key is a step.
LEMMA Handled ==
  ASSUME NEW k \in Keys, Promise!Handle(k)
  PROVE  Keeps
  BY DEF Keeps, Promise!Next

\* Outside the service lock nothing happens to a key.
LEMMA QuietKeeps ==
  ASSUME IndInv, UserInv, NEW x \in Tasks, Call(x) \/ Lock(x) \/ Run(x), pc[x] \notin Critical, phase = "up", Next
  PROVE  Keeps
  <1>1. UNCHANGED <<status, configVars>> /\ pc'[x] \notin Working  BY Quiet
  <1>2. \A k \in Keys : Life(k)' = Life(k)
    <2> TAKE k \in Keys
    <2>1. ASSUME NEW from PROVE CanGiveBack(k, from)' <=> CanGiveBack(k, from)
      <3>1. \A t \in Tasks : t # x => pc'[t] = pc[t] /\ job'[t] = job[t]  BY OthersKeep
      <3> QED BY <1>1, <3>1 DEF CanGiveBack, Working, Critical
    <2> QED BY <1>1, <2>1, SameLife
  <1>3. UNCHANGED <<degraded, tampered, phase>>
    <2>1. ~(Mark(x) \/ Edit(x) \/ Apply(x) \/ Settle(x) \/ Compensation(x))
      BY DEF Critical, Mark, MarkRefused, MarkCreate, Insert, MarkRevoke, AlreadyRevoked, MarkDelete,
         ManualReconcile, Edit, Apply, EditRefused, EditAdd, EditRemove, EditNothing, EditShortId,
         ApplySucceeds, ApplyFails, Settle, Finish, FinishFails, Undo, Compensation, Compensate,
         CompensateApplied, CompensateFails, CompensateStatus
    <2> QED BY <2>1 DEF Run, Call, Lock, Block, StartCreate, StartManage, StartBlock, Start, AcquireUser, AcquireLock,
             BlockRole, SweepList, SweepNext, SweepEnd, historyVars
  <1> QED BY <1>1, <1>2, <1>3, Stutters DEF Keeps, InConf, configVars

\* Refusals, the checks of a create and a revoke with nothing to do change nothing.
LEMMA MarkKeeps ==
  ASSUME IndInv, UserInv, NEW t \in Tasks, MarkRefused(t) \/ MarkCreate(t) \/ AlreadyRevoked(t)
  PROVE  Keeps
  <1>1. Run(t) /\ pc[t] \in {"mark", "insert"} /\ pc'[t] \in {"idle", "sweep", "insert"}
        /\ UNCHANGED <<status, configVars, degraded, tampered, phase>>
    BY DEF Run, Mark, MarkRefused, MarkCreate, AlreadyRevoked, Return, Goto, historyVars, IndInv, TypeOK, Procs
  <1>2. \A k \in Keys : Life(k)' = Life(k)  BY <1>1, HeldLife DEF Mine, Critical
  <1> QED BY <1>1, <1>2, Stutters DEF Keeps, InConf, configVars

\* create_pending issues the key.
LEMMA InsertKeeps ==
  ASSUME IndInv, UserInv, FrozenInv, NEW t \in Tasks, Insert(t), phase = "up"
  PROVE  Keeps
  <1>1. PICK k \in Keys : /\ status[k] = "absent"
                          /\ status' = [status EXCEPT ![k] = "pending_apply"]
                          /\ job' = [job EXCEPT ![t].key = k]
    BY DEF Insert
  <1>2. /\ pc[t] = "insert" /\ pc'[t] = "edit" /\ job[t].op = "create" /\ job'[t].op = "create"
        /\ UNCHANGED <<conf, degraded, tampered, phase>> /\ Run(t)
    <2>1. job'[t].op = job[t].op  BY <1>1 DEF IndInv, TypeOK, Procs, Jobs
    <2> QED BY <2>1 DEF Run, Mark, Insert, Goto, configVars, historyVars, IndInv, TypeOK, TaskInv, Procs
  <1>3. \A j \in Keys \ {k} : Life(j)' = Life(j)
    BY <1>1, <1>2, HeldLife DEF Mine, Critical, IndInv, TypeOK
  <1>4. Life(k) = "none" /\ Life(k)' = "issuing"
    <2>1. status'[k] = "pending_apply"  BY <1>1 DEF IndInv, TypeOK
    <2> QED BY <1>1, <2>1 DEF Life, Issuing
  <1>5. ~degraded  BY <1>2 DEF FrozenInv, Critical
  <1>6. Promise!Becomes(k, {"none"}, "issuing")  BY <1>2, <1>3, <1>4, Turns
  <1>7. Promise!Issue(k)  BY <1>5, <1>6 DEF Promise!Issue, Promise!Calls
  <1> QED BY <1>7, Handled DEF Promise!Handle

\* A revoke puts a key in doubt; what was being deleted, or had failed to be, stays doomed.
LEMMA MarkRevokeKeeps ==
  ASSUME IndInv, UserInv, NEW t \in Tasks, MarkRevoke(t), phase = "up"
  PROVE  Keeps
  <1>1. PICK k \in Keys : k = job[t].key  BY DEF MarkRevoke, IndInv, TaskInv
  <1>2. /\ pc[t] = "mark" /\ pc'[t] = "edit" /\ job'[t].op \in {"revoke", "block"} /\ job'[t].key = k
        /\ job'[t].prev = status[k] /\ status[k] \in MayExist
        /\ status' = [status EXCEPT ![k] = "pending_revoke"] /\ ~degraded
        /\ UNCHANGED <<conf, degraded, tampered, phase>> /\ Run(t)
    BY <1>1 DEF Run, Mark, MarkRevoke, Goto, configVars, historyVars, IndInv, TypeOK, Procs, Jobs
  <1>3. \A j \in Keys \ {k} : Life(j)' = Life(j)
    BY <1>1, <1>2, OtherLives DEF Critical, IndInv, TypeOK
  <1>4. \A from : ~CanGiveBack(k, from) /\ (CanGiveBack(k, from)' <=> status[k] \in from)
    BY <1>1, <1>2, Locked DEF Mine, Critical
  <1>5. status'[k] = "pending_revoke"  BY <1>1, <1>2 DEF IndInv, TypeOK
  <1>6. Life(k)' = IF status[k] = "active" THEN "closing" ELSE IF status[k] \in Issuing THEN "cancelling" ELSE "doomed"
    <2>1. /\ CanGiveBack(k, {"active"})' <=> status[k] = "active"
          /\ CanGiveBack(k, Issuing)' <=> status[k] \in Issuing
      BY <1>4
    <2>2. "pending_revoke" \notin Issuing /\ "active" \notin Issuing  BY DEF Issuing
    <2> QED BY <1>5, <2>1, <2>2 DEF Life
  <1>7. CASE status[k] \in {"active"} \cup Issuing
    <2>1. \/ Life(k) = "active" /\ Life(k)' = "closing"
          \/ Life(k) = "issuing" /\ Life(k)' = "cancelling"
      BY <1>6, <1>7 DEF Life, Issuing
    <2>2. Promise!Becomes(k, {"active"}, "closing") \/ Promise!Becomes(k, {"issuing"}, "cancelling")
      BY <1>1, <1>2, <1>3, <2>1, Turns
    <2>3. Promise!BeginRevoke(k)  BY <1>2, <2>2 DEF Promise!BeginRevoke, Promise!Calls
    <2> QED BY <1>1, <2>3, Handled DEF Promise!Handle
  <1>8. CASE status[k] \notin {"active"} \cup Issuing
    <2>1. ~CanGiveBack(k, {"active"}) /\ ~CanGiveBack(k, Issuing)  BY <1>4
    <2>2. Life(k) = "doomed" /\ Life(k)' = "doomed"
      BY <1>2, <1>6, <1>8, <2>1 DEF Life, Issuing, MayExist
    <2>3. \A j \in Keys : Life(j)' = Life(j)  BY <1>3, <2>2
    <2> QED BY <1>2, <2>3, Stutters DEF Keeps, InConf
  <1> QED BY <1>7, <1>8

\* A delete dooms a key.
LEMMA MarkDeleteKeeps ==
  ASSUME IndInv, UserInv, NEW t \in Tasks, MarkDelete(t), phase = "up"
  PROVE  Keeps
  <1>1. PICK k \in Keys : k = job[t].key  BY DEF MarkDelete, IndInv, TaskInv
  <1>2. /\ pc[t] = "mark" /\ job'[t].op = "delete" /\ job'[t].key = k
        /\ status[k] \in Rows /\ ~degraded
        /\ status' = [status EXCEPT ![k] = "pending_delete"]
        /\ UNCHANGED <<conf, degraded, tampered, phase>> /\ Run(t)
    BY <1>1 DEF Run, Mark, MarkDelete, Goto, configVars, historyVars, IndInv, TypeOK, Procs, Jobs
  <1>3. \A j \in Keys \ {k} : Life(j)' = Life(j)
    BY <1>1, <1>2, OtherLives DEF Critical, IndInv, TypeOK
  <1>4. ~CanGiveBack(k, {"active"}) /\ ~CanGiveBack(k, Issuing)
    BY <1>1, <1>2, Locked DEF Mine, Critical
  <1>5. Life(k)' = "doomed"
    <2>1. status'[k] = "pending_delete"  BY <1>1, <1>2 DEF IndInv, TypeOK
    <2>2. "pending_delete" \notin Issuing  BY DEF Issuing
    <2> QED BY <2>1, <2>2 DEF Life
  <1>6. Life(k) \in {"issuing", "active", "revoked", "doomed"}
    BY <1>1, <1>2, <1>4, LifeOfRow DEF Rows, Statuses, Issuing
  <1>7. CASE Life(k) # "doomed"
    <2>1. Promise!Becomes(k, {"issuing", "active", "revoked"}, "doomed")
      BY <1>1, <1>2, <1>3, <1>5, <1>6, <1>7, Turns
    <2>2. Promise!BeginDelete(k)  BY <1>2, <2>1 DEF Promise!BeginDelete, Promise!Calls
    <2> QED BY <1>1, <2>2, Handled DEF Promise!Handle
  <1>8. CASE Life(k) = "doomed"
    <2>1. \A j \in Keys : Life(j)' = Life(j)  BY <1>3, <1>5, <1>8
    <2> QED BY <1>2, <2>1, Stutters DEF Keeps, InConf
  <1> QED BY <1>7, <1>8

\* A row that is settled from the file comes to life only with its client inside.
LEMMA SettleKeeps ==
  ASSUME IndInv, NEW k \in Keys, status' = [status EXCEPT ![k] = Settled(k)],
         \A j \in Keys \ {k} : Life(j)' = Life(j), status[k] \notin Issuing => Life(k)' = Life(k),
         UNCHANGED <<conf, phase, degraded, tampered>>
  PROVE  Keeps
  <1>1. status'[k] = Settled(k)  BY DEF IndInv, TypeOK
  <1>2. CASE status[k] \in Issuing /\ InConf(k)
    <2>1. Life(k) = "issuing" /\ Life(k)' = "active"
      BY <1>1, <1>2 DEF Settled, MarkActive, Life, Issuing
    <2>2. Promise!Becomes(k, {"issuing"}, "active")  BY <2>1, Turns
    <2>3. Promise!Activate(k)  BY <1>2, <2>2 DEF Promise!Activate
    <2> QED BY <2>3, Handled DEF Promise!Handle
  <1>3. CASE ~(status[k] \in Issuing /\ InConf(k))
    <2>1. Life(k)' = Life(k)
      BY <1>1, <1>3 DEF Settled, Life, Issuing
    <2>2. \A j \in Keys : Life(j)' = Life(j)  BY <2>1
    <2> QED BY <2>2, Stutters DEF Keeps, InConf
  <1> QED BY <1>2, <1>3

\* A manual reconcile settles its key.
LEMMA ManualKeeps ==
  ASSUME IndInv, UserInv, NEW t \in Tasks, ManualReconcile(t)
  PROVE  Keeps
  <1>1. PICK k \in Keys : k = job[t].key  BY DEF ManualReconcile, IndInv, TaskInv
  <1>2. /\ pc[t] = "mark" /\ pc'[t] \in {"idle", "sweep"}
        /\ status' = [status EXCEPT ![k] = Settled(k)]
        /\ UNCHANGED <<conf, degraded, tampered, phase>> /\ Run(t)
    BY <1>1 DEF Run, Mark, ManualReconcile, Return, Goto, configVars, historyVars, IndInv, TypeOK, Procs
  <1>3. \A j \in Keys : status'[j] = status[j] => Life(j)' = Life(j)
    BY <1>1, <1>2, HeldLife DEF Critical, Mine
  <1>4. \A j \in Keys \ {k} : status'[j] = status[j]  BY <1>1, <1>2 DEF IndInv, TypeOK
  <1>5. status[k] \notin Issuing => status'[k] = status[k]
    BY <1>1, <1>2 DEF Settled, Issuing, IndInv, TypeOK
  <1> QED BY <1>1, <1>2, <1>3, <1>4, <1>5, SettleKeeps

\* Only the key of the task can lose its way back, and then it is doomed.
LEMMA WayLost ==
  ASSUME IndInv, UserInv, NEW t \in Tasks, pc[t] \in Critical, Run(t), NEW k \in Keys, k = job[t].key,
         UNCHANGED <<conf, status, phase, degraded, tampered>>,
         pc'[t] \notin {"edit", "apply", "undo"}
  PROVE  Keeps
  <1>1. \A j \in Keys \ {k} : Life(j)' = Life(j)  BY HeldLife DEF Mine
  <1>2. ~CanGiveBack(k, {"active"})' /\ ~CanGiveBack(k, Issuing)'  BY Locked DEF Mine
  <1>3. Life(k)' = IF status[k] = "pending_revoke" THEN "doomed" ELSE Life(k)
    BY <1>2 DEF Life, Issuing
  <1>4. CASE Life(k) \in {"closing", "cancelling"}
    <2>1. status[k] = "pending_revoke"  BY <1>4, LifeOfRow DEF Life, Issuing
    <2>2. Promise!Becomes(k, Promise!InDoubt, "doomed")
      BY <1>1, <1>3, <1>4, <2>1, Turns DEF Promise!InDoubt
    <2> QED BY <2>2, Handled DEF Promise!Handle, Promise!Doom
  <1>5. CASE Life(k) \notin {"closing", "cancelling"}
    <2>1. status[k] = "pending_revoke" => Life(k) = "doomed"  BY <1>5, LifeOfRow
    <2>2. \A j \in Keys : Life(j)' = Life(j)  BY <1>1, <1>3, <2>1
    <2> QED BY <2>2, Stutters DEF Keeps, InConf
  <1> QED BY <1>4, <1>5

\* An edit of the running bot, or of startup
LEMMA Rewrites ==
  ASSUME IndInv, NEW k \in Keys, \A j \in Keys : Life(j)' = Life(j),
         \A j \in Keys \ {k} : InConf(j)' <=> InConf(j),
         InConf(k)' /\ ~tampered => status[k] \notin Dead,
         ~InConf(k)' /\ phase = "up" => status[k] # "active",
         phase = "up" => ~degraded, UNCHANGED <<phase, degraded, tampered>>
  PROVE  Keeps
  <1>1. Promise!Edit(k)  BY EditsOne
  <1>2. Promise!Rewrite(k)  BY <1>1 DEF Promise!Rewrite, Promise!world
  <1> QED BY <1>2, Handled DEF Promise!Handle

\* The first step of an edit lets the key of a create in, or locks out one that is leaving.
LEMMA EditKeeps ==
  ASSUME IndInv, UserInv, FrozenInv, WorkInv, NEW t \in Tasks, Edit(t), phase = "up"
  PROVE  Keeps
  <1>1. PICK k \in Keys : k = job[t].key /\ status[k] \notin Dead
    BY DEF IndInv, TaskInv, Working, Critical, Edit, EditRefused, EditAdd, EditRemove, EditNothing, EditShortId
  <1>2. pc[t] = "edit" /\ pc[t] \in Critical /\ Run(t) /\ ~degraded /\ pc[t] \in Working
        /\ UNCHANGED <<status, phase, degraded, tampered>>
    BY DEF Run, FrozenInv, Critical, Working, Edit, EditRefused, EditAdd, EditRemove, EditNothing, EditShortId, historyVars
  <1>3. CASE EditRefused(t)
    <2>1. pc'[t] = "undo" /\ job' = job /\ conf' = conf
      BY <1>3 DEF EditRefused, Goto, configVars, IndInv, TypeOK, Procs
    <2>2. \A j \in Keys : Life(j)' = Life(j)  BY <1>2, <2>1, HeldLife DEF Mine
    <2> QED BY <1>2, <2>1, <2>2, Stutters DEF Keeps, InConf
  <1>4. CASE EditAdd(t)
    <2>1. \E b \in BOOLEAN : job' = [job EXCEPT ![t].ins = b]  BY <1>4, Zenon DEF EditAdd
    <2>2. /\ pc'[t] = "apply" /\ job'[t].op = job[t].op /\ job'[t].key = k /\ job'[t].prev = job[t].prev
      BY <1>1, <1>4, <2>1 DEF EditAdd, Goto, IndInv, TypeOK, Procs, Jobs
    <2>3. \A j \in Keys : Life(j)' = Life(j)  BY <1>1, <1>2, <2>2, HeldLife DEF Mine
    <2>4. conf' = [conf EXCEPT ![Transport[k]] = @ \cup {k}]
      BY <1>1, <1>4 DEF EditAdd, AddClient, Replace
    <2>5. InConf(k)' /\ \A j \in Keys \ {k} : InConf(j)' <=> InConf(j)
      BY <2>4, ConfigAssumption DEF InConf, IndInv, TypeOK, ConfigTypeOK, ClientTables
    <2> QED BY <1>1, <1>2, <2>3, <2>5, Rewrites
  <1>5. CASE EditRemove(t)
    <2>1. pc'[t] = "apply" /\ job' = job
      BY <1>5 DEF EditRemove, Goto, IndInv, TypeOK, Procs
    <2>2. \A j \in Keys : Life(j)' = Life(j)  BY <1>2, <2>1, HeldLife DEF Mine
    <2>3. conf' = [conf EXCEPT ![Transport[k]] = @ \ {k}]
      BY <1>1, <1>5 DEF EditRemove, RemoveClient, Replace, Inbound, Inbounds
    <2>4. ~InConf(k)' /\ \A j \in Keys \ {k} : InConf(j)' <=> InConf(j)
      BY <2>3, ConfigAssumption DEF InConf, IndInv, TypeOK, ConfigTypeOK, ClientTables
    <2>5. status[k] # "active"
      <3>1. Marked(t)  BY DEF WorkInv
      <3> QED BY <1>1, <1>2, <3>1 DEF Marked, Issuing
    <2> QED BY <1>2, <2>2, <2>4, <2>5, Rewrites
  <1>6. CASE EditNothing(t)
    <2>1. pc'[t] = "finish" /\ conf' = conf
      BY <1>6 DEF EditNothing, Goto, configVars, IndInv, TypeOK, Procs
    <2> QED BY <1>1, <1>2, <2>1, WayLost
  <1>7. ~EditShortId(t)
    BY <1>2 DEF EditShortId, IndInv, TaskInv, Working, Critical
  <1> QED BY <1>3, <1>4, <1>5, <1>6, <1>7 DEF Edit

\* An apply takes the way back with it if it succeeds, and may put the older file back if not.
LEMMA ApplyKeeps ==
  ASSUME IndInv, UserInv, FrozenInv, WorkInv, NEW t \in Tasks, Apply(t), phase = "up"
  PROVE  Keeps
  <1>1. PICK k \in Keys : k = job[t].key /\ status[k] \notin Dead
    BY DEF IndInv, TaskInv, Working, Critical, Apply, ApplySucceeds, ApplyFails
  <1>2. pc[t] = "apply" /\ pc[t] \in Critical /\ Run(t) /\ ~degraded /\ pc[t] \in Working /\ t \in Procs
        /\ UNCHANGED <<status, phase, degraded, tampered, job>>
    BY DEF Run, FrozenInv, Critical, Working, Apply, ApplySucceeds, ApplyFails, historyVars, Procs
  <1>3. CASE ApplySucceeds(t)
    <2>1. pc'[t] = "finish" /\ conf' = conf
      BY <1>3 DEF ApplySucceeds, ApplyOk, Goto, IndInv, TypeOK, Procs
    <2> QED BY <1>1, <1>2, <2>1, WayLost
  <1>4. CASE ApplyFails(t)
    <2>1. pc'[t] = "undo" /\ conf' \in {conf, saved.conf}
      BY <1>4 DEF ApplyFails, ApplyFailed, Goto, IndInv, TypeOK, Procs
    <2>2. \A j \in Keys : Life(j)' = Life(j)  BY <1>2, <2>1, HeldLife DEF Mine
    <2>3. \A j \in Keys \ {k} : InConf(j) <=> j \in saved.conf[Transport[j]]
      BY <1>1, <1>2 DEF WorkInv, OneEditInv, Applying
    <2>4. \A j \in Keys \ {k} : InConf(j)' <=> InConf(j)  BY <2>1, <2>3 DEF InConf
    <2>5. status[k] # "active"
      <3>1. Marked(t)  BY DEF WorkInv
      <3> QED BY <1>1, <1>2, <3>1 DEF Marked, Issuing
    <2> QED BY <1>1, <1>2, <2>2, <2>4, <2>5, Rewrites
  <1> QED BY <1>3, <1>4 DEF Apply

\* The last write of an operation settles the key as the file has it.
LEMMA FinishKeeps ==
  ASSUME IndInv, UserInv, WorkInv, NEW t \in Tasks, Finish(t)
  PROVE  Keeps
  <1>1. PICK k \in Keys : k = job[t].key
    BY DEF IndInv, TaskInv, Working, Critical, Finish
  <1>2. /\ pc[t] = "finish" /\ pc[t] \in Critical /\ pc[t] \in Working /\ Run(t) /\ t \in Procs
        /\ pc'[t] \in {"idle", "sweep"}
        /\ status' = [status EXCEPT ![k] = FinalStatus(t)]
        /\ UNCHANGED <<conf, phase, degraded, tampered>>
    BY <1>1 DEF Run, Settle, Finish, Critical, Working, Return, Goto, IndInv, TypeOK, Procs, configVars, historyVars
  <1>3. \A j \in Keys \ {k} : Life(j)' = Life(j)
    <2>1. \A j \in Keys \ {k} : status'[j] = status[j]  BY <1>1, <1>2 DEF IndInv, TypeOK
    <2> QED BY <1>1, <1>2, <2>1, HeldLife DEF Mine
  <1>4. status'[k] = FinalStatus(t)  BY <1>1, <1>2 DEF IndInv, TypeOK
  <1>5. ~CanGiveBack(k, {"active"}) /\ ~CanGiveBack(k, Issuing)  BY <1>2, Locked DEF Mine
  <1>6. Marked(t)  BY DEF WorkInv
  <1>7. CASE job[t].op = "create"
    <2>1. status[k] \in Issuing  BY <1>1, <1>2, <1>6, <1>7 DEF Marked
    <2>2. Life(k) = "issuing" /\ Life(k)' = "active"
      BY <1>1, <1>4, <1>7, <2>1 DEF FinalStatus, MarkActive, Life, Issuing
    <2>3. InConf(k)  BY <1>1, <1>2, <1>7 DEF WorkInv, AddedInv
    <2>4. Promise!Becomes(k, {"issuing"}, "active")  BY <1>2, <1>3, <2>2, Turns
    <2>5. Promise!Activate(k)  BY <2>3, <2>4 DEF Promise!Activate
    <2> QED BY <2>5, Handled DEF Promise!Handle
  <1>8. CASE job[t].op \in {"revoke", "block"}
    <2>1. status[k] = "pending_revoke"  BY <1>1, <1>2, <1>6, <1>8 DEF Marked
    <2>2. Life(k) = "doomed" /\ Life(k)' = "revoked"
      BY <1>1, <1>4, <1>5, <1>8, <2>1 DEF FinalStatus, Life, Issuing
    <2>3. ~tampered => ~InConf(k)  BY <1>1, <1>2, <1>8 DEF IndInv, RemovedInv
    <2>4. Promise!Becomes(k, {"doomed"}, "revoked")  BY <1>2, <1>3, <2>2, Turns
    <2>5. Promise!Revoked(k)  BY <2>3, <2>4 DEF Promise!Revoked
    <2> QED BY <2>5, Handled DEF Promise!Handle
  <1>9. CASE job[t].op = "delete"
    <2>1. status[k] = "pending_delete"  BY <1>1, <1>2, <1>6, <1>9 DEF Marked
    <2>2. Life(k) = "doomed" /\ Life(k)' = "gone"
      BY <1>1, <1>4, <1>9, <2>1 DEF FinalStatus, Life, Issuing
    <2>3. ~tampered => ~InConf(k)  BY <1>1, <1>2, <1>9 DEF IndInv, RemovedInv
    <2>4. Promise!Becomes(k, {"doomed"}, "gone")  BY <1>2, <1>3, <2>2, Turns
    <2>5. Promise!Erase(k)  BY <2>3, <2>4 DEF Promise!Erase
    <2> QED BY <2>5, Handled DEF Promise!Handle
  <1> QED BY <1>2, <1>7, <1>8, <1>9 DEF IndInv, TaskInv

\* A last write that raises leaves the key where it was.
LEMMA FinishFailsKeeps ==
  ASSUME IndInv, UserInv, NEW t \in Tasks, FinishFails(t)
  PROVE  Keeps
  <1>1. /\ pc[t] = "finish" /\ pc[t] \in Critical /\ Run(t) /\ pc'[t] \in {"idle", "sweep", "comp"}
        /\ UNCHANGED <<conf, status, phase, degraded, tampered>>
    BY DEF Run, Settle, FinishFails, Critical, Return, Goto, IndInv, TypeOK, Procs, configVars, historyVars
  <1>2. \A k \in Keys : Life(k)' = Life(k)  BY <1>1, HeldLife DEF Mine
  <1> QED BY <1>1, <1>2, Stutters DEF Keeps, InConf

\* A failed operation gives back what was in doubt, or its record fails too and the key is doomed.
LEMMA UndoKeeps ==
  ASSUME IndInv, UserInv, FrozenInv, WorkInv, NEW t \in Tasks, Undo(t), phase = "up"
  PROVE  Keeps
  <1>1. PICK k \in Keys : k = job[t].key
    BY DEF IndInv, TaskInv, Working, Critical, Undo
  <1>2. /\ pc[t] = "undo" /\ pc[t] \in Critical /\ pc[t] \in Working /\ Run(t) /\ ~degraded
        /\ pc'[t] \in {"idle", "sweep"}
        /\ status' \in {status, [status EXCEPT ![k] = UndoStatus(t)]}
        /\ UNCHANGED <<conf, phase, degraded, tampered>>
    BY <1>1 DEF FrozenInv, Run, Settle, Undo, Critical, Working, Return, Goto, IndInv, TypeOK, Procs, configVars, historyVars
  <1>3. CASE status' = status  BY <1>1, <1>2, <1>3, WayLost
  <1>4. CASE status' = [status EXCEPT ![k] = UndoStatus(t)]
    <2>1. \A j \in Keys \ {k} : Life(j)' = Life(j)
      <3>1. \A j \in Keys \ {k} : status'[j] = status[j]  BY <1>1, <1>4 DEF IndInv, TypeOK
      <3> QED BY <1>1, <1>2, <3>1, HeldLife DEF Mine
    <2>2. status'[k] = UndoStatus(t)  BY <1>1, <1>4 DEF IndInv, TypeOK
    <2>3. Marked(t)  BY DEF WorkInv
    <2>4. ~CanGiveBack(k, {"active"})' /\ ~CanGiveBack(k, Issuing)'  BY <1>2, Locked DEF Mine
    <2>5. CASE job[t].op \in {"create", "delete"}
      <3>1. Life(k)' = Life(k)
        <4>1. CASE job[t].op = "create"
          <5>1. status[k] \in Issuing /\ status'[k] = "apply_failed"
            BY <1>1, <1>2, <2>2, <2>3, <4>1 DEF Marked, UndoStatus
          <5> QED BY <5>1 DEF Life, Issuing
        <4>2. CASE job[t].op = "delete"
          <5>1. status[k] = "pending_delete" /\ status'[k] = "delete_failed"
            BY <1>1, <1>2, <2>2, <2>3, <4>2 DEF Marked, UndoStatus
          <5> QED BY <5>1 DEF Life, Issuing
        <4> QED BY <2>5, <4>1, <4>2
      <3>2. \A j \in Keys : Life(j)' = Life(j)  BY <2>1, <3>1
      <3> QED BY <1>2, <3>2, Stutters DEF Keeps, InConf
    <2>6. CASE job[t].op \in {"revoke", "block"}
      <3>1. status[k] = "pending_revoke" /\ status'[k] = job[t].prev /\ job[t].prev \in MayExist
        BY <1>1, <1>2, <2>2, <2>3, <2>6 DEF Marked, UndoStatus, IndInv, TaskInv
      <3>2. /\ CanGiveBack(k, {"active"}) <=> job[t].prev = "active"
            /\ CanGiveBack(k, Issuing) <=> job[t].prev \in Issuing
        BY <1>1, <1>2, <2>6, Locked DEF Mine
      <3>3. CASE job[t].prev = "active"
        <4>1. "active" \notin Issuing /\ "pending_revoke" \notin Issuing  BY DEF Issuing
        <4>2. Life(k) = "closing" /\ Life(k)' = "active"  BY <3>1, <3>2, <3>3, <4>1 DEF Life
        <4>3. Promise!Becomes(k, {"closing"}, "active")  BY <1>2, <2>1, <4>2, Turns
        <4>4. Promise!GiveBack(k)  BY <1>2, <4>3 DEF Promise!GiveBack, Promise!Calls
        <4> QED BY <4>4, Handled DEF Promise!Handle
      <3>4. CASE job[t].prev \in Issuing
        <4>1. "active" \notin Issuing /\ "pending_revoke" \notin Issuing /\ "absent" \notin Issuing  BY DEF Issuing
        <4>2. Life(k) = "cancelling"  BY <3>1, <3>2, <3>4, <4>1 DEF Life
        <4>3. Life(k)' = "issuing"  BY <3>1, <3>4 DEF Life, Issuing
        <4>4. Promise!Becomes(k, {"cancelling"}, "issuing")  BY <1>2, <2>1, <4>2, <4>3, Turns
        <4>5. Promise!GiveBack(k)  BY <1>2, <4>4 DEF Promise!GiveBack, Promise!Calls
        <4> QED BY <4>5, Handled DEF Promise!Handle
      <3>5. CASE job[t].prev \notin {"active"} \cup Issuing
        <4>1. Life(k) = "doomed"  BY <3>1, <3>2, <3>5, LifeOfRow
        <4>2. job[t].prev \in {"pending_revoke", "pending_delete", "delete_failed"}
          BY <3>1, <3>5 DEF MayExist, Issuing
        <4>3. Life(k)' = "doomed"  BY <2>4, <3>1, <4>2 DEF Life, Issuing
        <4>4. \A j \in Keys : Life(j)' = Life(j)  BY <2>1, <4>1, <4>3
        <4> QED BY <1>2, <4>4, Stutters DEF Keeps, InConf
      <3> QED BY <3>3, <3>4, <3>5
    <2> QED BY <1>2, <2>5, <2>6 DEF IndInv, TaskInv
  <1> QED BY <1>2, <1>3, <1>4

\* The compensation of a failed create locks its key out, or gives up on the backend.
LEMMA CompensationKeeps ==
  ASSUME IndInv, UserInv, FrozenInv, WorkInv, NEW t \in Tasks, Compensation(t), phase = "up"
  PROVE  Keeps
  <1>1. pc[t] \in {"comp", "comp_apply", "comp_status"} /\ pc[t] \in Working /\ pc[t] \in Critical
        /\ Run(t) /\ ~degraded /\ job[t].op = "create" /\ t \in Procs
        /\ UNCHANGED <<tampered, phase>>
    BY DEF Run, Compensation, Compensate, CompensateApplied, CompensateFails, CompensateStatus, Critical,
       Working, FrozenInv, IndInv, TaskInv, Procs, historyVars
  <1>2. PICK k \in Keys : k = job[t].key /\ status[k] \in Issuing
    <2>1. Marked(t)  BY DEF WorkInv
    <2> QED BY <1>1, <2>1 DEF Marked, IndInv, TaskInv
  <1>3. pc'[t] \in {"comp_apply", "comp_status", "idle", "sweep"}
    BY DEF Compensation, Compensate, CompensateApplied, CompensateFails, CompensateStatus, Return, Goto,
       IndInv, TypeOK, Procs
  <1>4. \A j \in Keys : status'[j] = status[j] => Life(j)' = Life(j)
    BY <1>1, <1>3, HeldLife DEF Mine
  <1>5. CASE Compensate(t)
    <2>1. status' = status /\ degraded' = degraded /\ conf' = [conf EXCEPT ![Transport[k]] = @ \ {k}]
      BY <1>2, <1>5 DEF Compensate, RemoveClient, Replace, Inbound, Inbounds
    <2>2. ~InConf(k)' /\ \A j \in Keys \ {k} : InConf(j)' <=> InConf(j)
      BY <2>1, ConfigAssumption DEF InConf, IndInv, TypeOK, ConfigTypeOK, ClientTables
    <2> QED BY <1>1, <1>2, <1>4, <2>1, <2>2, Rewrites DEF Issuing
  <1>6. CASE CompensateApplied(t)
    <2>1. status' = status /\ degraded' = degraded /\ conf' = conf
      BY <1>6 DEF CompensateApplied, ApplyOk
    <2> QED BY <1>1, <1>4, <2>1, Stutters DEF Keeps, InConf
  <1>7. CASE CompensateFails(t)
    <2>1. status' = status /\ degraded' = TRUE
          /\ (conf' = conf \/ (pc[t] = "comp_apply" /\ conf' = saved.conf))
      BY <1>7 DEF CompensateFails, ApplyFailed, configVars
    <2>2. \A j \in Keys : Life(j)' = Life(j)  BY <1>4, <2>1
    <2>3. CASE conf' = conf
      <3>1. Promise!GiveUp  BY <1>1, <2>1, <2>2, <2>3, GivesUp
      <3> QED BY <3>1 DEF Keeps, Promise!Next
    <2>4. CASE pc[t] = "comp_apply" /\ conf' = saved.conf
      <3>1. \A j \in Keys \ {k} : InConf(j) <=> j \in saved.conf[Transport[j]]
        BY <1>1, <1>2, <2>4 DEF WorkInv, OneEditInv, Applying
      <3>2. \A j \in Keys \ {k} : InConf(j)' <=> InConf(j)  BY <2>4, <3>1 DEF InConf
      <3>3. Promise!Edit(k)  BY <1>1, <1>2, <2>2, <3>2, EditsOne DEF Issuing, Dead
      <3>4. Promise!GiveUp  BY <1>1, <2>1, <3>3, GivesUp
      <3> QED BY <3>4 DEF Keeps, Promise!Next
    <2> QED BY <2>1, <2>3, <2>4
  <1>8. CASE CompensateStatus(t)
    <2>1. UNCHANGED <<degraded, conf>> /\ status' \in {status, [status EXCEPT ![k] = "apply_failed"]}
      BY <1>2, <1>8 DEF CompensateStatus, configVars
    <2>2. \A j \in Keys \ {k} : status'[j] = status[j]  BY <1>2, <2>1 DEF IndInv, TypeOK
    <2>3. Life(k)' = Life(k)
      <3>1. status'[k] \in Issuing  BY <1>2, <2>1 DEF IndInv, TypeOK, Issuing
      <3> QED BY <1>2, <3>1 DEF Life, Issuing
    <2>4. \A j \in Keys : Life(j)' = Life(j)  BY <1>4, <2>2, <2>3
    <2> QED BY <1>1, <2>1, <2>4, Stutters DEF Keeps, InConf
  <1> QED BY <1>5, <1>6, <1>7, <1>8 DEF Compensation

-----------------------------------------------------------------------------
(* What startup, a crash and the operator are to the promise.               *)

\* A row that is not written keeps its life while the bot is not up.
LEMMA DownLife ==
  ASSUME IndInv, Next, phase # "up", NEW k \in Keys
  PROVE  /\ ~CanGiveBack(k, {"active"}) /\ ~CanGiveBack(k, Issuing)
         /\ ~CanGiveBack(k, {"active"})' /\ ~CanGiveBack(k, Issuing)'
         /\ status'[k] = status[k] => Life(k)' = Life(k)
  <1>1. (\A t \in Tasks : pc[t] = "idle") /\ \A t \in Tasks : pc'[t] = "idle"
    BY TasksIdle DEF IndInv, LockInv
  <1>2. \A from : ~CanGiveBack(k, from) /\ ~CanGiveBack(k, from)'  BY <1>1 DEF CanGiveBack
  <1> QED BY <1>2, SameLife

\* The steps of startup that only look
LEMMA LookKeeps ==
  ASSUME IndInv, Next, phase # "up",
         \/ BootStart \/ BootResume \/ BootScan \/ BootNonLive \/ BootOrphan \/ BootRestore
         \/ (BootReconciled /\ ~failed) \/ EditRefused(Boot) \/ EditNothing(Boot) \/ EditShortId(Boot)
         \/ ApplySucceeds(Boot)
  PROVE  Keeps
  <1>1. UNCHANGED <<conf, status, degraded, tampered>> /\ phase' # "up"
    <2>1. CASE BootStart \/ BootScan
      BY <2>1 DEF BootStart, BootScan, Stage, configVars, historyVars
    <2>2. CASE BootResume \/ BootNonLive \/ BootOrphan \/ BootRestore
      BY <2>2 DEF BootResume, BootNonLive, BootOrphan, BootRestore, BootEdit, configVars, historyVars
    <2>3. CASE BootReconciled /\ ~failed
      BY <2>3 DEF BootReconciled, Stage, configVars, historyVars
    <2>4. CASE EditRefused(Boot) \/ EditNothing(Boot) \/ EditShortId(Boot) \/ ApplySucceeds(Boot)
      BY <2>4 DEF EditRefused, EditNothing, EditShortId, EnsureShortId, Replace, ApplySucceeds, ApplyOk,
         configVars, historyVars
    <2> QED BY <2>1, <2>2, <2>3, <2>4
  <1>2. \A k \in Keys : Life(k)' = Life(k)  BY <1>1, DownLife
  <1> QED BY <1>1, <1>2, Stutters DEF Keeps, InConf

\* Startup settles the rows that it reads from the file, and those whose removal it has finished.
LEMMA BootSettleKeeps ==
  ASSUME IndInv, WorkInv, Next, phase # "up", BootSettle \/ BootFinish \/ BootUndo
  PROVE  Keeps
  <1>1. UNCHANGED <<conf, phase, degraded, tampered>>
    BY DEF BootSettle, BootFinish, BootUndo, configVars, historyVars
  <1>2. CASE status' = status
    <2>1. \A k \in Keys : Life(k)' = Life(k)  BY <1>2, DownLife
    <2> QED BY <1>1, <2>1, Stutters DEF Keeps, InConf
  <1>3. CASE BootSettle /\ status' # status
    <2>1. PICK k \in Keys : status' = [status EXCEPT ![k] = Settled(k)]
      BY <1>3 DEF BootSettle, BootIdle, IndInv, BootTaskInv
    <2>2. \A j \in Keys \ {k} : status'[j] = status[j]  BY <2>1 DEF IndInv, TypeOK
    <2>3. \A j \in Keys \ {k} : Life(j)' = Life(j)  BY <2>2, DownLife
    <2>4. status[k] \notin Issuing => Life(k)' = Life(k)
      <3>1. status[k] \notin Issuing => status'[k] = status[k]
        BY <2>1 DEF Settled, Issuing, IndInv, TypeOK
      <3> QED BY <3>1, DownLife
    <2> QED BY <1>1, <2>1, <2>3, <2>4, SettleKeeps
  <1>4. CASE (BootFinish \/ BootUndo) /\ status' # status
    <2>1. PICK k \in Keys : k = job[Boot].key  BY <1>4 DEF BootFinish, BootUndo, IndInv, BootTaskInv
    <2>2. /\ phase = "reconcile" /\ pc[Boot] # "idle"
          /\ \/ BootFinish /\ status' = [status EXCEPT ![k] = FinalStatus(Boot)]
             \/ BootUndo /\ job[Boot].op = "delete" /\ status' = [status EXCEPT ![k] = "delete_failed"]
      BY <1>4, <2>1 DEF BootFinish, BootUndo
    <2>3. \A j \in Keys \ {k} : status'[j] = status[j]  BY <2>2 DEF IndInv, TypeOK
    <2>4. \A j \in Keys \ {k} : Life(j)' = Life(j)  BY <2>3, DownLife
    <2>5. BootMarked  BY DEF WorkInv
    <2>6. /\ ~CanGiveBack(k, {"active"}) /\ ~CanGiveBack(k, Issuing)
      BY DownLife
    <2>7. Life(k) = "doomed"  BY <2>1, <2>2, <2>5, <2>6, LifeOfRow DEF BootMarked
    <2>8. CASE BootUndo
      <3>1. status'[k] = "delete_failed"  BY <2>2, <2>8 DEF BootUndo, BootFinish, IndInv, TypeOK
      <3>2. Life(k)' = "doomed"  BY <3>1 DEF Life, Issuing
      <3>3. \A j \in Keys : Life(j)' = Life(j)  BY <2>4, <2>7, <3>2
      <3> QED BY <1>1, <3>3, Stutters DEF Keeps, InConf
    <2>9. CASE BootFinish
      <3>1. status'[k] = FinalStatus(Boot) /\ pc[Boot] = "finish"
        BY <2>2, <2>9 DEF BootUndo, BootFinish, IndInv, TypeOK
      <3>2. ~tampered => ~InConf(k)
        BY <2>1, <2>2, <2>5, <3>1 DEF BootMarked, IndInv, RemovedInv, Procs
      <3>3. CASE job[Boot].op = "revoke"
        <4>1. Life(k)' = "revoked"  BY <3>1, <3>3 DEF FinalStatus, Life, Issuing
        <4>2. Promise!Becomes(k, {"doomed"}, "revoked")  BY <1>1, <2>4, <2>7, <4>1, Turns
        <4>3. Promise!Revoked(k)  BY <3>2, <4>2 DEF Promise!Revoked
        <4> QED BY <4>3, Handled DEF Promise!Handle
      <3>4. CASE job[Boot].op = "delete"
        <4>1. Life(k)' = "gone"  BY <3>1, <3>4 DEF FinalStatus, Life, Issuing
        <4>2. Promise!Becomes(k, {"doomed"}, "gone")  BY <1>1, <2>4, <2>7, <4>1, Turns
        <4>3. Promise!Erase(k)  BY <3>2, <4>2 DEF Promise!Erase
        <4> QED BY <4>3, Handled DEF Promise!Handle
      <3> QED BY <2>2, <2>5, <3>3, <3>4 DEF BootMarked
    <2> QED BY <1>4, <2>8, <2>9
  <1> QED BY <1>2, <1>3, <1>4

\* Startup edits the file for one key at a time, and never lets in a dead one.
LEMMA BootEditKeeps ==
  ASSUME IndInv, WorkInv, Next, phase # "up", EditAdd(Boot) \/ EditRemove(Boot) \/ ApplyFails(Boot)
  PROVE  Keeps
  <1>1. UNCHANGED <<status, phase, degraded, tampered>> /\ Boot \in Procs
    BY DEF EditAdd, EditRemove, ApplyFails, historyVars, Procs
  <1>2. \A k \in Keys : Life(k)' = Life(k)  BY <1>1, DownLife
  <1>3. PICK k \in Keys : k = job[Boot].key
    BY DEF EditAdd, EditRemove, ApplyFails, IndInv, BootTaskInv
  <1>4. \A j \in Keys \ {k} : InConf(j)' <=> InConf(j)
    <2> USE ConfigAssumption DEF InConf, IndInv, TypeOK, ConfigTypeOK, ClientTables
    <2>1. CASE EditAdd(Boot)  BY <1>3, <2>1 DEF EditAdd, AddClient, Replace
    <2>2. CASE EditRemove(Boot)  BY <1>3, <2>2 DEF EditRemove, RemoveClient, Replace
    <2>3. CASE ApplyFails(Boot)
      <3>1. \A j \in Keys \ {k} : InConf(j) <=> j \in saved.conf[Transport[j]]
        BY <1>1, <1>3, <2>3 DEF ApplyFails, WorkInv, OneEditInv, Applying
      <3> QED BY <2>3, <3>1 DEF ApplyFails, ApplyFailed
    <2> QED BY <2>1, <2>2, <2>3
  <1>5. InConf(k)' /\ ~tampered => status[k] \notin Dead
    <2>1. GhostInv'
      <3>1. IndInv'  BY NextInd
      <3> QED BY <3>1 DEF IndInv
    <2>2. k \in conf'[Transport[k]] /\ ~tampered' => status'[k] \notin Dead  BY <2>1 DEF GhostInv
    <2> QED BY <1>1, <2>2 DEF InConf
  <1> QED BY <1>1, <1>2, <1>4, <1>5, Rewrites

\* A startup that fails gives up.
LEMMA BootFailsKeeps ==
  ASSUME IndInv, Next, phase # "up", BootDriftFails \/ BootStops \/ (BootReconciled /\ failed)
  PROVE  Keeps
  <1>1. UNCHANGED <<conf, status>> /\ phase' = "up" /\ degraded' = TRUE /\ tampered' = tampered
    BY DEF BootDriftFails, BootStops, BootReconciled, BootEnd, configVars, IndInv, TypeOK
  <1>2. \A k \in Keys : Life(k)' = Life(k)  BY <1>1, DownLife
  <1>3. Promise!GiveUp  BY <1>1, <1>2, GivesUp
  <1> QED BY <1>3 DEF Keeps, Promise!Next

\* A startup that ends clean has the active keys in the file, and nothing else.
LEMMA BootDoneKeeps ==
  ASSUME IndInv, StartupInv, Next, phase # "up", BootDone
  PROVE  Keeps
  <1>1. UNCHANGED <<conf, status>> /\ phase' = "up" /\ degraded' = FALSE /\ tampered' = FALSE
    BY DEF BootDone, BootEnd, configVars, IndInv, TypeOK
  <1>2. \A k \in Keys : Life(k)' = Life(k)  BY <1>1, DownLife
  <1>3. \A k \in Keys : InConf(k) <=> status[k] = "active"
    BY DEF BootDone, BootIdle, StartupInv, DriftInv, RestoredInv, Listing
  <1>4. \A k \in Keys : Life(k) = "active" <=> status[k] = "active"  BY LifeOfRow
  <1>5. {k \in Keys : InConf(k)} = {k \in Keys : [j \in Keys |-> Life(j)][k] = "active"}  BY <1>3, <1>4
  <1>6. [k \in Keys |-> Life(k)]' = [k \in Keys |-> Life(k)]  BY <1>2
  <1>7. {k \in Keys : InConf(k)}' = {k \in Keys : InConf(k)}  BY <1>1 DEF InConf
  <1>8. Promise!CleanStart  BY <1>1, <1>5, <1>6, <1>7 DEF Promise!CleanStart
  <1> QED BY <1>8 DEF Keeps, Promise!Next

\* A kill leaves nobody to give a key back.
LEMMA CrashKeeps ==
  ASSUME IndInv, Crash
  PROVE  Keeps
  <1>1. UNCHANGED <<conf, status, tampered>> /\ phase' = "down" /\ degraded' = FALSE
        /\ \A t \in Tasks : pc'[t] = "idle"
    BY DEF Crash, historyVars, Procs
  <1>2. \A k \in Keys : ~CanGiveBack(k, {"active"})' /\ ~CanGiveBack(k, Issuing)'
    BY <1>1 DEF CanGiveBack
  <1>3. \A k \in Keys : Life(k)' = IF Life(k) \in Promise!InDoubt THEN "doomed" ELSE Life(k)
    <2> TAKE k \in Keys
    <2>1. CASE status[k] = "pending_revoke"
      <3>1. Life(k)' = "doomed"  BY <1>1, <1>2, <2>1 DEF Life, Issuing
      <3>2. Life(k) \in {"closing", "cancelling", "doomed"}  BY <2>1, LifeOfRow
      <3> QED BY <3>1, <3>2 DEF Promise!InDoubt
    <2>2. CASE status[k] # "pending_revoke"
      <3>1. Life(k)' = Life(k)  BY <1>1, <2>2 DEF Life
      <3>2. Life(k) \notin {"closing", "cancelling"}  BY <2>2 DEF Life, Issuing, IndInv, TypeOK, Statuses
      <3> QED BY <3>1, <3>2 DEF Promise!InDoubt
    <2> QED BY <2>1, <2>2
  <1>4. [k \in Keys |-> Life(k)]' = [k \in Keys |-> IF [j \in Keys |-> Life(j)][k] \in Promise!InDoubt
                                                   THEN "doomed" ELSE [j \in Keys |-> Life(j)][k]]
    BY <1>3
  <1>5. {k \in Keys : InConf(k)}' = {k \in Keys : InConf(k)}  BY <1>1 DEF InConf
  <1>6. Promise!Stop  BY <1>1, <1>4, <1>5 DEF Promise!Stop
  <1> QED BY <1>6 DEF Keeps, Promise!Next

\* Hand edits happen to a stopped bot and cost the trust in the file.
LEMMA OperatorKeeps ==
  ASSUME IndInv, Next, OperatorEdit
  PROVE  Keeps
  <1>1. UNCHANGED <<status, degraded, phase>> /\ tampered' = TRUE /\ phase = "down"
    BY DEF OperatorEdit, serviceVars
  <1>2. \A k \in Keys : Life(k)' = Life(k)  BY <1>1, DownLife
  <1>3. [k \in Keys |-> Life(k)]' = [k \in Keys |-> Life(k)]  BY <1>2
  <1>4. {k \in Keys : InConf(k)}' \in SUBSET Keys  OBVIOUS
  <1>5. Promise!HandEdit  BY <1>1, <1>3, <1>4 DEF Promise!HandEdit
  <1> QED BY <1>5 DEF Keeps, Promise!Next

\* A role is not about a key.
LEMMA RoleKeeps ==
  ASSUME NEW u \in Users, NEW r, RoleWrite(u, r)
  PROVE  Keeps
  <1>1. UNCHANGED <<conf, status, pc, job, degraded, phase, tampered>>  BY DEF RoleWrite, configVars
  <1>2. \A k \in Keys : Life(k)' = Life(k)
    <2>1. \A k \in Keys, from \in {{"active"}, Issuing} : CanGiveBack(k, from)' <=> CanGiveBack(k, from)
      BY <1>1 DEF CanGiveBack
    <2> QED BY <1>1, <2>1, SameLife
  <1> QED BY <1>1, <1>2, Stutters DEF Keeps, InConf

-----------------------------------------------------------------------------
(* The refinement.                                                          *)

\* Every step of the service is a step of the promise, or none.
LEMMA StepKeeps ==
  ASSUME IndInv, StartupInv, UserInv, FrozenInv, WorkInv, [Next]_vars
  PROVE  Keeps
  <1>1. CASE UNCHANGED vars
    <2>1. UNCHANGED <<conf, status, pc, job, degraded, phase, tampered>>
      BY <1>1 DEF vars, configVars, serviceVars, historyVars
    <2>2. \A k \in Keys, from \in {{"active"}, Issuing} : CanGiveBack(k, from)' <=> CanGiveBack(k, from)
      BY <2>1 DEF CanGiveBack
    <2>3. \A k \in Keys : Life(k)' = Life(k)  BY <2>1, <2>2, SameLife
    <2> QED BY <2>1, <2>3, Stutters DEF Keeps, InConf
  <1>2. CASE Next /\ phase = "up"
    <2>1. CASE Crash  BY <2>1, CrashKeeps
    <2>2. CASE \E u \in Users, r \in {"approved", "pending"} : RoleWrite(u, r)
      BY <2>2, RoleKeeps
    <2>3. CASE \E t \in Tasks : Call(t) \/ Lock(t) \/ Run(t)
      <3>1. PICK t \in Tasks : Call(t) \/ Lock(t) \/ Run(t)  BY <2>3
      <3>2. CASE pc[t] \notin Critical  BY <1>2, <3>1, <3>2, QuietKeeps
      <3>3. CASE pc[t] \in Critical
        <4>1. ~Call(t) /\ ~Lock(t) /\ ~Block(t)
          BY <3>3 DEF Call, Lock, StartCreate, StartManage, StartBlock, Start, Idle, AcquireUser, AcquireLock, Critical,
             Block, BlockRole, SweepList, SweepNext, SweepEnd
        <4>2. CASE Mark(t)
          BY <1>2, <4>2, MarkKeeps, InsertKeeps, MarkRevokeKeeps, MarkDeleteKeeps, ManualKeeps DEF Mark
        <4>3. CASE Edit(t)  BY <1>2, <4>3, EditKeeps
        <4>4. CASE Apply(t)  BY <1>2, <4>4, ApplyKeeps
        <4>5. CASE Settle(t)  BY <1>2, <4>5, FinishKeeps, FinishFailsKeeps, UndoKeeps DEF Settle
        <4>6. CASE Compensation(t)  BY <1>2, <4>6, CompensationKeeps
        <4> QED BY <3>1, <4>1, <4>2, <4>3, <4>4, <4>5, <4>6 DEF Run
      <3> QED BY <3>2, <3>3
    <2> QED BY <1>2, <2>1, <2>2, <2>3, UpStep
  <1>3. CASE Next /\ phase # "up"
    <2>1. CASE Crash  BY <2>1, CrashKeeps
    <2>2. CASE OperatorEdit  BY <1>3, <2>2, OperatorKeeps
    <2>3. CASE BootStep
      BY <1>3, <2>3, LookKeeps, BootSettleKeeps, BootEditKeeps, BootFailsKeeps, BootDoneKeeps
         DEF BootStep, Edit, Apply
    <2> QED BY <1>3, <2>1, <2>2, <2>3, DownStep
  <1> QED BY <1>1, <1>2, <1>3

\* No key exists, and the bot is down, in both.
LEMMA InitKeeps ==
  ASSUME Init
  PROVE  Promise!Init
  <1>1. \A k \in Keys : Life(k) = "none"  BY DEF Init, Life, Issuing
  <1>2. [k \in Keys |-> Life(k)] = [k \in Keys |-> "none"]  BY <1>1
  <1>3. {k \in Keys : InConf(k)} = {}  BY ConfigAssumption DEF Init, InConf, Down
  <1> QED BY <1>2, <1>3 DEF Init, Promise!Init

\* The service does to each key only what KeyLife allows, whatever raises, is killed, retried
\* or run beside it: a key whose deletion has begun, or whose revocation nobody can take back
\* any more, never becomes active again; a row comes to life only with its client in the file
\* and ends only without; each edit of the file, its rollback included, is about one key; and
\* no running bot locks out a key that its row calls active.
THEOREM LiveAsPromised == Spec => KeysLiveAsPromised
  <1>1. Init => Promise!Init  BY InitKeeps
  <1>2. Init => StartupInv /\ UserInv /\ FrozenInv /\ WorkInv
    BY ConfigAssumption, KeysAssumption DEF Init, StartupInv, DriftInv, RestoredInv, SettledInv, ForeignInv,
       InConf, Down, Stages, UserInv, FrozenInv, WorkInv, Marked, BootMarked, AddedInv, OneEditInv, Applying,
       Holding, Critical, Working, Procs
  <1>3. IndInv /\ StartupInv /\ UserInv /\ FrozenInv /\ WorkInv /\ [Next]_vars
          => StartupInv' /\ UserInv' /\ FrozenInv' /\ WorkInv'
    BY StartupStep, UserStep, FrozenStep, WorkStep
  <1>4. IndInv /\ StartupInv /\ UserInv /\ FrozenInv /\ WorkInv /\ [Next]_vars => [Promise!Next]_(Promise!vars)
    BY StepKeeps DEF Keeps
  <1> QED BY <1>1, <1>2, <1>3, <1>4, InitInd, NextInd, PTL DEF Spec, KeysLiveAsPromised, Promise!Spec
===============================================================================
