------------------------------- MODULE XrayKeys -------------------------------
(***************************************************************************)
(* The life of Xray keys: services/xray.py on top of the vpn_keys table    *)
(* (repositories/vpn_keys.py), the configuration adapter (XrayConfig),     *)
(* the per-user lock, the degraded flag of services/backend_health.py and  *)
(* the two flows of services/users.py that change who may hold a key.      *)
(*                                                                         *)
(* A task is one Telegram update or background job.  It advances one await *)
(* at a time; every database write, config edit and apply may raise; the   *)
(* process may die after any step.  Startup reconciliation is the task     *)
(* Boot: it runs before polling starts, so alone.                          *)
(***************************************************************************)
EXTENDS XrayConfig

CONSTANTS
    Tasks,       \* concurrent updates and jobs
    Users,       \* owners of keys
    Owner,       \* Owner[k]: who key k is issued to
    OperatorEdits,  \* may the operator edit config.json by hand?
    CrossEdits,  \* may such an edit put a key's client in the other inbound?
    Boot,        \* the startup task
    NoTask, NoKey

ASSUME KeysAssumption ==
    /\ Users # {}
    /\ Owner \in [Keys -> Users]
    /\ OperatorEdits \in BOOLEAN
    /\ CrossEdits \in BOOLEAN
    /\ Boot \notin Tasks
    /\ NoTask \notin Tasks \cup {Boot}
    /\ NoKey \notin Clients

VARIABLES
    status,    \* status[k]: the row of key k; "absent" before INSERT, "gone" after DELETE
    role,      \* role[u] of each owner
    degraded,  \* BackendHealth marks Xray degraded
    xlock,     \* holder of XrayService._lock
    ulock,     \* ulock[u]: holder of the user lock of u
    pc, job,   \* where each task is, and its local variables
    phase,     \* "down", a stage of startup_reconcile, or "up"
    failed,    \* startup_reconcile counted a failed key
    tampered,  \* history: the file was edited by hand since the last clean boot
    swept      \* history: swept[u]: u was blocked with no revoke error, and still is

serviceVars == <<status, role, degraded, xlock, ulock, pc, job, phase, failed>>
historyVars == <<tampered, swept>>
vars == <<configVars, serviceVars, historyVars>>

Procs == Tasks \cup {Boot}
Roles == {"pending", "approved", "blocked"}

Statuses == {"absent", "pending_apply", "active", "apply_failed", "pending_revoke",
             "revoked", "pending_delete", "delete_failed", "gone"}

\* Mutant: a failed apply is taken to leave no client behind
MayExist_NoApplyFailed == {"active", "pending_apply", "pending_revoke", "pending_delete", "delete_failed"}

\* XRAY_ACCESS_MAY_EXIST_STATUSES
MayExist == {"active", "pending_apply", "apply_failed", "pending_revoke",
             "pending_delete", "delete_failed"}

\* XRAY_STARTUP_RECONCILE_STATUSES
Unsettled == MayExist \ {"active"}

Rows == Statuses \ {"absent", "gone"}

Edits == {"create", "revoke", "block", "delete", "restore", "strip", "short_id"}
Ops == Edits \cup {"none", "reconcile"}
Stages == {"reconcile", "nonlive", "tcp", "http", "restore"}

PCs == {"idle", "user", "block", "sweep", "lock", "mark", "insert", "edit", "apply", "finish",
        "undo", "comp", "comp_apply", "comp_status"}

\* Local variables of a task.  todo, done and bad belong to the two loops: the
\* revocation sweep of block_user and the scans of startup_reconcile.
Jobs == [op : Ops, key : Clients \cup {NoKey}, user : Users, guest : BOOLEAN,
         prev : Statuses, ins : BOOLEAN, todo : SUBSET Clients, done : SUBSET Keys, bad : SUBSET Keys]

AnyUser == CHOOSE u \in Users : TRUE

Job(op, user, guest, key, todo) ==
    [op |-> op, key |-> key, user |-> user, guest |-> guest,
     prev |-> "absent", ins |-> FALSE, todo |-> todo, done |-> {}, bad |-> {}]

NoJob == Job("none", AnyUser, FALSE, NoKey, {})

TypeOK ==
    /\ ConfigTypeOK
    /\ status \in [Keys -> Statuses]
    /\ role \in [Users -> Roles]
    /\ degraded \in BOOLEAN
    /\ xlock \in Procs \cup {NoTask}
    /\ ulock \in [Users -> Tasks \cup {NoTask}]
    /\ pc \in [Procs -> PCs]
    /\ job \in [Procs -> Jobs]
    /\ phase \in Stages \cup {"down", "up"}
    /\ failed \in BOOLEAN
    /\ tampered \in BOOLEAN
    /\ swept \in [Users -> BOOLEAN]

Init ==
    /\ conf = Down /\ live = Down /\ sids = {}
    /\ saved = [conf |-> Down, sids |-> {}]
    /\ status = [k \in Keys |-> "absent"]
    /\ role = [u \in Users |-> "pending"]
    /\ degraded = FALSE
    /\ xlock = NoTask
    /\ ulock = [u \in Users |-> NoTask]
    /\ pc = [t \in Procs |-> "idle"]
    /\ job = [t \in Procs |-> NoJob]
    /\ phase = "down"
    /\ failed = FALSE
    /\ tampered = FALSE
    /\ swept = [u \in Users |-> FALSE]

-----------------------------------------------------------------------------
(* Helpers of the service.                                                 *)

Goto(t, label) == pc' = [pc EXCEPT ![t] = label]

\* The inbound whose adapter the task uses: the key's own, except that the orphan scan
\* removes a client without a row from the inbound it scans.
Inbound(t) ==
    IF phase \in Inbounds /\ status[job[t].key] \notin Rows THEN phase ELSE Transport[job[t].key]

\* _ensure_can_create: an administrator may issue to a guest who is not blocked
CanCreate(t) ==
    \/ role[job[t].user] = "approved"
    \/ job[t].guest /\ role[job[t].user] # "blocked"

\* count_active_managed_short_id, the key itself excluded
SidUsed(k) == \E j \in Keys \ {k} : status[j] \in MayExist /\ Sid[j] = Sid[k]

\* _can_remove_short_id: the managed short id goes when no other row still uses it.
\* A client whose key has no row is removed without touching the short ids.
Droppable(k) == IF k \in Keys /\ status[k] \in Rows /\ ~SidUsed(k) THEN ManagedSid(k) ELSE {}

\* mark_active: UPDATE ... WHERE status IN (pending_apply, apply_failed)
MarkActive(s) == IF s \in {"pending_apply", "apply_failed"} THEN "active" ELSE s

\* The task leaves the service lock.  A sweep goes on with its next key, noting how
\* this one went; every other task returns to its caller and drops its user lock.
Return(t, ok) ==
    LET k == job[t].key IN
    /\ xlock' = NoTask
    /\ IF job[t].op = "block"
       THEN /\ Goto(t, "sweep")
            /\ job' = [job EXCEPT ![t].key = NoKey, ![t].prev = "absent",
                                  ![t].done = @ \cup {j \in {k} : ok},
                                  ![t].bad = @ \cup {j \in {k} : ~ok}]
            /\ ulock' = ulock
       ELSE /\ Goto(t, "idle")
            /\ job' = [job EXCEPT ![t] = NoJob]
            /\ ulock' = [u \in Users |-> IF ulock[u] = t THEN NoTask ELSE ulock[u]]

-----------------------------------------------------------------------------
(* Callers.                                                                *)

Idle(t) == phase = "up" /\ pc[t] = "idle"

\* The checks before the lock are made on the caller's first step; the mutation guard
\* is repeated under the lock.
Start(t, label, j) ==
    /\ Idle(t)
    /\ Goto(t, label)
    /\ job' = [job EXCEPT ![t] = j]
    /\ UNCHANGED <<configVars, status, role, degraded, xlock, ulock, phase, failed, historyVars>>

StartCreate(t) == \E u \in Users, g \in BOOLEAN :
    /\ ~degraded
    /\ \E k \in Keys : status[k] = "absent" /\ Owner[k] = u
    /\ Start(t, "user", Job("create", u, g, NoKey, {}))

\* A revoke (by owner, administrator, expiry or anomaly job), a delete, a manual reconcile
StartManage(t) == \E k \in Keys, op \in {"revoke", "delete", "reconcile"} :
    /\ ~degraded
    /\ status[k] \in Rows
    /\ Start(t, "lock", Job(op, AnyUser, FALSE, k, {}))

StartBlock(t) == \E u \in Users :
    Start(t, "user", Job("block", u, FALSE, NoKey, {}))

\* The repository's set_role.  None of its callers below takes the user lock.
RoleWrite(u, r) ==
    /\ phase = "up"
    /\ role' = [role EXCEPT ![u] = r]
    /\ swept' = [swept EXCEPT ![u] = FALSE]
    /\ UNCHANGED <<configVars, status, degraded, xlock, ulock, pc, job, phase, failed, tampered>>

SetRole == \E u \in Users, r \in {"approved", "pending"} : RoleWrite(u, r)

\* unblock_user does not look at the role it replaces.
UnblockUser == \E u \in Users : RoleWrite(u, "approved")

\* approve_access_request_user; a request filed after the block lifts it
ApproveUser == \E u \in Users : role[u] \in {"pending", "blocked"} /\ RoleWrite(u, "approved")

-----------------------------------------------------------------------------
(* Locks.                                                                  *)

\* Mutant: a create only checks the roles and does not hold the user lock
AcquireUser_CreateUnlocked(t) ==
    LET u == job[t].user IN
    /\ pc[t] = "user"
    /\ IF job[t].op = "create"
       THEN CanCreate(t) /\ Goto(t, "lock") /\ ulock' = ulock
       ELSE ulock[u] = NoTask /\ Goto(t, "block") /\ ulock' = [ulock EXCEPT ![u] = t]
    /\ UNCHANGED <<configVars, status, role, degraded, xlock, job, phase, failed, historyVars>>

\* create_xray_key checks the roles as soon as it holds the user lock.
AcquireUser(t) ==
    LET u == job[t].user IN
    /\ pc[t] = "user"
    /\ ulock[u] = NoTask
    /\ IF job[t].op = "create" /\ ~CanCreate(t)
       THEN /\ Goto(t, "idle")
            /\ job' = [job EXCEPT ![t] = NoJob]
            /\ ulock' = ulock
       ELSE /\ Goto(t, IF job[t].op = "create" THEN "lock" ELSE "block")
            /\ ulock' = [ulock EXCEPT ![u] = t]
            /\ job' = job
    /\ UNCHANGED <<configVars, status, role, degraded, xlock, phase, failed, historyVars>>

AcquireLock(t) ==
    /\ pc[t] = "lock"
    /\ xlock = NoTask
    /\ xlock' = t
    /\ Goto(t, "mark")
    /\ UNCHANGED <<configVars, status, role, degraded, ulock, job, phase, failed, historyVars>>

-----------------------------------------------------------------------------
(* Under the lock: the row is marked, then the backend is edited, then the *)
(* row is settled.                                                         *)

\* The operation is refused, or its first database write raises.
MarkRefused(t) ==
    /\ pc[t] \in {"mark", "insert"}
    /\ Return(t, FALSE)
    /\ UNCHANGED <<configVars, status, role, degraded, phase, failed, historyVars>>

\* create_xray_key repeats both checks under the lock.
MarkCreate(t) ==
    /\ pc[t] = "mark" /\ job[t].op = "create"
    /\ ~degraded
    /\ CanCreate(t)
    /\ Goto(t, "insert")
    /\ UNCHANGED <<configVars, status, role, degraded, xlock, ulock, job, phase, failed, historyVars>>

\* create_pending inserts the row; the database picks the id.
Insert(t) ==
    /\ pc[t] = "insert"
    /\ \E k \in Keys :
         /\ status[k] = "absent" /\ Owner[k] = job[t].user
         /\ status' = [status EXCEPT ![k] = "pending_apply"]
         /\ job' = [job EXCEPT ![t].key = k]
    /\ Goto(t, "edit")
    /\ UNCHANGED <<configVars, role, degraded, xlock, ulock, phase, failed, historyVars>>

MarkRevoke(t) ==
    LET k == job[t].key IN
    /\ pc[t] = "mark" /\ job[t].op \in {"revoke", "block"}
    /\ ~degraded
    /\ status[k] \in MayExist
    /\ status' = [status EXCEPT ![k] = "pending_revoke"]
    /\ job' = [job EXCEPT ![t].prev = status[k]]
    /\ Goto(t, "edit")
    /\ UNCHANGED <<configVars, role, degraded, xlock, ulock, phase, failed, historyVars>>

\* Revoking what is already revoked succeeds without doing anything.
AlreadyRevoked(t) ==
    /\ pc[t] = "mark" /\ job[t].op \in {"revoke", "block"}
    /\ ~degraded
    /\ status[job[t].key] = "revoked"
    /\ Return(t, TRUE)
    /\ UNCHANGED <<configVars, status, role, degraded, phase, failed, historyVars>>

\* A key that cannot have a client any more skips the backend.
MarkDelete(t) ==
    LET k == job[t].key IN
    /\ pc[t] = "mark" /\ job[t].op = "delete"
    /\ ~degraded
    /\ status[k] \in Rows
    /\ status' = [status EXCEPT ![k] = "pending_delete"]
    /\ job' = [job EXCEPT ![t].prev = status[k]]
    /\ Goto(t, IF status[k] \in MayExist THEN "edit" ELSE "finish")
    /\ UNCHANGED <<configVars, role, degraded, xlock, ulock, phase, failed, historyVars>>

\* What the file says about a key that may have been applied
Settled(k) ==
    IF status[k] \in {"pending_apply", "apply_failed"}
    THEN IF InConf(k) THEN MarkActive(status[k]) ELSE "apply_failed"
    ELSE status[k]

\* reconcile_key_status does not look at the degraded flag again under the lock.
ManualReconcile(t) ==
    LET k == job[t].key IN
    /\ pc[t] = "mark" /\ job[t].op = "reconcile"
    /\ status' = [status EXCEPT ![k] = Settled(k)]
    /\ Return(t, TRUE)
    /\ UNCHANGED <<configVars, role, degraded, phase, failed, historyVars>>

\* The adapter refuses (the current file or the candidate fails xray -test, the file
\* changed meanwhile, the client exists already) or the last role check of a create does.
EditRefused(t) ==
    /\ pc[t] = "edit"
    /\ Goto(t, "undo")
    /\ UNCHANGED <<configVars, status, role, degraded, xlock, ulock, job, phase, failed, historyVars>>

\* add_client also reports whether it inserted the short id.
EditAdd(t) ==
    LET k == job[t].key IN
    /\ pc[t] = "edit" /\ job[t].op \in {"create", "restore"}
    /\ job[t].op = "create" => CanCreate(t)
    /\ AddClient(k)
    /\ job' = [job EXCEPT ![t].ins = ~(ManagedSid(k) \subseteq sids)]
    /\ Goto(t, "apply")
    /\ UNCHANGED <<status, role, degraded, xlock, ulock, phase, failed, historyVars>>

\* _remove_xray_access, and the removal of an orphan from the inbound it was found in
Removals == {"revoke", "block", "delete", "strip"}

EditRemove(t) ==
    /\ pc[t] = "edit" /\ job[t].op \in Removals
    /\ RemoveClient(job[t].key, Inbound(t), Droppable(job[t].key))
    /\ Goto(t, "apply")
    /\ UNCHANGED <<status, role, degraded, xlock, ulock, job, phase, failed, historyVars>>

\* remove_client finds nothing to change in the file: no write, no reload.
EditNothing(t) ==
    /\ pc[t] = "edit" /\ job[t].op \in Removals
    /\ ~RemovalChanges(job[t].key, Inbound(t), Droppable(job[t].key))
    /\ Goto(t, "finish")
    /\ UNCHANGED <<configVars, status, role, degraded, xlock, ulock, job, phase, failed, historyVars>>

EditShortId(t) ==
    /\ pc[t] = "edit" /\ job[t].op = "short_id"
    /\ EnsureShortId(job[t].key)
    /\ Goto(t, "apply")
    /\ UNCHANGED <<status, role, degraded, xlock, ulock, job, phase, failed, historyVars>>

ApplySucceeds(t) ==
    /\ pc[t] = "apply"
    /\ ApplyOk(Inbound(t))
    /\ Goto(t, "finish")
    /\ UNCHANGED <<status, role, degraded, xlock, ulock, job, phase, failed, historyVars>>

ApplyFails(t) ==
    /\ pc[t] = "apply"
    /\ ApplyFailed(Inbound(t))
    /\ Goto(t, "undo")
    /\ UNCHANGED <<status, role, degraded, xlock, ulock, job, phase, failed, historyVars>>

\* mark_active, mark_revoked, hard_delete_with_stats
FinalStatus(t) ==
    CASE job[t].op = "create" -> MarkActive(status[job[t].key])
      [] job[t].op \in {"revoke", "block"} -> "revoked"
      [] OTHER -> "gone"

Finish(t) ==
    /\ t \in Tasks /\ pc[t] = "finish"
    /\ status' = [status EXCEPT ![job[t].key] = FinalStatus(t)]
    /\ Return(t, TRUE)
    /\ UNCHANGED <<configVars, role, degraded, phase, failed, historyVars>>

\* The last write raises.  A create takes its client out again; the others leave the
\* row pending for the next startup.
FinishFails(t) ==
    /\ t \in Tasks /\ pc[t] = "finish"
    /\ IF job[t].op = "create"
       THEN Goto(t, "comp") /\ UNCHANGED <<xlock, ulock, job>>
       ELSE Return(t, FALSE)
    /\ UNCHANGED <<configVars, status, role, degraded, phase, failed, historyVars>>

\* Mutant: a delete that failed sets the row back, as a revocation does
UndoStatus_Restores(t) ==
    IF job[t].op = "create" THEN "apply_failed" ELSE job[t].prev

UndoStatus(t) ==
    CASE job[t].op = "create" -> "apply_failed"
      [] job[t].op = "delete" -> "delete_failed"
      [] OTHER -> job[t].prev

\* The write that records the failure may raise too: the row then stays pending.
Undo(t) ==
    LET k == job[t].key IN
    /\ t \in Tasks /\ pc[t] = "undo"
    /\ \/ status' = [status EXCEPT ![k] = UndoStatus(t)]
       \/ status' = status
    /\ Return(t, FALSE)
    /\ UNCHANGED <<configVars, role, degraded, phase, failed, historyVars>>

-----------------------------------------------------------------------------
(* _compensate_failed_create_after_apply                                   *)

\* Mutant: the compensation drops the short id whoever inserted it
CompDropped_Always(t) == ManagedSid(job[t].key)

\* The short id goes only if this create inserted it.
CompDropped(t) == IF job[t].ins THEN ManagedSid(job[t].key) ELSE {}

Compensate(t) ==
    /\ pc[t] = "comp"
    /\ RemoveClient(job[t].key, Inbound(t), CompDropped(t))
    /\ Goto(t, "comp_apply")
    /\ UNCHANGED <<status, role, degraded, xlock, ulock, job, phase, failed, historyVars>>

CompensateApplied(t) ==
    /\ pc[t] = "comp_apply"
    /\ ApplyOk(Inbound(t))
    /\ Goto(t, "comp_status")
    /\ UNCHANGED <<status, role, degraded, xlock, ulock, job, phase, failed, historyVars>>

\* The removal fails, at either step: Xray is marked degraded.
CompensateFails(t) ==
    /\ \/ pc[t] = "comp" /\ UNCHANGED configVars
       \/ pc[t] = "comp_apply" /\ ApplyFailed(Inbound(t))
    /\ degraded' = TRUE
    /\ Return(t, FALSE)
    /\ UNCHANGED <<status, role, phase, failed, historyVars>>

CompensateStatus(t) ==
    /\ pc[t] = "comp_status"
    /\ \/ status' = [status EXCEPT ![job[t].key] = "apply_failed"]
       \/ status' = status
    /\ Return(t, FALSE)
    /\ UNCHANGED <<configVars, role, degraded, phase, failed, historyVars>>

-----------------------------------------------------------------------------
(* block_user                                                              *)

\* The role is written first; if that write raises, nothing else happens.
BlockRole(t) ==
    LET u == job[t].user IN
    /\ pc[t] = "block"
    /\ \/ /\ role' = [role EXCEPT ![u] = "blocked"]
          /\ Goto(t, "sweep")
          /\ UNCHANGED <<ulock, job>>
       \/ /\ role' = role
          /\ Goto(t, "idle")
          /\ job' = [job EXCEPT ![t] = NoJob]
          /\ ulock' = [ulock EXCEPT ![u] = NoTask]
    /\ UNCHANGED <<configVars, status, degraded, xlock, phase, failed, historyVars>>

Listed(t) == {k \in Keys : Owner[k] = job[t].user /\ status[k] \in MayExist}
Tried(t) == job[t].done \cup job[t].bad

\* Lists the user's keys without the service lock, once the last list is worked off; keys
\* already tried are not retried.
SweepList(t) ==
    /\ pc[t] = "sweep" /\ job[t].todo \subseteq Tried(t)
    /\ ~(Listed(t) \subseteq Tried(t))
    /\ job' = [job EXCEPT ![t].todo = Listed(t)]
    /\ UNCHANGED <<configVars, status, role, degraded, xlock, ulock, pc, phase, failed, historyVars>>

\* Revokes one listed key; a degraded backend refuses before the lock.
SweepNext(t) == \E k \in job[t].todo \ Tried(t) :
    /\ pc[t] = "sweep"
    /\ IF degraded
       THEN /\ job' = [job EXCEPT ![t].bad = @ \cup {k}]
            /\ pc' = pc
       ELSE /\ job' = [job EXCEPT ![t].key = k]
            /\ Goto(t, "lock")
    /\ UNCHANGED <<configVars, status, role, degraded, xlock, ulock, phase, failed, historyVars>>

\* Mutant: the user lock is not released at the end of the sweep
SweepEnd_KeepsLock(t) ==
    /\ pc[t] = "sweep" /\ job[t].todo \subseteq Tried(t)
    /\ Listed(t) \subseteq Tried(t)
    /\ Goto(t, "idle")
    /\ job' = [job EXCEPT ![t] = NoJob]
    /\ UNCHANGED <<configVars, status, role, degraded, xlock, ulock, phase, failed, historyVars>>

\* The result carries the errors, and the keys that stayed listed although revoked.
SweepEnd(t) ==
    LET u == job[t].user IN
    /\ pc[t] = "sweep" /\ job[t].todo \subseteq Tried(t)
    /\ Listed(t) \subseteq Tried(t)
    /\ swept' = [swept EXCEPT ![u] = role[u] = "blocked" /\ job[t].bad = {}
                                     /\ Listed(t) \cap job[t].done = {}]
    /\ Goto(t, "idle")
    /\ job' = [job EXCEPT ![t] = NoJob]
    /\ ulock' = [ulock EXCEPT ![u] = NoTask]
    /\ UNCHANGED <<configVars, status, role, degraded, xlock, phase, failed, tampered>>

-----------------------------------------------------------------------------
(* The process dies, and starts again with startup_reconcile.              *)

\* Locks, tasks and the degraded flag are memory.  Xray keeps running, or the whole
\* host restarted and it read its file again.
Crash ==
    /\ phase # "down"
    /\ phase' = "down"
    /\ live' \in {live, conf}
    /\ saved' = [conf |-> conf, sids |-> sids]
    /\ degraded' = FALSE
    /\ xlock' = NoTask
    /\ ulock' = [u \in Users |-> NoTask]
    /\ pc' = [t \in Procs |-> "idle"]
    /\ job' = [t \in Procs |-> NoJob]
    /\ failed' = FALSE
    /\ UNCHANGED <<conf, sids, status, role, historyVars>>

\* The operator repairs, or damages, the file while the bot is stopped, and reloads Xray.
OperatorEdit ==
    /\ OperatorEdits
    /\ phase = "down"
    /\ tampered' = TRUE
    /\ \/ /\ \E c \in Clients, i \in Inbounds :
               /\ c \in Keys /\ ~CrossEdits => i = Transport[c]
               /\ conf' = [conf EXCEPT ![i] = IF c \in @ THEN @ \ {c} ELSE @ \cup {c}]
          /\ sids' = sids
       \/ conf' = conf /\ \E s \in sids : sids' = sids \ {s}
    /\ live' = conf'
    /\ saved' = [conf |-> conf', sids |-> sids']
    /\ UNCHANGED <<serviceVars, swept>>

\* Enters a stage with its work list.
Stage(s, work) ==
    /\ phase' = s
    /\ job' = [job EXCEPT ![Boot] = Job("none", AnyUser, FALSE, NoKey, work)]

BootStart ==
    /\ phase = "down"
    /\ Stage("reconcile", {k \in Keys : status[k] \in Unsettled})
    /\ xlock' = Boot
    /\ UNCHANGED <<configVars, status, role, degraded, ulock, pc, failed, historyVars>>

\* startup_reconcile returns; a failure degrades the backend (bot/app.py).
BootEnd(isDegraded) ==
    /\ phase' = "up"
    /\ degraded' = isDegraded
    /\ xlock' = NoTask
    /\ pc' = [pc EXCEPT ![Boot] = "idle"]
    /\ job' = [job EXCEPT ![Boot] = NoJob]
    /\ failed' = FALSE
    /\ tampered' = (tampered /\ isDegraded)
    /\ UNCHANGED <<status, role, ulock, swept>>

BootIdle(s) == phase = s /\ pc[Boot] = "idle"

\* The scan goes on to its next client.
Skip(c) == [job EXCEPT ![Boot].todo = @ \ {c}]

\* The boot task edits the config for one client.
BootEdit(op, c) ==
    /\ Goto(Boot, "edit")
    /\ job' = [job EXCEPT ![Boot] = Job(op, AnyUser, FALSE, c, @.todo \ {c})]
    /\ UNCHANGED <<configVars, status, role, degraded, xlock, ulock, phase, failed, historyVars>>

\* _startup_reconcile_key for pending_apply and apply_failed: the file decides
BootSettle == \E k \in job[Boot].todo :
    /\ BootIdle("reconcile")
    /\ status[k] \in {"pending_apply", "apply_failed"}
    /\ \/ status' = [status EXCEPT ![k] = Settled(k)] /\ failed' = failed
       \/ Settled(k) # status[k] /\ status' = status /\ failed' = TRUE
    /\ job' = Skip(k)
    /\ UNCHANGED <<configVars, role, degraded, xlock, ulock, pc, phase, historyVars>>

\* ... for pending_revoke, pending_delete and delete_failed: the removal is finished
BootResume == \E k \in job[Boot].todo :
    /\ BootIdle("reconcile")
    /\ status[k] \in {"pending_revoke", "pending_delete", "delete_failed"}
    /\ BootEdit(IF status[k] = "pending_revoke" THEN "revoke" ELSE "delete", k)

\* The work list without the key just handled
Rest == Job("none", AnyUser, FALSE, NoKey, job[Boot].todo)

BootFinish ==
    LET k == job[Boot].key IN
    /\ pc[Boot] = "finish"
    /\ IF phase = "reconcile"
       THEN \/ status' = [status EXCEPT ![k] = FinalStatus(Boot)] /\ failed' = failed
            \/ status' = status /\ failed' = TRUE
       ELSE UNCHANGED <<status, failed>>
    /\ Goto(Boot, "idle")
    /\ job' = [job EXCEPT ![Boot] = Rest]
    /\ UNCHANGED <<configVars, role, degraded, xlock, ulock, phase, historyVars>>

\* Mutant: a key that cannot be reconciled is tried again at once
BootUndo_Retries ==
    /\ pc[Boot] = "undo"
    /\ phase = "reconcile"
    /\ Goto(Boot, "idle")
    /\ job' = [job EXCEPT ![Boot] = Job("none", AnyUser, FALSE, NoKey, @.todo \cup {@.key})]
    /\ UNCHANGED <<configVars, status, role, degraded, xlock, ulock, phase, failed, historyVars>>

\* While keys are reconciled a failure is counted and the loop goes on; during the
\* drift scans it ends startup_reconcile.
BootUndo ==
    LET k == job[Boot].key IN
    /\ pc[Boot] = "undo"
    /\ phase = "reconcile"
    /\ \/ job[Boot].op = "delete" /\ status' = [status EXCEPT ![k] = "delete_failed"]
       \/ status' = status
    /\ failed' = TRUE
    /\ Goto(Boot, "idle")
    /\ job' = [job EXCEPT ![Boot] = Rest]
    /\ UNCHANGED <<configVars, role, degraded, xlock, ulock, phase, historyVars>>

BootDriftFails ==
    /\ pc[Boot] = "undo"
    /\ phase # "reconcile"
    /\ BootEnd(TRUE)
    /\ UNCHANGED configVars

\* The drift scans run only if every key was reconciled.
BootReconciled ==
    /\ BootIdle("reconcile") /\ job[Boot].todo = {}
    /\ IF failed
       THEN BootEnd(TRUE)
       ELSE /\ Stage("nonlive", {k \in Keys : status[k] \in Rows \ {"active"}})
            /\ UNCHANGED <<status, role, degraded, xlock, ulock, pc, failed, historyVars>>
    /\ UNCHANGED configVars

\* _remove_non_live_xray_clients
BootNonLive == \E k \in job[Boot].todo :
    /\ BootIdle("nonlive")
    /\ IF InConf(k)
       THEN BootEdit("strip", k)
       ELSE /\ job' = Skip(k)
            /\ UNCHANGED <<configVars, status, role, degraded, xlock, ulock, pc, phase, failed, historyVars>>

\* _remove_or_degrade_xray_orphans scans vless-in, then the XHTTP inbound.
BootScan ==
    /\ pc[Boot] = "idle" /\ job[Boot].todo = {}
    /\ \/ phase = "nonlive" /\ Stage("tcp", conf["tcp"])
       \/ phase = "tcp" /\ Stage("http", conf["http"])
       \/ phase = "http" /\ Stage("restore", {k \in Keys : status[k] = "active"})
    /\ UNCHANGED <<configVars, status, role, degraded, xlock, ulock, pc, failed, historyVars>>

\* A client of an active key stays.  One whose key has a row is removed by way of that
\* key, so from the key's inbound; one without a row from the inbound scanned.
BootOrphan == \E c \in job[Boot].todo \cap Keys :
    /\ phase \in Inbounds /\ pc[Boot] = "idle"
    /\ IF status[c] = "active"
       THEN /\ job' = Skip(c)
            /\ UNCHANGED <<configVars, status, role, degraded, xlock, ulock, pc, phase, failed, historyVars>>
       ELSE BootEdit("strip", c)

\* A read of the database or of the file raises, or the orphan scan meets a label the bot
\* does not recognise: startup_reconcile ends there.
BootStops ==
    /\ phase \in Stages /\ pc[Boot] = "idle"
    /\ BootEnd(TRUE)
    /\ UNCHANGED configVars

\* Mutant: a client that is present is taken to be complete
BootRestore_ClientOnly == \E k \in job[Boot].todo :
    /\ BootIdle("restore")
    /\ IF ~InConf(k)
       THEN BootEdit("restore", k)
       ELSE /\ job' = Skip(k)
            /\ UNCHANGED <<configVars, status, role, degraded, xlock, ulock, pc, phase, failed, historyVars>>

\* _restore_missing_active_xray_clients
BootRestore == \E k \in job[Boot].todo :
    /\ BootIdle("restore")
    /\ CASE ~InConf(k) -> BootEdit("restore", k)
         [] InConf(k) /\ ~(ManagedSid(k) \subseteq sids) -> BootEdit("short_id", k)
         [] OTHER ->
              /\ job' = Skip(k)
              /\ UNCHANGED <<configVars, status, role, degraded, xlock, ulock, pc, phase, failed, historyVars>>

BootDone ==
    /\ BootIdle("restore") /\ job[Boot].todo = {}
    /\ BootEnd(FALSE)
    /\ UNCHANGED configVars

-----------------------------------------------------------------------------
Call(t) == StartCreate(t) \/ StartManage(t) \/ StartBlock(t)

Lock(t) == AcquireUser(t) \/ AcquireLock(t)

Mark(t) == MarkRefused(t) \/ MarkCreate(t) \/ Insert(t) \/ MarkRevoke(t) \/ AlreadyRevoked(t)
              \/ MarkDelete(t) \/ ManualReconcile(t)

Edit(t) == EditRefused(t) \/ EditAdd(t) \/ EditRemove(t) \/ EditNothing(t) \/ EditShortId(t)

Apply(t) == ApplySucceeds(t) \/ ApplyFails(t)

Settle(t) == Finish(t) \/ FinishFails(t) \/ Undo(t)

Compensation(t) == Compensate(t) \/ CompensateApplied(t) \/ CompensateFails(t) \/ CompensateStatus(t)

Block(t) == BlockRole(t) \/ SweepList(t) \/ SweepNext(t) \/ SweepEnd(t)

\* The steps of a task that is not waiting for a lock
Run(t) == Mark(t) \/ Edit(t) \/ Apply(t) \/ Settle(t) \/ Compensation(t) \/ Block(t)

BootStep == \/ BootStart \/ BootSettle \/ BootResume \/ BootFinish \/ BootUndo \/ BootDriftFails
            \/ BootReconciled \/ BootNonLive \/ BootScan \/ BootOrphan \/ BootStops
            \/ BootRestore \/ BootDone \/ Edit(Boot) \/ Apply(Boot)

Next == \/ \E t \in Tasks : Call(t) \/ Lock(t) \/ Run(t)
        \/ BootStep
        \/ SetRole \/ UnblockUser \/ ApproveUser
        \/ Crash
        \/ OperatorEdit

\* The event loop runs every ready task; asyncio.Lock wakes its waiters in FIFO order, so
\* no waiter is passed over for ever; systemd restarts the bot.
Fairness ==
    /\ \A t \in Tasks : WF_vars(Run(t)) /\ SF_vars(AcquireUser(t)) /\ SF_vars(AcquireLock(t))
    /\ WF_vars(BootStep)

Spec == Init /\ [][Next]_vars

FairSpec == Spec /\ Fairness

-----------------------------------------------------------------------------
(* Properties.                                                             *)

\* A key the database calls revoked or deleted (or has not issued yet) has no client in
\* config.json, whatever was interrupted or failed before: revoke_xray_key,
\* delete_xray_key (which trusts this when it skips the backend for a revoked key) and the
\* startup completion of both.  Hand edits are excused until a clean startup.
NoGhostClient ==
    ~tampered => \A k \in Keys : status[k] \in {"absent", "revoked", "gone"} => ~InConf(k)

\* A client in the file never loses its REALITY short id to the removal of another key or
\* to the compensation of a failed create (_can_remove_short_id, short_id_inserted).
ShortIdKept ==
    ~tampered => \A k \in Keys : InConf(k) => ManagedSid(k) \subseteq sids

\* Once block_user has reported no error, no key of the user is active or can become so at
\* a restart, and no client of the user is in the file, until somebody changes the role
\* again: no create that was under way, no failed or interrupted operation brings one back.
BlockedStaysOut ==
    \A k \in Keys : swept[Owner[k]] =>
        /\ status[k] \notin {"active", "pending_apply", "apply_failed"}
        /\ tampered \/ ~InConf(k)

\* While Xray is degraded the running bot changes neither the file nor the running Xray,
\* whoever had passed the first check of the flag before it was set.
DegradedFreezesConfig ==
    [][degraded /\ phase = "up" /\ phase' = "up" => UNCHANGED <<conf, sids, live>>]_vars

Exact == /\ \A i \in Inbounds : conf[i] = {k \in Keys : status[k] = "active" /\ Transport[k] = i}
         /\ \A k \in Keys : status[k] = "active" => ManagedSid(k) \subseteq sids
         /\ \A k \in Keys : status[k] \notin Unsettled \ {"apply_failed"}

\* A startup that ends without marking Xray degraded leaves each inbound of the file with
\* the clients of exactly the active keys, and no key half-way.
CleanStartIsExact ==
    [][phase = "restore" /\ phase' = "up" /\ ~degraded' => Exact']_vars

\* What the docstring of revoke_xray_key says: a revoked key's client is gone from the
\* running Xray, not only from its file.
RevokedNotServed ==
    \A k \in Keys : status[k] \in {"revoked", "gone"} => k \notin live[Transport[k]]

\* Every call comes back, whatever raises on its way: no lock is left behind and no order
\* of taking the user lock and the service lock makes tasks wait for each other.
CallsReturn ==
    \A t \in Tasks : pc[t] # "idle" ~> pc[t] = "idle"

\* Unless the process keeps dying, startup_reconcile ends and the bot comes up.
StartupEnds ==
    (<>[][phase' # "down"]_phase) => []<>(phase = "up")

\* A task can still put the row of k back to what it was, a status of `from'.
CanGiveBack(k, from) ==
    \E t \in Tasks : /\ pc[t] \in {"edit", "apply", "undo"} /\ job[t].op \in {"revoke", "block"}
                     /\ job[t].key = k /\ job[t].prev \in from

Issuing == {"pending_apply", "apply_failed"}

\* The life of k, as KeyLife has it
Life(k) ==
    CASE status[k] = "absent" -> "none"
      [] status[k] \in Issuing -> "issuing"
      [] status[k] \in {"active", "revoked", "gone"} -> status[k]
      [] status[k] = "pending_revoke" /\ CanGiveBack(k, {"active"}) -> "closing"
      [] status[k] = "pending_revoke" /\ CanGiveBack(k, Issuing) -> "cancelling"
      [] OTHER -> "doomed"

\* The service keeps the promise of KeyLife.
Promise == INSTANCE KeyLife WITH
    life <- [k \in Keys |-> Life(k)], inside <- {k \in Keys : InConf(k)},
    serving <- phase = "up", frozen <- degraded, trusted <- ~tampered

KeysLiveAsPromised == Promise!Spec

-----------------------------------------------------------------------------
(* The inductive invariant behind NoGhostClient.                           *)

Critical == {"mark", "insert", "edit", "apply", "finish", "undo", "comp", "comp_apply", "comp_status"}
Applying == {"apply", "comp_apply"}
Working == Critical \ {"mark", "insert"}
Dead == {"absent", "revoked", "gone"}

\* Who holds the service lock, and that startup runs alone
LockInv ==
    /\ \A t \in Tasks : pc[t] \in Critical => xlock = t
    /\ \A t \in Tasks : phase # "up" => pc[t] = "idle"
    /\ phase \in Stages \/ pc[Boot] = "idle"

\* The local variables of a task fit the place where it is.
TaskInv == \A t \in Tasks :
    /\ job[t].todo \subseteq Keys
    /\ pc[t] \in {"lock", "mark"} => job[t].op = "create" \/ job[t].key \in Keys
    /\ pc[t] = "insert" => job[t].op = "create"
    /\ pc[t] \in Working =>
         /\ job[t].key \in Keys
         /\ job[t].op \in {"create", "revoke", "block", "delete"}
         /\ status[job[t].key] \notin Dead
    /\ pc[t] \in {"comp", "comp_apply", "comp_status"} => job[t].op = "create"
    /\ pc[t] \in {"edit", "apply", "undo"} /\ job[t].op \in {"revoke", "block"} => job[t].prev \in MayExist
    /\ pc[t] = "user" => job[t].op \in {"create", "block"}
    /\ pc[t] \in {"block", "sweep"} => job[t].op = "block"

\* The same for the startup task
BootTaskInv ==
    /\ pc[Boot] \in {"idle", "edit", "apply", "finish", "undo"}
    /\ phase \in {"reconcile", "nonlive", "restore"} => job[Boot].todo \subseteq Keys
    /\ phase = "restore" => \A k \in job[Boot].todo : status[k] = "active"
    /\ pc[Boot] # "idle" =>
         /\ job[Boot].key \in Keys
         /\ CASE phase = "reconcile" -> job[Boot].op \in {"revoke", "delete"}
                                         /\ status[job[Boot].key] \notin Dead
              [] phase = "restore" -> job[Boot].op \in {"restore", "short_id"}
                                         /\ status[job[Boot].key] = "active"
              [] OTHER -> job[Boot].op = "strip"

\* Outside an apply there is no older file to fall back to.
SavedInv == (\A t \in Procs : pc[t] \notin Applying) => saved.conf = conf /\ saved.sids = sids

\* A removal reaches its last write with the client out of the file.
RemovedInv == \A t \in Procs :
    pc[t] \in {"apply", "finish"} /\ job[t].op \in {"revoke", "block", "delete"} /\ ~tampered
        => ~InConf(job[t].key)

\* No dead key in the file, nor in the backup a failing apply would restore
GhostInv == ~tampered =>
    \A k \in Keys : status[k] \in Dead =>
        k \notin conf[Transport[k]] /\ k \notin saved.conf[Transport[k]]

\* What the drift scans have not cleaned yet is still on their list.
Listing(k) == k \in job[Boot].todo \/ (pc[Boot] = "edit" /\ job[Boot].key = k)

ScanInv == \A k \in Keys :
    status[k] \in Dead /\ InConf(k) /\ pc[Boot] # "undo" =>
        \/ phase \in {"down", "up", "reconcile"}
        \/ phase = "nonlive" /\ (status[k] = "revoked" => Listing(k))
        \/ phase = "tcp" /\ status[k] # "revoked" /\ (Transport[k] = "tcp" => Listing(k))
        \/ phase = "http" /\ status[k] # "revoked" /\ Transport[k] = "http" /\ Listing(k)

IndInv == TypeOK /\ LockInv /\ TaskInv /\ BootTaskInv /\ SavedInv /\ RemovedInv /\ GhostInv /\ ScanInv
=============================================================================
