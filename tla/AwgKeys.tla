-------------------------------- MODULE AwgKeys --------------------------------
(***************************************************************************)
(* The life of AmneziaWG keys: services/awg.py on top of the vpn_keys      *)
(* table, the adapter (AwgConfig) and the address allocator                *)
(* (adapters/ip_allocator.py).  Everything that writes runs under the      *)
(* service lock, so at most one call is under way; others have passed      *)
(* their first check and wait.  Startup reconciliation runs before polling *)
(* starts, so alone.  Every write, edit and apply may raise, and the       *)
(* process may die after any step.                                         *)
(***************************************************************************)
EXTENDS AwgConfig, FiniteSets

CONSTANTS
    PoolSize,     \* client addresses of AWG_NETWORK
    ForeignAddr,  \* ForeignAddr[f]: the address of a hand-made peer
    MaxWaiting,   \* bound: calls that wait at a time
    HandEdits,    \* may the operator edit or restore the file while the bot is down?
    Reuse,        \* may such an edit bring in an address that is in use?
    NoKey

ASSUME AwgKeysAssumption ==
    /\ PoolSize \in Nat
    /\ ForeignAddr \in [Foreign -> 1 .. PoolSize]
    /\ MaxWaiting \in Nat
    /\ HandEdits \in BOOLEAN
    /\ Reuse \in BOOLEAN
    /\ NoKey \notin Peers

VARIABLES
    status,    \* status[k]: the row of key k; "absent" before INSERT, "gone" after DELETE
    addr,      \* addr[k]: the address in the payload of k, 0 before INSERT
    held,      \* held[k]: column client_ip of k is not NULL
    degraded,  \* BackendHealth marks AWG degraded
    waiting,   \* calls that passed their first check and wait for AwgService._lock
    pc, op,    \* the call that has the lock: where it is, and its local variables
    phase,     \* "down", a stage of startup_reconcile, or "up"
    todo,      \* startup: what the stage has still to look at
    marked,    \* startup: the peer with a marker in the file, when the stage began
    failed,    \* startup: a key could not be reconciled
    tampered   \* history: the file was edited by hand since the last clean start

serviceVars == <<status, addr, held, degraded, waiting, pc, op, phase, todo, marked, failed>>
vars == <<configVars, serviceVars, tampered>>

Statuses == {"absent", "pending_apply", "active", "apply_failed", "pending_revoke",
             "revoked", "pending_delete", "delete_failed", "gone"}

\* AWG_ACCESS_MAY_EXIST_STATUSES, also the statuses that reserve an address
MayExist == {"active", "pending_apply", "apply_failed", "pending_revoke",
             "pending_delete", "delete_failed"}

\* AWG_STARTUP_RECONCILE_STATUSES
Unsettled == MayExist \ {"active"}

Rows == Statuses \ {"absent", "gone"}

Calls == {"create", "revoke", "delete", "reconcile"}
Kinds == {"none", "create", "comp", "revoke", "delete", "settle", "strip", "restore"}
PCs == {"idle", "edit", "apply", "finish", "undo", "comp_status"}
Scans == {"nonlive", "orphans", "restore", "runtime"}
Phases == {"down", "reconcile", "up"} \cup Scans

NoOp == [kind |-> "none", key |-> NoKey, prev |-> "absent"]

\* Every variable has its type, and every row ever inserted has an address of the pool.
TypeOK ==
    /\ ConfigOK
    /\ status \in [Keys -> Statuses]
    /\ addr \in [Keys -> 0 .. PoolSize]
    /\ \A k \in Keys : addr[k] = 0 <=> status[k] = "absent"
    /\ held \in [Keys -> BOOLEAN]
    /\ degraded \in BOOLEAN
    /\ waiting \in SUBSET (Calls \X (Keys \cup {NoKey}))
    /\ pc \in PCs
    /\ op \in [kind : Kinds, key : Peers \cup {NoKey}, prev : Statuses]
    /\ phase \in Phases
    /\ todo \in SUBSET Peers
    /\ marked \in Peers \cup {NoPeer}
    /\ failed \in BOOLEAN
    /\ tampered \in BOOLEAN

Init ==
    /\ ConfigInit
    /\ status = [k \in Keys |-> "absent"]
    /\ addr = [k \in Keys |-> 0]
    /\ held = [k \in Keys |-> FALSE]
    /\ degraded = FALSE
    /\ waiting = {}
    /\ pc = "idle" /\ op = NoOp
    /\ phase = "down"
    /\ todo = {} /\ marked = NoPeer /\ failed = FALSE
    /\ tampered = FALSE

-----------------------------------------------------------------------------
(* Rows, peers and addresses.                                              *)

Active == {k \in Keys : status[k] = "active"}
Dead == {k \in Keys : status[k] \in {"absent", "revoked", "gone"}}

Addr(p) == IF p \in Keys THEN addr[p] ELSE ForeignAddr[p]

\* find_peer(public_key, client_ip): either is enough
Found(k) == \E p \in conf.peers : p = k \/ Addr(p) = addr[k]

\* Mutant: only rows are asked which addresses are taken, and failed ones not
FreeAddrs_ActiveOnly ==
    {a \in 1 .. PoolSize : ~ \E k \in Active : held[k] /\ addr[k] = a}

\* next_free_ip: neither reserved by a row nor in the file
FreeAddrs ==
    {a \in 1 .. PoolSize :
        /\ ~ \E k \in Keys : status[k] \in MayExist /\ held[k] /\ addr[k] = a
        /\ ~ \E p \in conf.peers : Addr(p) = a}

\* mark_active only moves a row that is pending or failed.
MarkActive(k) ==
    status' = IF status[k] \in {"pending_apply", "apply_failed"}
              THEN [status EXCEPT ![k] = "active"] ELSE status

SetStatus(k, s) == status' = [status EXCEPT ![k] = s]

Idle == pc' = "idle" /\ op' = NoOp

-----------------------------------------------------------------------------
(* Calls.                                                                  *)

\* require_mutation_allowed, before the lock is asked for
Request(call, k) ==
    /\ phase = "up" /\ ~degraded
    /\ (call = "create") <=> (k = NoKey)
    /\ Cardinality(waiting) < MaxWaiting
    /\ waiting' = waiting \cup {<<call, k>>}
    /\ UNCHANGED <<configVars, status, addr, held, degraded, pc, op, phase, todo, marked,
                   failed, tampered>>

\* The call has the lock.
Served(call, k) ==
    /\ phase = "up" /\ pc = "idle"
    /\ <<call, k>> \in waiting
    /\ waiting' = waiting \ {<<call, k>>}
    /\ UNCHANGED <<degraded, phase, todo, marked, failed, tampered>>

\* It is refused, or finds nothing to do: AWG became degraded, a role changed, the row is
\* gone or revoked, the pool is empty, or a read or the first write raises.
Refuse(call, k) ==
    /\ Served(call, k)
    /\ UNCHANGED <<configVars, status, addr, held, pc, op>>

\* create_awg_key: the lowest free address is taken and the row inserted.
Create ==
    /\ Served("create", NoKey)
    /\ ~degraded
    /\ \E k \in Keys, a \in FreeAddrs :
        /\ status[k] = "absent"
        /\ \A b \in FreeAddrs : a <= b
        /\ SetStatus(k, "pending_apply")
        /\ addr' = [addr EXCEPT ![k] = a]
        /\ held' = [held EXCEPT ![k] = TRUE]
        /\ pc' = "edit" /\ op' = [kind |-> "create", key |-> k, prev |-> "absent"]
    /\ UNCHANGED configVars

\* revoke_awg_key, revoke_awg_key_system
Revoke(k) ==
    /\ Served("revoke", k)
    /\ ~degraded
    /\ status[k] \in MayExist
    /\ SetStatus(k, "pending_revoke")
    /\ pc' = "edit" /\ op' = [kind |-> "revoke", key |-> k, prev |-> status[k]]
    /\ UNCHANGED <<configVars, addr, held>>

\* delete_awg_key: a revoked key has no peer to remove.
Delete(k) ==
    /\ Served("delete", k)
    /\ ~degraded
    /\ status[k] \in Rows
    /\ SetStatus(k, "pending_delete")
    /\ pc' = IF status[k] \in MayExist THEN "edit" ELSE "finish"
    /\ op' = [kind |-> "delete", key |-> k, prev |-> status[k]]
    /\ UNCHANGED <<configVars, addr, held>>

\* reconcile_key_status: the row follows the file.
ManualReconcile(k) ==
    /\ Served("reconcile", k)
    /\ status[k] \in Rows
    /\ \/ k \in conf.peers /\ MarkActive(k)
       \/ /\ k \notin conf.peers /\ status[k] = "pending_apply"
          /\ SetStatus(k, "apply_failed")
    /\ UNCHANGED <<configVars, addr, held, pc, op>>

-----------------------------------------------------------------------------
(* The steps of a call, or of startup, that changes the backend.           *)

Adds == {"create", "restore"}
Counted == failed \/ phase = "reconcile"

\* startup_reconcile gives up, and its caller marks AWG degraded.
BootStops ==
    /\ phase' = "up" /\ degraded' = TRUE /\ todo' = {}
    /\ Idle
    /\ UNCHANGED <<status, addr, held, waiting, marked, failed, tampered>>

\* add_peer or remove_peer has raised.
Raise ==
    \/ /\ op.kind = "comp"
       /\ degraded' = TRUE
       /\ Idle
       /\ UNCHANGED <<status, addr, held, waiting, phase, todo, marked, failed, tampered>>
    \/ op.kind \in {"strip", "restore"} /\ BootStops
    \/ /\ op.kind \notin {"comp", "strip", "restore"}
       /\ pc' = "undo" /\ op' = op
       /\ UNCHANGED <<status, addr, held, degraded, waiting, phase, todo, marked, failed, tampered>>

\* The file is replaced.  A peer that is there already, by key or address, is refused.
EditOk ==
    /\ pc = "edit"
    /\ \/ op.kind \in Adds /\ ~Found(op.key) /\ WriteConf(With(conf, op.key))
       \/ op.kind \notin Adds /\ \E f \in Without(conf, op.key) : WriteConf(f)
    /\ pc' = "apply"
    /\ UNCHANGED <<status, addr, held, degraded, waiting, op, phase, todo, marked, failed, tampered>>

\* It is not: the file lock is busy, the interface is down, the file changed, the role of
\* the owner changed after the INSERT, or the candidate is not valid.
EditRaises ==
    /\ pc = "edit"
    /\ Raise
    /\ UNCHANGED configVars

\* Mutant: the removal changes only the file, not the running interface
ApplyOk_FileOnly ==
    /\ pc = "apply"
    /\ IF op.kind \in Adds THEN ApplyAdd(op.key) ELSE live' = live /\ saved' = conf /\ UNCHANGED <<conf, past>>
    /\ \/ op.kind \in {"strip", "restore"} /\ Idle
       \/ op.kind = "comp" /\ pc' = "comp_status" /\ op' = op
       \/ op.kind \in {"create", "revoke", "delete", "settle"} /\ pc' = "finish" /\ op' = op
    /\ UNCHANGED <<status, addr, held, degraded, waiting, phase, todo, marked, failed, tampered>>

ApplyOk ==
    /\ pc = "apply"
    /\ IF op.kind \in Adds THEN ApplyAdd(op.key) ELSE ApplyRemove(op.key)
    /\ \/ op.kind \in {"strip", "restore"} /\ Idle
       \/ op.kind = "comp" /\ pc' = "comp_status" /\ op' = op
       \/ op.kind \in {"create", "revoke", "delete", "settle"} /\ pc' = "finish" /\ op' = op
    /\ UNCHANGED <<status, addr, held, degraded, waiting, phase, todo, marked, failed, tampered>>

ApplyRaises ==
    /\ pc = "apply"
    /\ IF op.kind \in Adds THEN AddFails(op.key) ELSE RemoveFails(op.key)
    /\ Raise

\* The write that settles the row: mark_active, mark_revoked (which also clears client_ip),
\* hard_delete_with_stats, or set_status after a runtime orphan was removed
Finish ==
    /\ pc = "finish"
    /\ \/ op.kind = "create" /\ MarkActive(op.key) /\ held' = held
       \/ /\ op.kind = "revoke"
          /\ SetStatus(op.key, "revoked")
          /\ held' = [held EXCEPT ![op.key] = FALSE]
       \/ op.kind = "delete" /\ SetStatus(op.key, "gone") /\ held' = held
       \/ op.kind = "settle" /\ SetStatus(op.key, "apply_failed") /\ held' = held
    /\ Idle
    /\ UNCHANGED <<configVars, addr, degraded, waiting, phase, todo, marked, failed, tampered>>

\* Mutant: a write that raises after the removal is handled like a removal that failed
FinishRaises_Undoes ==
    /\ pc = "finish"
    /\ IF op.kind = "create"
       THEN pc' = "edit" /\ op' = [op EXCEPT !.kind = "comp"]
       ELSE pc' = "undo" /\ op' = op
    /\ failed' = Counted
    /\ UNCHANGED <<configVars, status, addr, held, degraded, waiting, phase, todo, marked, tampered>>

\* That write raises: a create takes its peer out again, anything else is left pending.
FinishRaises ==
    /\ pc = "finish"
    /\ IF op.kind = "create"
       THEN pc' = "edit" /\ op' = [op EXCEPT !.kind = "comp"]
       ELSE Idle
    /\ failed' = Counted
    /\ UNCHANGED <<configVars, status, addr, held, degraded, waiting, phase, todo, marked, tampered>>

UndoStatus ==
    IF op.kind = "create" THEN "apply_failed"
    ELSE IF op.kind = "delete" THEN "delete_failed" ELSE op.prev

\* After a failed edit the row is set back, unless that raises too.
Undo ==
    /\ pc = "undo"
    /\ SetStatus(op.key, UndoStatus) \/ status' = status
    /\ Idle
    /\ failed' = Counted
    /\ UNCHANGED <<configVars, addr, held, degraded, waiting, phase, todo, marked, tampered>>

\* The end of a compensation that worked
CompensateStatus ==
    /\ pc = "comp_status"
    /\ SetStatus(op.key, "apply_failed") \/ status' = status
    /\ Idle
    /\ UNCHANGED <<configVars, addr, held, degraded, waiting, phase, todo, marked, failed, tampered>>

-----------------------------------------------------------------------------
(* The process dies; the operator.                                         *)

\* The host may restart as well: then the interface is brought up from the file.
Crash ==
    /\ phase # "down"
    /\ phase' = "down" /\ degraded' = FALSE /\ waiting' = {} /\ todo' = {} /\ failed' = FALSE
    /\ Idle
    /\ live' \in {live, conf.peers} /\ saved' = conf
    /\ UNCHANGED <<conf, past>>
    /\ marked' = NoPeer
    /\ UNCHANGED <<status, addr, held, tampered>>

\* While the bot is down the operator removes a peer, adds one by hand, or brings back one
\* that was issued earlier, by restoring an older file.
OperatorEdit(p) ==
    /\ HandEdits /\ phase = "down"
    /\ \/ p \in conf.peers /\ conf' \in Without(conf, p)
       \/ /\ p \in (past \cup Foreign) \ conf.peers
          /\ Reuse \/ \A q \in Peers \ {p} : Addr(q) # Addr(p)
          /\ conf' = With(conf, p)
    /\ saved' = conf' /\ UNCHANGED <<live, past>>
    /\ tampered' = TRUE
    /\ UNCHANGED serviceVars

-----------------------------------------------------------------------------
(* Startup reconciliation.                                                 *)

\* The loop body for p begins: p is looked at once.
Look(stage, p) ==
    /\ phase = stage /\ pc = "idle" /\ p \in todo
    /\ todo' = todo \ {p}

Begin(kind, k) == pc' = "edit" /\ op' = [kind |-> kind, key |-> k, prev |-> status[k]]

BootStart ==
    /\ phase = "down"
    /\ phase' = "reconcile"
    /\ todo' = {k \in Keys : status[k] \in Unsettled}
    /\ UNCHANGED <<configVars, status, addr, held, degraded, waiting, pc, op, marked, failed, tampered>>

\* _startup_reconcile_key, a create that was cut short.  The interface is asked only if the
\* file has no peer, and an answer that fails counts as no.
BootSettle(k) ==
    /\ Look("reconcile", k)
    /\ status[k] \in {"pending_apply", "apply_failed"}
    /\ \/ Found(k) /\ MarkActive(k) /\ UNCHANGED <<pc, op, failed>>
       \/ ~Found(k) /\ k \in live /\ Begin("settle", k) /\ UNCHANGED <<status, failed>>
       \/ ~Found(k) /\ SetStatus(k, "apply_failed") /\ UNCHANGED <<pc, op, failed>>
       \/ failed' = TRUE /\ UNCHANGED <<status, pc, op>>
    /\ UNCHANGED <<configVars, addr, held, degraded, waiting, phase, marked, tampered>>

\* The same, a revoke or delete that was cut short
BootResume(k) ==
    /\ Look("reconcile", k)
    /\ \/ status[k] = "pending_revoke" /\ Begin("revoke", k)
       \/ status[k] \in {"pending_delete", "delete_failed"} /\ Begin("delete", k)
    /\ UNCHANGED <<configVars, status, addr, held, degraded, waiting, phase, marked, failed, tampered>>

\* A stage is over and the next one begins with what there is to look at.
NextStage(stage, next, items) ==
    /\ phase = stage /\ pc = "idle" /\ todo = {}
    /\ phase' = next /\ todo' = items
    /\ UNCHANGED <<configVars, status, addr, held, degraded, waiting, pc, op, failed>>

\* A key that could not be reconciled keeps the scans from running.
BootFailed ==
    /\ phase = "reconcile" /\ pc = "idle" /\ todo = {} /\ failed
    /\ BootStops
    /\ UNCHANGED configVars

\* A read of rows, file or interface raises.
BootReadRaises ==
    /\ phase \in Scans \cup {"reconcile"} /\ pc = "idle"
    /\ BootStops
    /\ UNCHANGED configVars

BootNonLiveStart ==
    /\ ~failed
    /\ NextStage("reconcile", "nonlive",
                 {k \in (conf.peers \cup live) \cap Keys : status[k] \in Rows \ {"active"}})
    /\ UNCHANGED <<marked, tampered>>

\* _remove_non_live_awg_peers
BootNonLive(k) ==
    /\ Look("nonlive", k)
    /\ Begin("strip", k)
    /\ UNCHANGED <<configVars, status, addr, held, degraded, waiting, phase, marked, failed, tampered>>

\* Mutant: the scan of the file stops at peers that have a row
BootOrphansStart_Rows ==
    /\ NextStage("nonlive", "orphans", {p \in conf.peers \cap Keys : status[p] \in Rows \ {"active"}})
    /\ marked' = Marked(conf)
    /\ tampered' = tampered

\* A peer with the key or the address of an active key is not an orphan.
BootOrphansStart ==
    /\ NextStage("nonlive", "orphans",
                 {p \in conf.peers : p \notin Active /\ \A k \in Active : addr[k] # Addr(p)})
    /\ marked' = Marked(conf)
    /\ tampered' = tampered

\* _find_awg_historical_owner: the row of the peer, or else the one that has its address
Historical(p) ==
    IF p \in Keys /\ status[p] \in Rows THEN {p}
    ELSE {k \in Keys : status[k] \in Rows /\ held[k] /\ addr[k] = Addr(p)}

\* _remove_or_degrade_awg_config_orphans: the row found is stripped of its own peer; a
\* peer without a row goes if the bot's marker was read.
BootOrphan(p) ==
    /\ Look("orphans", p)
    /\ \/ \E h \in Historical(p) : Begin("strip", h)
       \/ Historical(p) = {} /\ p \in Keys /\ p = marked
          /\ pc' = "edit" /\ op' = [kind |-> "strip", key |-> p, prev |-> "gone"]
    /\ UNCHANGED <<configVars, status, addr, held, degraded, waiting, phase, marked, failed, tampered>>

\* Any other peer is the operator's.
AmbiguousConf(p) ==
    /\ phase = "orphans" /\ pc = "idle" /\ p \in todo
    /\ Historical(p) = {} /\ ~(p \in Keys /\ p = marked)
    /\ BootStops
    /\ UNCHANGED configVars

BootRestoreStart ==
    /\ NextStage("orphans", "restore", {k \in Active : ~Found(k) \/ k \notin live})
    /\ UNCHANGED <<marked, tampered>>

\* _restore_or_sync_active_awg_peers: a peer missing in the file is added ...
BootRestore(k) ==
    /\ Look("restore", k)
    /\ ~Found(k)
    /\ Begin("restore", k)
    /\ UNCHANGED <<configVars, status, addr, held, degraded, waiting, phase, marked, failed, tampered>>

\* ... one missing in the interface only is synced, and must be there then.
BootSync(k) ==
    /\ Found(k)
    /\ \/ /\ Look("restore", k) /\ k \in conf.peers
          /\ SyncOk
          /\ UNCHANGED <<status, addr, held, degraded, waiting, pc, op, phase, marked, failed, tampered>>
       \/ /\ phase = "restore" /\ pc = "idle" /\ k \in todo
          /\ SyncOk \/ UNCHANGED configVars
          /\ BootStops

BootRuntimeStart ==
    /\ NextStage("restore", "runtime", live \ (Active \cup conf.peers))
    /\ UNCHANGED <<marked, tampered>>

\* _remove_or_degrade_awg_runtime_orphans: a peer that has a row is removed (BootNonLive has
\* left none), any other is the operator's.
RuntimeOrphan(p) ==
    /\ phase = "runtime" /\ pc = "idle" /\ p \in todo
    /\ IF p \in Keys /\ status[p] \in Rows
       THEN /\ Begin("strip", p)
            /\ todo' = todo \ {p}
            /\ UNCHANGED <<status, addr, held, degraded, waiting, phase, marked, failed, tampered>>
       ELSE BootStops
    /\ UNCHANGED configVars

BootDone ==
    /\ NextStage("runtime", "up", {})
    /\ marked' = marked
    /\ tampered' = FALSE

-----------------------------------------------------------------------------
Call == \/ \E call \in Calls, k \in Keys \cup {NoKey} : Request(call, k) \/ Refuse(call, k)
        \/ Create
        \/ \E k \in Keys : Revoke(k) \/ Delete(k) \/ ManualReconcile(k)

Step == \/ EditOk \/ EditRaises \/ ApplyOk \/ ApplyRaises
        \/ Finish \/ FinishRaises \/ Undo \/ CompensateStatus

Startup == \/ BootStart \/ BootFailed \/ BootReadRaises \/ BootNonLiveStart \/ BootOrphansStart
           \/ BootRestoreStart \/ BootRuntimeStart \/ BootDone
           \/ \E k \in Keys : \/ BootSettle(k) \/ BootResume(k) \/ BootNonLive(k)
                              \/ BootRestore(k) \/ BootSync(k)
           \/ \E p \in Peers : BootOrphan(p) \/ AmbiguousConf(p) \/ RuntimeOrphan(p)

Next == (Call \/ Step \/ Startup \/ Crash \/ \E p \in Peers : OperatorEdit(p)) /\ UNCHANGED helper

Spec == Init /\ [][Next]_vars

-----------------------------------------------------------------------------
(* Properties.                                                             *)

\* A key that is revoked, deleted or not issued has no peer, neither in the file nor in the
\* running interface, whatever failed before: remove_peer always acts on the interface too.
NoGhostPeer == ~tampered => \A k \in Dead : k \notin conf.peers \cup live

\* Two peers never have the same address, in the file, in the interface or across them,
\* although the addresses of revoked and deleted keys are handed out again.
AddressUnique ==
    ~tampered => \A p, q \in conf.peers \cup live : p # q => Addr(p) # Addr(q)

\* Startup ends clean: it does not give up, and no key failed.
CleanStart == phase # "up" /\ phase' = "up" /\ ~degraded'

\* startup_reconcile that ends clean leaves file and interface with the peers of exactly
\* the active keys, also after the file was edited by hand.
CleanStartIsExact ==
    [][CleanStart => conf'.peers = Active /\ live' = Active]_vars

\* While AWG is degraded no call touches the file or the interface: the check is
\* made again under the lock, for calls that waited while the flag was set.
DegradedFreezesPeers ==
    [][degraded /\ phase = "up" /\ phase' = "up" => UNCHANGED <<conf, live>>]_vars

\* What the operations guide says of DEGRADED: startup ends clean only if the rows and the
\* server agree, so no peer of a revoked or deleted key is left.
DeletedStaysOut ==
    [][CleanStart => (conf'.peers \cup live') \cap Dead = {}]_vars

\* The call that has the lock can still put the row of k back to what it was.
CanGiveBack(k, from) ==
    pc \in {"edit", "apply", "undo"} /\ op.kind = "revoke" /\ op.key = k /\ op.prev \in from

Issuing == {"pending_apply", "apply_failed"}

\* The life of k, as KeyLife has it
Life(k) ==
    CASE status[k] = "absent" -> "none"
      [] status[k] \in Issuing -> "issuing"
      [] status[k] \in {"active", "revoked", "gone"} -> status[k]
      [] status[k] = "pending_revoke" /\ CanGiveBack(k, {"active"}) -> "closing"
      [] status[k] = "pending_revoke" /\ CanGiveBack(k, Issuing) -> "cancelling"
      [] OTHER -> "doomed"

\* The service keeps the promise of KeyLife.
Promise == INSTANCE KeyLife WITH
    life <- [k \in Keys |-> Life(k)], inside <- conf.peers \cap Keys,
    serving <- phase = "up", frozen <- degraded, trusted <- ~tampered

KeysLiveAsPromised == Promise!Spec
=============================================================================
