----------------------------- MODULE ProxyAccess -----------------------------
(***************************************************************************)
(* SOCKS5 and MTProto accesses: services/socks5.py over the Linux users    *)
(* that Dante authenticates (adapters/dante_users.py), services/mtproto.py *)
(* over the secrets file of mtproxy (adapters/mtproxy.py), their rows in   *)
(* repositories/proxy_accesses.py and the proxy half of block_user.        *)
(*                                                                         *)
(* The two services share no state but the owner's lock, so a behaviour    *)
(* has one of them (ptype).  Every mutation runs under the service lock:   *)
(* at most one is under way (ptask), and the process may die inside it.    *)
(***************************************************************************)
EXTENDS Naturals, FiniteSets

CONSTANTS
    PIds,         \* identities of rows, naturals
    POwners,      \* users
    OwnerOf,      \* the user an identity is issued to
    MaxPFaults    \* bound: failed commands and writes, restarts

ASSUME ProxyAssumption ==
    PIds \subseteq Nat /\ OwnerOf \in [PIds -> POwners] /\ MaxPFaults \in Nat

VARIABLES
    ptype,      \* "socks5" or "mtproto"
    smode,      \* MTPROTO_MODE of this process: "managed" or "static"
    prow,       \* prow[a]: status column, "none" before the insert
    amode,      \* amode[a]: the mode an MTProto access was issued in
    linux,      \* linux[a]: "absent", "nopass", "open" or "locked"
    store,      \* secrets in managed-secrets.json
    served,     \* secrets the running mtproxy knows
    pblocked,   \* users with role blocked_user
    pdegraded,  \* BackendHealth of this backend
    ptask,      \* the mutation that holds the service lock
    sweep,      \* block_user under way: its user and the rows it is done with
    pphase,     \* "up", or "boot" while startup reconciliation runs
    todo,       \* rows it has still to look at
    pfaults

rowVars == <<prow, amode>>
hostVars == <<linux, store, served>>
proxyVars == <<ptype, smode, prow, amode, linux, store, served, pblocked, pdegraded,
               ptask, sweep, pphase, todo, pfaults>>

PIdle == [op |-> "none", a |-> 0, prev |-> "none"]
NoSweep == [on |-> FALSE, owner |-> CHOOSE o \in POwners : TRUE, done |-> {}]

ProxyInit ==
    /\ ptype \in {"socks5", "mtproto"}
    /\ smode \in (IF ptype = "socks5" THEN {"managed"} ELSE {"managed", "static"})
    /\ prow = [a \in PIds |-> "none"] /\ amode = [a \in PIds |-> "managed"]
    /\ linux = [a \in PIds |-> "absent"] /\ store = {} /\ served = {}
    /\ pblocked = {} /\ pdegraded = FALSE
    /\ ptask = PIdle /\ sweep = NoSweep /\ pphase = "up" /\ todo = {} /\ pfaults = 0

-----------------------------------------------------------------------------
(* Rows                                                                    *)

\* idx_proxy_accesses_one_live_per_user_type
Live == {"pending_apply", "active", "pending_revoke"}
IndexAllows(a, s) ==
    s \in Live => ~\E b \in PIds \ {a} : OwnerOf[b] = OwnerOf[a] /\ prow[b] \in Live

Off == {"none", "revoked", "inactive", "deleted"}
SetRow(a, s) == prow' = [prow EXCEPT ![a] = s]

\* What a revoke, and the sweep of a block, still has to take off the backend
MayExist == {"active", "pending_apply", "apply_failed", "pending_revoke", "revoke_failed",
             "pending_delete", "delete_failed"}
SocksReconcile == {"pending_apply", "apply_failed", "pending_revoke", "pending_delete", "delete_failed"}
MtReconcile == SocksReconcile \cup {"revoke_failed"}

ActiveManaged == {a \in PIds : prow[a] = "active" /\ amode[a] = "managed"}

PFault == pfaults < MaxPFaults /\ pfaults' = pfaults + 1
NoPFault == UNCHANGED pfaults

-----------------------------------------------------------------------------
(* DanteUserAdapter.  A command that is reported to fail may have worked.  *)

CreateUser(a) == linux' = [linux EXCEPT ![a] = "open"]
\* useradd and chpasswd are two commands
CreateUserFails(a) == \E u \in {"absent", "nopass", "open"} : linux' = [linux EXCEPT ![a] = u]
LockUser(a) == linux' = [linux EXCEPT ![a] = IF @ = "absent" THEN "absent" ELSE "locked"]
LockUserFails(a) == LockUser(a) \/ UNCHANGED linux
DeleteUser(a) == linux' = [linux EXCEPT ![a] = "absent"]
DeleteUserFails(a) == DeleteUser(a) \/ UNCHANGED linux

(* MtProxyAdapter.apply_managed_secrets: the whole list is written, then   *)
(* mtproxy is restarted; nothing is done when the file already says so.    *)

ApplySecrets(want) ==
    IF store = want THEN UNCHANGED <<store, served>> ELSE store' = want /\ served' = want

\* The older files are put back, or that fails too, or rollback is switched off; the
\* service runs with the old list, the new one, or not at all.
ApplySecretsFails(want) ==
    /\ store' \in {store, want}
    /\ served' \in {served, store, want, {}}

\* _desired_managed_secrets: the secrets of every active access, with one more, or less
Desired(extra, without) == (ActiveManaged \cup extra) \ without

-----------------------------------------------------------------------------
(* issue_socks5_proxy, issue_mtproto_proxy                                 *)

CanIssue(a) ==
    /\ pphase = "up" /\ ptask = PIdle /\ ~pdegraded
    /\ prow[a] = "none" /\ OwnerOf[a] \notin pblocked
    /\ ~(sweep.on /\ sweep.owner = OwnerOf[a])
    /\ ~\E b \in PIds : OwnerOf[b] = OwnerOf[a] /\ prow[b] = "active"

\* _issue_static: one secret for everybody, nothing to apply
IssueStatic(a) ==
    /\ ptype = "mtproto" /\ smode = "static" /\ CanIssue(a) /\ IndexAllows(a, "active")
    /\ SetRow(a, "active") /\ amode' = [amode EXCEPT ![a] = "static"]
    /\ UNCHANGED <<ptype, smode, hostVars, pblocked, pdegraded, ptask, sweep, pphase, todo, pfaults>>

IssueStart(a) ==
    /\ smode = "managed" /\ CanIssue(a) /\ IndexAllows(a, "pending_apply")
    /\ SetRow(a, "pending_apply") /\ ptask' = [op |-> "apply", a |-> a, prev |-> "none"]
    /\ UNCHANGED <<ptype, smode, amode, hostVars, pblocked, pdegraded, sweep, pphase, todo, pfaults>>

\* The row is marked apply_failed, unless that write raises too.
IssueApply ==
    LET a == ptask.a IN
    /\ ptask.op = "apply"
    /\ \/ /\ ptask' = [ptask EXCEPT !.op = "mark"] /\ NoPFault /\ UNCHANGED prow
          /\ IF ptype = "socks5" THEN CreateUser(a) /\ UNCHANGED <<store, served>>
             ELSE ApplySecrets(Desired({a}, {})) /\ UNCHANGED linux
       \/ /\ PFault /\ ptask' = PIdle
          /\ SetRow(a, "apply_failed") \/ UNCHANGED prow
          /\ IF ptype = "socks5" THEN CreateUserFails(a) /\ UNCHANGED <<store, served>>
             ELSE ApplySecretsFails(Desired({a}, {})) /\ UNCHANGED linux
    /\ UNCHANGED <<ptype, smode, amode, pblocked, pdegraded, sweep, pphase, todo>>

IssueMark ==
    /\ ptask.op = "mark"
    /\ \/ SetRow(ptask.a, "active") /\ ptask' = PIdle /\ NoPFault
       \/ PFault /\ ptask' = [ptask EXCEPT !.op = "compensate"] /\ UNCHANGED prow
    /\ UNCHANGED <<ptype, smode, amode, hostVars, pblocked, pdegraded, sweep, pphase, todo>>

\* _compensate_failed_create_after_apply of SOCKS5: delete the Linux user, or lock it
CompensateSocks ==
    LET a == ptask.a IN
    /\ ptask.op = "compensate" /\ ptype = "socks5"
    /\ \/ DeleteUser(a) /\ NoPFault /\ UNCHANGED pdegraded /\ (SetRow(a, "apply_failed") \/ UNCHANGED prow)
       \/ PFault /\ LockUser(a) /\ UNCHANGED pdegraded /\ (SetRow(a, "apply_failed") \/ UNCHANGED prow)
       \/ PFault /\ LockUserFails(a) /\ pdegraded' = TRUE /\ UNCHANGED prow
    /\ ptask' = PIdle
    /\ UNCHANGED <<ptype, smode, amode, store, served, pblocked, sweep, pphase, todo>>

\* _compensate_failed_managed_create_after_apply: the list without this secret
CompensateMtproto ==
    LET a == ptask.a IN
    /\ ptask.op = "compensate" /\ ptype = "mtproto"
    /\ \/ /\ ApplySecrets(Desired({}, {a})) /\ NoPFault /\ UNCHANGED pdegraded
          /\ SetRow(a, "apply_failed") \/ UNCHANGED prow
       \/ PFault /\ ApplySecretsFails(Desired({}, {a})) /\ pdegraded' = TRUE /\ UNCHANGED prow
    /\ ptask' = PIdle
    /\ UNCHANGED <<ptype, smode, amode, linux, pblocked, sweep, pphase, todo>>

-----------------------------------------------------------------------------
(* Revoking and deleting                                                   *)

\* A managed secret cannot be taken out by a process in static mode: it has no adapter.
CanRevoke(a) ==
    /\ ~pdegraded /\ IndexAllows(a, "pending_revoke")
    /\ ptype = "socks5" \/ (amode[a] = "managed" /\ smode = "managed")

RevokeBegin(a) ==
    /\ SetRow(a, "pending_revoke") /\ ptask' = [op |-> "revoke", a |-> a, prev |-> prow[a]]
    /\ UNCHANGED <<ptype, smode, amode, hostVars, pblocked, pdegraded, pphase, todo, pfaults>>

Revoke(a) ==
    /\ pphase = "up" /\ ptask = PIdle /\ prow[a] \notin Off /\ CanRevoke(a)
    /\ RevokeBegin(a) /\ UNCHANGED sweep

\* _deactivate_static: the row only; the shared secret goes on working
DeactivateStatic(a) ==
    /\ pphase = "up" /\ ptype = "mtproto" /\ amode[a] = "static" /\ prow[a] \notin Off /\ ~pdegraded
    /\ SetRow(a, "inactive")
    /\ UNCHANGED <<ptype, smode, amode, hostVars, pblocked, pdegraded, ptask, sweep, pphase, todo, pfaults>>

\* Mutant: a lock command that fails counts as done
RevokeSocks_Assumed ==
    LET a == ptask.a IN
    /\ ptask.op = "revoke" /\ ptype = "socks5"
    /\ \/ LockUser(a) /\ NoPFault
       \/ PFault /\ LockUserFails(a)
    /\ SetRow(a, "revoked") /\ ptask' = PIdle
    /\ UNCHANGED <<ptype, smode, amode, store, served, pblocked, pdegraded, sweep, pphase, todo>>

\* lock_user; a failure restores the earlier status.  mark_revoked may raise.
RevokeSocks ==
    LET a == ptask.a IN
    /\ ptask.op = "revoke" /\ ptype = "socks5"
    /\ \/ LockUser(a) /\ SetRow(a, "revoked") /\ NoPFault
       \/ PFault /\ LockUser(a) /\ UNCHANGED prow
       \/ PFault /\ LockUserFails(a) /\ SetRow(a, ptask.prev)
    /\ ptask' = PIdle
    /\ UNCHANGED <<ptype, smode, amode, store, served, pblocked, pdegraded, sweep, pphase, todo>>

\* _revoke_managed
RevokeMtproto ==
    LET a == ptask.a IN
    /\ ptask.op = "revoke" /\ ptype = "mtproto"
    /\ \/ ApplySecrets(Desired({}, {a})) /\ SetRow(a, "revoked") /\ NoPFault
       \/ PFault /\ ApplySecrets(Desired({}, {a})) /\ UNCHANGED prow
       \/ PFault /\ ApplySecretsFails(Desired({}, {a})) /\ SetRow(a, "revoke_failed")
    /\ ptask' = PIdle
    /\ UNCHANGED <<ptype, smode, amode, linux, pblocked, pdegraded, sweep, pphase, todo>>

DeleteSocksStart(a) ==
    /\ ptype = "socks5" /\ pphase = "up" /\ ptask = PIdle /\ ~pdegraded /\ prow[a] \notin {"none", "deleted"}
    /\ SetRow(a, "pending_delete") /\ ptask' = [op |-> "delete", a |-> a, prev |-> prow[a]]
    /\ UNCHANGED <<ptype, smode, amode, hostVars, pblocked, pdegraded, sweep, pphase, todo, pfaults>>

DeleteSocks ==
    LET a == ptask.a IN
    /\ ptask.op = "delete"
    /\ \/ DeleteUser(a) /\ SetRow(a, "deleted") /\ NoPFault
       \/ PFault /\ DeleteUser(a) /\ UNCHANGED prow
       \/ PFault /\ DeleteUserFails(a) /\ SetRow(a, "delete_failed")
    /\ ptask' = PIdle
    /\ UNCHANGED <<ptype, smode, amode, store, served, pblocked, pdegraded, sweep, pphase, todo>>

\* delete_mtproto_proxy: a revoke, and once the access is off a second critical section
DeleteMtproto(a) ==
    /\ ptype = "mtproto" /\ pphase = "up" /\ ptask = PIdle /\ ~pdegraded
    /\ prow[a] \in {"revoked", "inactive"} /\ SetRow(a, "deleted")
    /\ UNCHANGED <<ptype, smode, amode, hostVars, pblocked, pdegraded, ptask, sweep, pphase, todo, pfaults>>

-----------------------------------------------------------------------------
(* block_user holds the owner's lock, which an issue takes as well, and    *)
(* revokes what it lists; a row that cannot be revoked is reported.        *)

Block(o) ==
    /\ pphase = "up" /\ ~sweep.on /\ o \notin pblocked
    /\ ~(ptask.op \in {"apply", "mark", "compensate"} /\ OwnerOf[ptask.a] = o)
    /\ pblocked' = pblocked \cup {o} /\ sweep' = [on |-> TRUE, owner |-> o, done |-> {}]
    /\ UNCHANGED <<ptype, smode, rowVars, hostVars, pdegraded, ptask, pphase, todo, pfaults>>

SweepRows == {a \in PIds : sweep.on /\ OwnerOf[a] = sweep.owner /\ prow[a] \in MayExist} \ sweep.done

SweepRevoke(a) ==
    /\ ptask = PIdle /\ a \in SweepRows
    /\ sweep' = [sweep EXCEPT !.done = @ \cup {a}]
    /\ \/ CanRevoke(a) /\ RevokeBegin(a)
       \/ /\ ~CanRevoke(a)
          /\ prow' = [prow EXCEPT ![a] = IF amode[a] = "static" /\ ~pdegraded THEN "inactive" ELSE @]
          /\ UNCHANGED <<ptype, smode, amode, hostVars, pblocked, pdegraded, ptask, pphase, todo, pfaults>>

SweepEnd ==
    /\ sweep.on /\ SweepRows = {} /\ ptask = PIdle
    /\ sweep' = NoSweep
    /\ UNCHANGED <<ptype, smode, rowVars, hostVars, pblocked, pdegraded, ptask, pphase, todo, pfaults>>

\* unblock_user, set_role
Unblock(o) ==
    /\ pphase = "up" /\ o \in pblocked /\ pblocked' = pblocked \ {o}
    /\ UNCHANGED <<ptype, smode, rowVars, hostVars, pdegraded, ptask, sweep, pphase, todo, pfaults>>

-----------------------------------------------------------------------------
(* Restart and startup reconciliation                                      *)

\* The process dies; what a command or an apply under way did stays.  The operator may
\* have changed MTPROTO_MODE.
ProxyRestart ==
    /\ pphase = "up" /\ PFault
    /\ smode' \in (IF ptype = "socks5" THEN {"managed"} ELSE {"managed", "static"})
    /\ IF ptype = "socks5" /\ ptask.op = "apply" THEN CreateUserFails(ptask.a) ELSE UNCHANGED linux
    /\ IF ptype = "mtproto" /\ ptask.op \in {"apply", "revoke"}
       THEN LET want == IF ptask.op = "apply" THEN Desired({ptask.a}, {}) ELSE Desired({}, {ptask.a})
            IN store' \in {store, want}
       ELSE UNCHANGED store
    /\ ptask' = PIdle /\ sweep' = NoSweep /\ pdegraded' = FALSE
    /\ pphase' = IF smode' = "managed" THEN "boot" ELSE "up"
    /\ todo' = {a \in PIds : smode' = "managed" /\ amode[a] = "managed"
                               /\ prow[a] \in (IF ptype = "socks5" THEN SocksReconcile ELSE MtReconcile)}
    /\ UNCHANGED <<ptype, prow, amode, served, pblocked>>

NextRow(a) == pphase = "boot" /\ a \in todo /\ \A b \in todo : a <= b

\* _startup_reconcile_access: each row on its own; a failure is counted and skipped
BootSocks(a) ==
    /\ ptype = "socks5" /\ NextRow(a) /\ todo' = todo \ {a}
    /\ \/ /\ prow[a] \in {"pending_apply", "apply_failed"} /\ UNCHANGED linux /\ NoPFault
          /\ \/ linux[a] # "absent" /\ IndexAllows(a, "active") /\ SetRow(a, "active")
             \/ linux[a] # "absent" /\ ~IndexAllows(a, "active") /\ UNCHANGED prow
             \/ linux[a] = "absent" /\ SetRow(a, "apply_failed")
       \/ prow[a] = "pending_revoke" /\ LockUser(a) /\ SetRow(a, "revoked") /\ NoPFault
       \/ prow[a] \in {"pending_delete", "delete_failed"} /\ DeleteUser(a) /\ SetRow(a, "deleted") /\ NoPFault
       \/ PFault /\ UNCHANGED <<prow, linux>>
    /\ UNCHANGED <<ptype, smode, amode, store, served, pblocked, pdegraded, ptask, sweep, pphase>>

BootSocksEnd ==
    /\ ptype = "socks5" /\ pphase = "boot" /\ todo = {} /\ pphase' = "up"
    /\ UNCHANGED <<ptype, smode, rowVars, hostVars, pblocked, pdegraded, ptask, sweep, todo, pfaults>>

\* Any exception ends the reconciliation of MTProto and degrades the backend.
BootFatal(want) ==
    /\ PFault /\ ApplySecretsFails(want) /\ UNCHANGED prow
    /\ pdegraded' = TRUE /\ pphase' = "up" /\ todo' = {}

\* _startup_reconcile_pending_apply, with its compensation when mark_active raises
BootMtproto(a) ==
    /\ ptype = "mtproto" /\ NextRow(a) /\ prow[a] = "pending_apply"
    /\ \/ a \in store /\ SetRow(a, "active") /\ NoPFault /\ UNCHANGED <<store, served, pdegraded>>
       \/ a \notin store /\ SetRow(a, "apply_failed") /\ NoPFault /\ UNCHANGED <<store, served, pdegraded>>
       \/ /\ a \in store /\ PFault
          /\ \/ /\ ApplySecrets(Desired({}, {a}))
                /\ (SetRow(a, "apply_failed") /\ UNCHANGED pdegraded) \/ (UNCHANGED prow /\ pdegraded' = TRUE)
             \/ ApplySecretsFails(Desired({}, {a})) /\ pdegraded' = TRUE /\ UNCHANGED prow
    /\ todo' = todo \ {a}
    /\ UNCHANGED <<ptype, smode, amode, linux, pblocked, ptask, sweep, pphase>>

\* _startup_complete_managed_removal; an apply_failed row is left as it is
BootMtprotoRemoval(a) ==
    /\ ptype = "mtproto" /\ NextRow(a) /\ prow[a] # "pending_apply"
    /\ \/ /\ prow[a] = "apply_failed" /\ NoPFault
          /\ todo' = todo \ {a} /\ UNCHANGED <<prow, store, served, pdegraded, pphase>>
       \/ /\ prow[a] \in {"pending_revoke", "revoke_failed"} /\ NoPFault
          /\ ApplySecrets(Desired({}, {})) /\ SetRow(a, "revoked")
          /\ todo' = todo \ {a} /\ UNCHANGED <<pdegraded, pphase>>
       \/ prow[a] \in {"pending_revoke", "revoke_failed"} /\ BootFatal(Desired({}, {}))
    /\ UNCHANGED <<ptype, smode, amode, linux, pblocked, ptask, sweep>>

\* Missing and orphaned secrets: the file is brought in line with the active rows.
BootDrift ==
    /\ ptype = "mtproto" /\ pphase = "boot" /\ todo = {}
    /\ \/ /\ ApplySecrets(Desired({}, {})) /\ pphase' = "up" /\ NoPFault
          /\ UNCHANGED <<prow, pdegraded, todo>>
       \/ store # Desired({}, {}) /\ BootFatal(Desired({}, {}))
    /\ UNCHANGED <<ptype, smode, amode, linux, pblocked, ptask, sweep>>

ProxyNext ==
    \/ \E a \in PIds :
        \/ IssueStatic(a) \/ IssueStart(a) \/ Revoke(a) \/ DeactivateStatic(a)
        \/ DeleteSocksStart(a) \/ DeleteMtproto(a) \/ SweepRevoke(a)
        \/ BootSocks(a) \/ BootMtproto(a) \/ BootMtprotoRemoval(a)
    \/ IssueApply \/ IssueMark \/ CompensateSocks \/ CompensateMtproto
    \/ RevokeSocks \/ RevokeMtproto \/ DeleteSocks
    \/ \E o \in POwners : Block(o) \/ Unblock(o)
    \/ SweepEnd \/ ProxyRestart \/ BootSocksEnd \/ BootDrift

ProxySpec == ProxyInit /\ [][ProxyNext]_proxyVars

-----------------------------------------------------------------------------
(* Properties                                                              *)

ProxyTypeOK ==
    /\ prow \in [PIds -> MayExist \cup Off] /\ amode \in [PIds -> {"managed", "static"}]
    /\ linux \in [PIds -> {"absent", "nopass", "open", "locked"}]
    /\ store \subseteq PIds /\ served \subseteq PIds /\ todo \subseteq PIds
    /\ pblocked \subseteq POwners /\ pfaults \in 0..MaxPFaults

\* A revoked or deleted access opens nothing: its Linux user cannot log in, or is gone,
\* and its secret is not in the file mtproxy starts from, whatever failed or crashed on
\* the way there and whatever startup made of it.
NoGhostProxy ==
    \A a \in PIds :
        /\ prow[a] \in {"revoked", "deleted"} => linux[a] # "open" /\ a \notin store
        /\ prow[a] = "deleted" => linux[a] = "absent"

\* An access the bot shows as active has its backend half: failed applies, rollbacks and
\* reconciliations of other accesses never take it away.
ActiveHasBackend ==
    \A a \in PIds : prow[a] = "active" /\ amode[a] = "managed" =>
        IF ptype = "socks5" THEN linux[a] # "absent" ELSE a \in store

\* The rows and the backend agree where it matters: nobody is let in whom the bot calls
\* revoked, and nobody is shut out whom it calls active (services/socks5.py, mtproto.py).
RowsMatchBackend == NoGhostProxy /\ ActiveHasBackend
=============================================================================
