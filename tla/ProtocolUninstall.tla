-------------------------- MODULE ProtocolUninstall --------------------------
(***************************************************************************)
(* Switching a protocol off and removing it from the host:                 *)
(* services/protocol_modules.py, services/protocol_uninstall.py and the    *)
(* screens of bot/handlers/admin_modules.py, for one protocol.             *)
(*                                                                         *)
(* The host, its marker file and the root helper are external; they are    *)
(* modelled from how the service calls them.  A version number stands for  *)
(* the sha256 of the helper's plan: it changes when the host does.         *)
(***************************************************************************)
EXTENDS Naturals

CONSTANTS
    UKeys,        \* keys or accesses of the protocol
    MaxVersion,   \* bound: states of the host that plans tell apart
    MaxTrouble    \* bound: purges, helper calls and database writes that fail, crashes

ASSUME UninstallAssumption == MaxVersion \in Nat /\ MaxTrouble \in Nat

VARIABLES
    ukey,       \* ukey[k]: "none", "wanted" (a create is past the module check), "live",
                \* "stuck" (a *_failed row, perhaps still live on the backend) or "gone"
    enabled,    \* protocol_modules.enabled
    dbGone,     \* protocol_modules.uninstalled_at is set
    marker,     \* the marker file exists
    registry,   \* UninstallRegistry: the marker as this process last read it
    refusing,   \* BackendHealth.mark_uninstalled
    host,       \* "installed", "removed" or "broken" (a failed rollback, a killed helper)
    version,    \* what a plan of the host would hash to now
    shown,      \* the plan the administrator was last shown, 0 when none or expired
    utask,      \* the apply or disable that runs
    trouble,    \* failures so far
    confirmed   \* history: the version the administrator confirmed for this apply

uninstallVars == <<ukey, enabled, dbGone, marker, registry, refusing, host, version,
                   shown, utask, trouble, confirmed>>

UIdle == [what |-> "none", at |-> "idle", todo |-> {}, failed |-> FALSE, sha |-> 0, listed |-> {}]

UninstallTypeOK ==
    /\ ukey \in [UKeys -> {"none", "wanted", "live", "stuck", "gone"}]
    /\ {enabled, dbGone, marker, registry, refusing} \subseteq BOOLEAN
    /\ host \in {"installed", "removed", "broken"}
    /\ version \in 1..MaxVersion /\ shown \in 0..MaxVersion /\ confirmed \in 0..MaxVersion
    /\ DOMAIN utask = DOMAIN UIdle /\ utask.todo \subseteq UKeys
    /\ trouble \in 0..MaxTrouble

UninstallInit ==
    /\ ukey = [k \in UKeys |-> "none"]
    /\ enabled = TRUE /\ dbGone = FALSE /\ marker = FALSE /\ registry = FALSE /\ refusing = FALSE
    /\ host = "installed" /\ version = 1 /\ shown = 0
    /\ utask = UIdle /\ trouble = 0 /\ confirmed = 0

Trouble == trouble < MaxTrouble /\ trouble' = trouble + 1
Changed == version' \in {version, version + 1} \cap 1..MaxVersion

\* UninstallRegistry.refresh reads the marker directory again.
RefreshRegistry == registry' = marker

\* set_uninstalled: recorded as removed, and switched off
SetUninstalled == dbGone' = TRUE /\ enabled' = FALSE

-----------------------------------------------------------------------------
(* Keys of the protocol                                                    *)

\* is_enabled: removed from the host is off, whatever the table says
IsEnabled == enabled /\ ~registry

\* A create checks the module first and inserts some awaits later.
CreateChecks(k) ==
    /\ ukey[k] = "none" /\ IsEnabled /\ ~refusing
    /\ ukey' = [ukey EXCEPT ![k] = "wanted"]
    /\ UNCHANGED <<enabled, dbGone, marker, registry, refusing, host, version, shown, utask, trouble, confirmed>>

CreateLands(k) ==
    /\ ukey[k] = "wanted"
    /\ ukey' = [ukey EXCEPT ![k] = IF host = "installed" THEN "live" ELSE "gone"]
    /\ UNCHANGED <<enabled, dbGone, marker, registry, refusing, host, version, shown, utask, trouble, confirmed>>

-----------------------------------------------------------------------------
(* disable_protocol                                                        *)

RowsIn(s) == {k \in UKeys : ukey[k] \in s}

\* The ids are collected up front.
CollectIds(what, sha) ==
    utask' = [what |-> what, at |-> "purge", todo |-> RowsIn({"live", "stuck"}), failed |-> FALSE,
              sha |-> sha, listed |-> RowsIn({"live", "stuck"})]

DisableExec ==
    /\ utask = UIdle
    /\ CollectIds("disable", 0)
    /\ UNCHANGED <<ukey, enabled, dbGone, marker, registry, refusing, host, version, shown, trouble, confirmed>>

\* Mutant: a failed purge is only logged
PurgeKey_OnlyLogs(k) ==
    /\ utask.at = "purge" /\ k \in utask.todo
    /\ \/ ukey' = [ukey EXCEPT ![k] = "gone"] /\ UNCHANGED trouble
       \/ Trouble /\ ukey' = [ukey EXCEPT ![k] = "stuck"]
    /\ utask' = [utask EXCEPT !.todo = @ \ {k}]
    /\ Changed
    /\ UNCHANGED <<enabled, dbGone, marker, registry, refusing, host, shown, confirmed>>

\* One purger call per record: the backend artefact and the row go, or the row stays in
\* a *_failed state.  Taking a client off the backend may change what the plan covers.
PurgeKey(k) ==
    /\ utask.at = "purge" /\ k \in utask.todo
    /\ \/ /\ ukey' = [ukey EXCEPT ![k] = "gone"] /\ UNCHANGED trouble
          /\ utask' = [utask EXCEPT !.todo = @ \ {k}]
       \/ /\ Trouble /\ ukey' = [ukey EXCEPT ![k] = "stuck"]
          /\ utask' = [utask EXCEPT !.todo = @ \ {k}, !.failed = TRUE]
    /\ Changed
    /\ UNCHANGED <<enabled, dbGone, marker, registry, refusing, host, shown, confirmed>>

\* The module is switched off after the purge; an uninstall goes on only if every
\* record went.
SwitchOff ==
    /\ utask.at = "purge" /\ utask.todo = {}
    /\ enabled' = FALSE
    /\ utask' = IF utask.what = "uninstall" /\ ~utask.failed THEN [utask EXCEPT !.at = "helper"] ELSE UIdle
    /\ UNCHANGED <<ukey, dbGone, marker, registry, refusing, host, version, shown, trouble, confirmed>>

\* A protocol removed from the host cannot be switched on.
EnableProtocol ==
    /\ ~registry
    /\ enabled' = TRUE
    /\ UNCHANGED <<ukey, dbGone, marker, registry, refusing, host, version, shown, utask, trouble, confirmed>>

-----------------------------------------------------------------------------
(* plan and apply                                                          *)

PlanUninstall ==
    /\ shown' = version
    /\ UNCHANGED <<ukey, enabled, dbGone, marker, registry, refusing, host, version, utask, trouble, confirmed>>

\* PLAN_TTL_SECONDS
PlanExpires ==
    /\ shown # 0 /\ shown' = 0
    /\ UNCHANGED <<ukey, enabled, dbGone, marker, registry, refusing, host, version, utask, trouble, confirmed>>

\* resolve_sha: the button must belong to the plan shown last, and that is still valid.
ResolveSha(button) == shown # 0 /\ shown = button

\* Mutant: the helper is told to remove whatever it plans now
ApplyUninstall_NoReplan(button) ==
    /\ utask = UIdle /\ ~marker
    /\ confirmed' = button
    /\ CollectIds("uninstall", version) /\ UNCHANGED shown
    /\ UNCHANGED <<ukey, enabled, dbGone, marker, registry, refusing, host, version, trouble>>

\* apply: the host must still be the one the administrator confirmed, or a new plan is
\* shown.  A second apply is turned away while the lock is held.
ApplyUninstall(button) ==
    /\ utask = UIdle /\ ~marker
    /\ confirmed' = button
    /\ IF button = version
       THEN CollectIds("uninstall", button) /\ UNCHANGED shown
       ELSE shown' = version /\ UNCHANGED utask
    /\ UNCHANGED <<ukey, enabled, dbGone, marker, registry, refusing, host, version, trouble>>

\* admin_module_uninstall_exec
PressUninstall(button) == ResolveSha(button) /\ ApplyUninstall(button)

\* nothing_to_do: only the markers are read again (reconcile_markers)
NothingToDo ==
    /\ utask = UIdle /\ shown # 0 /\ marker
    /\ RefreshRegistry /\ SetUninstalled /\ refusing' = TRUE
    /\ UNCHANGED <<ukey, marker, host, version, shown, utask, trouble, confirmed>>

\* The helper refuses a plan that no longer fits: a new one must be confirmed.
HelperPlanChanged ==
    /\ utask.at = "helper" /\ utask.sha # version
    /\ shown' = version /\ utask' = UIdle
    /\ UNCHANGED <<ukey, enabled, dbGone, marker, registry, refusing, host, version, trouble, confirmed>>

\* It backs up, removes, and writes the marker last.
HelperRemoves ==
    /\ utask.at = "helper" /\ utask.sha = version
    /\ host' = "removed" /\ marker' = TRUE
    /\ utask' = [utask EXCEPT !.at = "record"] /\ shown' = 0
    /\ UNCHANGED <<ukey, enabled, dbGone, registry, refusing, version, trouble, confirmed>>

\* It fails and rolls itself back, or the rollback fails too.
HelperFails ==
    /\ utask.at = "helper" /\ utask.sha = version /\ Trouble
    /\ host' \in {"installed", "broken"}
    /\ utask' = UIdle /\ shown' = 0
    /\ UNCHANGED <<ukey, enabled, dbGone, marker, registry, refusing, version, confirmed>>

\* The runner gives up; the helper was killed half-way or had just finished.
HelperTimesOut ==
    /\ utask.at = "helper" /\ utask.sha = version /\ Trouble
    /\ \/ host' = "broken" /\ UNCHANGED marker
       \/ host' = "removed" /\ marker' = TRUE
    /\ utask' = UIdle
    /\ UNCHANGED <<ukey, enabled, dbGone, registry, refusing, version, shown, confirmed>>

\* registry.refresh, set_uninstalled, mark_uninstalled; the write may raise, and then
\* the backend is not marked.
RecordUninstalled ==
    /\ utask.at = "record"
    /\ RefreshRegistry
    /\ \/ SetUninstalled /\ refusing' = TRUE /\ UNCHANGED trouble
       \/ Trouble /\ UNCHANGED <<dbGone, enabled, refusing>>
    /\ utask' = UIdle
    /\ UNCHANGED <<ukey, marker, host, version, shown, confirmed>>

-----------------------------------------------------------------------------
(* The host and the process                                                *)

HostChanges ==
    /\ version < MaxVersion /\ version' = version + 1
    /\ UNCHANGED <<ukey, enabled, dbGone, marker, registry, refusing, host, shown, utask, trouble, confirmed>>

\* The operator installs the protocol again by hand, which removes the marker.
Reinstall ==
    /\ host \in {"removed", "broken"} /\ utask = UIdle
    /\ host' = "installed" /\ marker' = FALSE
    /\ UNCHANGED <<ukey, enabled, dbGone, registry, refusing, version, shown, utask, trouble, confirmed>>

\* The process dies and starts again: reconcile_markers makes the table follow the
\* markers; clearing the flag leaves the module switched off.
RestartReconcile ==
    /\ Trouble
    /\ RefreshRegistry /\ refusing' = marker
    /\ dbGone' = marker /\ enabled' = (enabled /\ ~marker)
    /\ utask' = UIdle /\ shown' = 0
    /\ ukey' = [k \in UKeys |-> IF ukey[k] = "wanted" THEN "gone" ELSE ukey[k]]
    /\ UNCHANGED <<marker, host, version, confirmed>>

UninstallNext ==
    \/ \E k \in UKeys : CreateChecks(k) \/ CreateLands(k) \/ PurgeKey(k)
    \/ DisableExec \/ SwitchOff \/ EnableProtocol
    \/ PlanUninstall \/ PlanExpires \/ NothingToDo
    \/ \E button \in 1..MaxVersion : PressUninstall(button)
    \/ HelperPlanChanged \/ HelperRemoves \/ HelperFails \/ HelperTimesOut \/ RecordUninstalled
    \/ HostChanges \/ Reinstall \/ RestartReconcile

UninstallSpec == UninstallInit /\ [][UninstallNext]_uninstallVars

-----------------------------------------------------------------------------
(* Properties                                                              *)

\* "any purge failure stops here: the backend is NOT removed while clients may still be
\* live on it": once the helper may run, every client the purge listed is off the backend.
PurgedBeforeRemoval ==
    utask.at \in {"helper", "record"} => \A k \in utask.listed : ukey[k] = "gone"

\* What is removed is what the administrator confirmed: the plan behind the button, of
\* the host as it is when the helper starts, however often the host changed meanwhile.
OnlyConfirmedPlanRuns == [][host' = "removed" /\ host # "removed" => version = confirmed]_uninstallVars

=============================================================================
