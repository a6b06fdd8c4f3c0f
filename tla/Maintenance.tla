----------------------------- MODULE Maintenance -----------------------------
(***************************************************************************)
(* Maintenance mode: the row of maintenance_settings, the copy of it that  *)
(* the request gate reads on every update (services/maintenance.py), the   *)
(* panel of the superadmins (bot/handlers/admin_maintenance.py), and the   *)
(* notice that every switch sends to all users, page by page, with no      *)
(* ledger (AnnouncementService.send_text_to_all).                          *)
(*                                                                         *)
(* Switches of two superadmins interleave at every await.  A read gives up *)
(* the database lock only when its result is assigned, so reading the row  *)
(* and replacing the copy is one step.                                     *)
(***************************************************************************)
EXTENDS Integers, FiniteSets

CONSTANTS
    Bosses,         \* superadmins, all in settings.admin_ids
    Readers,        \* telegram ids of the other users
    NoticePage,     \* batch_size of the broadcast
    MaxSwitches,    \* bound: switches
    MaxReaderChanges, \* bound: users approved or blocked
    MaxMtFaults,    \* bound: failing statements and sends
    MaxMtCrashes    \* bound: crashes

ASSUME MaintenanceAssumption ==
    /\ Readers \subseteq Nat \ {0} /\ IsFiniteSet(Readers)
    /\ NoticePage \in Nat \ {0} /\ MaxSwitches \in Nat

VARIABLES
    mrow,       \* the row
    mem,        \* MaintenanceService._state
    waiting,    \* superadmins in MaintenanceStates.waiting_message
    mtask,      \* the switch each superadmin has under way
    readers,   \* users that list_announcement_recipients_after may return
    inDialog,   \* users with a wizard open
    notices,    \* notices received, by user and switch
    switches, readerChanges, mtFaults, mtCrashes,
    staleCopy   \* history: the read after the last write failed

mtVars == <<mrow, mem, waiting, mtask, readers, inDialog, notices, switches, readerChanges,
            mtFaults, mtCrashes, staleCopy>>

Banners == {"default", "custom"}
State(on, banner) == [enabled |-> on, message |-> banner]
Disabled == State(FALSE, "default")
NoSwitch == [pc |-> "idle", want |-> Disabled, n |-> 0, seen |-> 0, page |-> {}, owed |-> {}]

MtTypeOK ==
    /\ {mrow, mem} \subseteq [enabled : BOOLEAN, message : Banners]
    /\ waiting \subseteq Bosses /\ readers \subseteq Readers /\ inDialog \subseteq Readers
    /\ \A b \in Bosses : mtask[b].pc \in {"idle", "write", "read", "page", "send", "sent"}
    /\ notices \in [Readers -> [1 .. MaxSwitches -> 0 .. MaxSwitches]]

MtInit ==
    /\ mrow \in {Disabled, State(TRUE, "default")} /\ mem = mrow
    /\ waiting = {} /\ mtask = [b \in Bosses |-> NoSwitch]
    /\ readers = Readers /\ inDialog = {}
    /\ notices = [u \in Readers |-> [n \in 1 .. MaxSwitches |-> 0]]
    /\ switches = 0 /\ readerChanges = 0 /\ mtFaults = 0 /\ mtCrashes = 0 /\ staleCopy = FALSE

Idle(b) == mtask[b].pc = "idle"
MayFail == mtFaults < MaxMtFaults
StepTo(b, pc) == mtask' = [mtask EXCEPT ![b].pc = pc]
Switch(b, want) ==
    /\ switches < MaxSwitches /\ switches' = switches + 1
    /\ mtask' = [mtask EXCEPT ![b] = [NoSwitch EXCEPT !.pc = "write", !.want = want, !.n = switches + 1]]
    /\ UNCHANGED <<mrow, mem, readers, inDialog, notices, readerChanges, mtFaults, mtCrashes, staleCopy>>

-----------------------------------------------------------------------------
(* The panel.  Its buttons stay in the chat: any of them may be pressed in  *)
(* any state of the mode.                                                   *)

\* admin_maintenance_panel, admin_maintenance_disable_confirm
OpenPanel(b) ==
    /\ Idle(b) /\ b \in waiting
    /\ waiting' = waiting \ {b}
    /\ UNCHANGED <<mrow, mem, mtask, readers, inDialog, notices, switches, readerChanges,
                   mtFaults, mtCrashes, staleCopy>>

\* admin_maintenance_enable_start
EnableStart(b) ==
    /\ Idle(b)
    /\ waiting' = waiting \cup {b}
    /\ UNCHANGED <<mrow, mem, mtask, readers, inDialog, notices, switches, readerChanges,
                   mtFaults, mtCrashes, staleCopy>>

\* admin_maintenance_enable_message: a message of blanks is no banner (enable strips it)
EnableMessage(b) == \E banner \in Banners :
    /\ Idle(b) /\ b \in waiting
    /\ waiting' = waiting \ {b}
    /\ Switch(b, State(TRUE, banner))

\* admin_maintenance_enable_default
EnableDefault(b) ==
    /\ Idle(b)
    /\ waiting' = waiting \ {b}
    /\ Switch(b, State(TRUE, "default"))

\* admin_maintenance_disable
DisableMode(b) ==
    /\ Idle(b)
    /\ waiting' = waiting \ {b}
    /\ Switch(b, Disabled)

-----------------------------------------------------------------------------
(* enable, disable *)

\* set_state and its commit; the handler shows an error when it raises
SetState(b, ok) ==
    /\ mtask[b].pc = "write" /\ (ok \/ MayFail)
    /\ mrow' = IF ok THEN mtask[b].want ELSE mrow
    /\ mtask' = [mtask EXCEPT ![b] = IF ok THEN [@ EXCEPT !.pc = "read"] ELSE NoSwitch]
    /\ mtFaults' = IF ok THEN mtFaults ELSE mtFaults + 1
    /\ UNCHANGED <<mem, waiting, readers, inDialog, notices, switches, readerChanges, mtCrashes, staleCopy>>

\* Mutant: the copy takes what this switch asked for
ReadBack_Own(b) == mtask[b].want

\* repo.get
ReadBack(b) == mrow

\* The copy is read back, and the broadcast begins; a read that raises ends the
\* handler with the new row in place and the old copy in the gate.
RefreshCopy(b, ok) ==
    /\ mtask[b].pc = "read" /\ (ok \/ MayFail)
    /\ mem' = IF ok THEN ReadBack(b) ELSE mem
    /\ staleCopy' = ~ok
    /\ mtask' = [mtask EXCEPT ![b] = IF ok THEN [@ EXCEPT !.pc = "page", !.owed = readers] ELSE NoSwitch]
    /\ mtFaults' = IF ok THEN mtFaults ELSE mtFaults + 1
    /\ UNCHANGED <<mrow, waiting, readers, inDialog, notices, switches, readerChanges, mtCrashes>>

-----------------------------------------------------------------------------
(* send_text_to_all *)

\* list_announcement_recipients_after: the next ids after the last one handled
FirstOf(S, n) == { u \in S : Cardinality({ v \in S : v < u }) < n }

NextPage(b) == FirstOf({ u \in readers : u > mtask[b].seen }, NoticePage)

\* A page of recipients; an empty one ends the broadcast.
TakePage(b) ==
    /\ mtask[b].pc = "page"
    /\ LET page == NextPage(b) IN
       mtask' = [mtask EXCEPT ![b].page = page, ![b].pc = IF page = {} THEN "sent" ELSE "send"]
    /\ UNCHANGED <<mrow, mem, waiting, readers, inDialog, notices, switches, readerChanges,
                   mtFaults, mtCrashes, staleCopy>>

\* _send_text, whose flood-control retries end with the message sent or given up:
\* a send that fails is only counted.
SendNotice(b, u, ok) ==
    LET rest == mtask[b].page \ {u}
    IN  /\ mtask[b].pc = "send" /\ (ok \/ MayFail)
        /\ u \in mtask[b].page /\ \A v \in mtask[b].page : u <= v
        /\ mtask' = [mtask EXCEPT ![b].seen = u, ![b].page = rest,
                                  ![b].owed = IF ok THEN @ ELSE @ \ {u},
                                  ![b].pc = IF rest = {} THEN "page" ELSE "send"]
        /\ notices' = IF ok THEN [notices EXCEPT ![u][mtask[b].n] = @ + 1] ELSE notices
        /\ mtFaults' = IF ok THEN mtFaults ELSE mtFaults + 1
        /\ UNCHANGED <<mrow, mem, waiting, readers, inDialog, switches, readerChanges, mtCrashes, staleCopy>>

\* The panel is drawn again from the copy.
SwitchDone(b) ==
    /\ mtask[b].pc = "sent"
    /\ mtask' = [mtask EXCEPT ![b] = NoSwitch]
    /\ UNCHANGED <<mrow, mem, waiting, readers, inDialog, notices, switches, readerChanges,
                   mtFaults, mtCrashes, staleCopy>>

-----------------------------------------------------------------------------
(* Users *)

\* A user is approved, or blocked or revoked: one that is not readers throughout a
\* broadcast is not owed its notice.
ReaderChanges(u) ==
    /\ readerChanges < MaxReaderChanges /\ readerChanges' = readerChanges + 1
    /\ readers' = IF u \in readers THEN readers \ {u} ELSE readers \cup {u}
    /\ mtask' = [b \in Bosses |-> [mtask[b] EXCEPT !.owed = @ \ {u}]]
    /\ UNCHANGED <<mrow, mem, waiting, inDialog, notices, switches, mtFaults, mtCrashes, staleCopy>>

\* MaintenanceModeMiddleware: an update passes, or is dropped with the wizard it was for
ReaderUpdate(u) ==
    /\ inDialog' = IF mem.enabled THEN inDialog \ {u} ELSE inDialog \cup {u}
    /\ UNCHANGED <<mrow, mem, waiting, mtask, readers, notices, switches, readerChanges,
                   mtFaults, mtCrashes, staleCopy>>

\* The process dies, and load() restores the copy; dialogs are kept in memory.
MtCrash ==
    /\ mtCrashes < MaxMtCrashes /\ mtCrashes' = mtCrashes + 1
    /\ mem' = mrow /\ staleCopy' = FALSE
    /\ waiting' = {} /\ inDialog' = {} /\ mtask' = [b \in Bosses |-> NoSwitch]
    /\ UNCHANGED <<mrow, readers, notices, switches, readerChanges, mtFaults>>

MtNext ==
    \/ \E b \in Bosses : \/ OpenPanel(b) \/ EnableStart(b) \/ EnableMessage(b) \/ EnableDefault(b)
                         \/ DisableMode(b) \/ TakePage(b) \/ SwitchDone(b)
                         \/ \E ok \in BOOLEAN : SetState(b, ok) \/ RefreshCopy(b, ok)
                                                    \/ \E u \in Readers : SendNotice(b, u, ok)
    \/ \E u \in Readers : ReaderChanges(u) \/ ReaderUpdate(u)
    \/ MtCrash

MtSpec == MtInit /\ [][MtNext]_mtVars

-----------------------------------------------------------------------------
(* Properties *)

\* "The persisted row is the source of truth": however the switches of two
\* superadmins and a crash interleave, the gate ends up with the row, unless the
\* read after the last write failed (MaintenanceService.enable, disable, load).
GateFollowsRow ==
    (\A b \in Bosses : mtask[b].pc \notin {"write", "read"}) /\ ~staleCopy => mem = mrow

\* A broadcast that ends has reached everyone who could be told throughout, and
\* nobody twice, whatever users come and go between its pages (send_text_to_all).
NoticesAreExact ==
    /\ \A u \in Readers, n \in 1 .. MaxSwitches : notices[u][n] <= 1
    /\ \A b \in Bosses : mtask[b].pc = "sent" =>
           \A u \in mtask[b].owed : notices[u][mtask[b].n] = 1

\* The switch does what the panel says it did.
MaintenanceHolds == GateFollowsRow /\ NoticesAreExact
=============================================================================
