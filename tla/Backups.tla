------------------------------ MODULE Backups ------------------------------
(***************************************************************************)
(* Encrypted offsite backups (services/offsite_backup.py): the scheduler   *)
(* loop, the "back up now" button, the three artifacts (database snapshot, *)
(* recovery bundle, system bundle) and the age limit of decrypt_backup.    *)
(*                                                                         *)
(* Two tasks send backups: "loop" is the scheduled job, "manual" the       *)
(* handler of the button.  They share nothing but the files, the meta row  *)
(* and the admins' chats.  A tick of the clock is long against an attempt, *)
(* so time only passes while both tasks wait.  A crash takes both tasks    *)
(* with it; the process is started again at once.                          *)
(***************************************************************************)
EXTENDS Integers, Sequences, FiniteSets, FiniteSetsExt, Functions

CONSTANTS
    Admins,          \* settings.admin_ids
    WalkSources,     \* the paths _walk_source yields, source after source; sources may overlap
    Links,           \* the walked paths that are symlinks
    Excluded,        \* the walked paths the exclusion policy matches
    RecoverySources, \* .env and the service configurations
    FirstSize, Sizes, \* the size of every file, and the sizes it may change to
    MaxFileBytes, MaxTotalBytes,
    Interval,        \* OFFSITE_BACKUP_INTERVAL
    StartDelay,      \* the 60 s before the first attempt
    MaxAge,          \* BACKUP_MAX_AGE_DAYS
    LastTime, MaxBackupFaults, MaxBackupCrashes, MaxFileChanges, MaxManual

\* The loop is started with a positive interval only; a whole interval is longer than
\* the start delay of a minute (its default is a week).
BackupsAssumption ==
    /\ Interval \in Nat \ {0} /\ StartDelay \in 0 .. Interval /\ MaxAge \in Nat
    /\ MaxFileBytes \in Nat /\ MaxTotalBytes \in Nat
    /\ FirstSize \in Nat /\ Sizes \subseteq Nat
    /\ WalkSources \in Seq(Range(WalkSources))
    /\ MaxBackupFaults \in Nat /\ MaxBackupCrashes \in Nat /\ MaxFileChanges \in Nat
ASSUME BackupsAssumption

VARIABLES
    time,      \* the wall clock
    sent,      \* the row last_offsite_backup of schema_meta
    mail,      \* [admin -> the creation time of the newest database backup received]
    size,      \* [path -> its size, or Gone when it cannot be read]
    job,       \* [task -> its record]
    faultsLeft, crashesLeft, changesLeft, manualLeft

backupVars == <<time, sent, mail, size, job,
                faultsLeft, crashesLeft, changesLeft, manualLeft>>

Never == -1
Gone == -1
BackupTasks == {"loop", "manual"}
Walked == Range(WalkSources)
Files == (Walked \ (Links \cup Excluded)) \cup RecoverySources

NoBuild == [todo |-> <<>>, seen |-> {}, manifest |-> {}, total |-> 0, truncated |-> FALSE]
Resting == [pc |-> "idle", wake |-> 0, kind |-> "db", left |-> {}, ok |-> 0,
            made |-> 0, build |-> NoBuild]
Starting == [Resting EXCEPT !.pc = "asleep", !.wake = time + StartDelay]

BackupsInit ==
    /\ time = 0 /\ sent = Never
    /\ mail = [a \in Admins |-> Never]
    /\ size = [p \in Files |-> FirstSize]
    /\ job = [t \in BackupTasks |-> IF t = "loop" THEN Starting ELSE Resting]
    /\ faultsLeft = MaxBackupFaults /\ crashesLeft = MaxBackupCrashes
    /\ changesLeft = MaxFileChanges /\ manualLeft = MaxManual

FaultHere == faultsLeft > 0 /\ faultsLeft' = faultsLeft - 1
NoFaultHere == UNCHANGED faultsLeft
Go(t, pc) == job' = [job EXCEPT ![t].pc = pc]

(***************************************************************************)
(* The scheduler.                                                          *)
(***************************************************************************)

\* The bug of a loop that waits a whole interval after every start.
Remaining_Whole == Interval

\* offsite_backup_loop: how long is left of the interval.
Remaining == Interval - (time - sent)

\* A sleep ends.  After the sleep of a whole interval the loop reads the stamp,
\* after the sleep of the remainder it sends.
LoopWakes ==
    /\ job["loop"].pc \in {"asleep", "napping"}
    /\ time >= job["loop"].wake
    /\ Go("loop", IF job["loop"].pc = "asleep" THEN "stamp" ELSE "snapshot")
    /\ UNCHANGED <<time, sent, mail, size, faultsLeft, crashesLeft, changesLeft, manualLeft>>

\* get_last_backup_time: a stamp that cannot be read counts as a first run.
ReadLastBackupTime ==
    /\ job["loop"].pc = "stamp"
    /\ \/ FaultHere /\ Go("loop", "snapshot")
       \/ NoFaultHere /\ (sent = Never \/ Remaining <= 0) /\ Go("loop", "snapshot")
       \/ /\ NoFaultHere /\ sent # Never /\ Remaining > 0
          /\ job' = [job EXCEPT !["loop"].pc = "napping", !["loop"].wake = time + Remaining]
    /\ UNCHANGED <<time, sent, mail, size, crashesLeft, changesLeft, manualLeft>>

\* admin_backup_now, once the superadmin has confirmed.
ManualBackup ==
    /\ manualLeft > 0 /\ job["manual"].pc = "idle"
    /\ manualLeft' = manualLeft - 1
    /\ Go("manual", "snapshot")
    /\ UNCHANGED <<time, sent, mail, size, faultsLeft, crashesLeft, changesLeft>>

(***************************************************************************)
(* The database backup.                                                    *)
(***************************************************************************)

Sending(t, kind) ==
    job' = [job EXCEPT ![t].pc = "send", ![t].kind = kind, ![t].left = Admins,
                       ![t].ok = 0, ![t].made = time]

\* _snapshot_db: the copy cannot be taken or does not pass quick_check.
SnapshotFails == FaultHere

\* create_encrypted_backup: a snapshot that fails its check is never sent.  The
\* loop goes on to the bundles, the handler reports the error and stops.
CreateEncryptedBackup(t) ==
    /\ job[t].pc = "snapshot"
    /\ \/ NoFaultHere /\ Sending(t, "db")
       \/ SnapshotFails /\ Go(t, IF t = "loop" THEN "recovery" ELSE "idle")
    /\ UNCHANGED <<time, sent, mail, size, crashesLeft, changesLeft, manualLeft>>

\* One send_document of send_to_admins, send_recovery_to_admins or
\* send_system_to_admins: a failed delivery is counted and the next admin tried.
SendDocument(t) ==
    /\ job[t].pc = "send"
    /\ \E a \in job[t].left :
         \/ /\ NoFaultHere
            /\ job' = [job EXCEPT ![t].left = @ \ {a}, ![t].ok = @ + 1]
            /\ mail' = IF job[t].kind = "db"
                       THEN [mail EXCEPT ![a] = Max({@, job[t].made})] ELSE mail
         \/ /\ FaultHere
            /\ job' = [job EXCEPT ![t].left = @ \ {a}]
            /\ UNCHANGED mail
    /\ UNCHANGED <<time, sent, size, crashesLeft, changesLeft, manualLeft>>

\* The loop stamps a delivery that reached somebody; the button stamps nothing.
MayRecord(t) == t = "loop" /\ job[t].ok > 0

\* send_to_admins has returned; record_backup_sent may fail on the database.
BackupDelivered(t) ==
    /\ job[t].pc = "send" /\ job[t].kind = "db" /\ job[t].left = {}
    /\ Go(t, "recovery")
    /\ \/ NoFaultHere /\ sent' = IF MayRecord(t) THEN time ELSE sent
       \/ MayRecord(t) /\ FaultHere /\ UNCHANGED sent
    /\ UNCHANGED <<time, mail, size, crashesLeft, changesLeft, manualLeft>>

(***************************************************************************)
(* The recovery bundle: the sources that can be read, or nothing.          *)
(***************************************************************************)

\* _build_recovery_tar: a source that cannot be read is left out.
RecoveryTar == {p \in RecoverySources : size[p] # Gone}

RecoveryBundle(t) ==
    /\ job[t].pc = "recovery"
    /\ IF RecoveryTar # {}
       THEN Sending(t, "recovery") ELSE Go(t, "system")
    /\ UNCHANGED <<time, sent, mail, size, faultsLeft, crashesLeft, changesLeft, manualLeft>>

RecoveryDelivered(t) ==
    /\ job[t].pc = "send" /\ job[t].kind = "recovery" /\ job[t].left = {}
    /\ Go(t, "system")
    /\ UNCHANGED <<time, sent, mail, size, faultsLeft, crashesLeft, changesLeft, manualLeft>>

(***************************************************************************)
(* The system bundle, built path by path in a worker thread while the      *)
(* files may change under it.                                              *)
(***************************************************************************)

\* _build_system_tar walks the sources one after another.
SystemBundle(t) ==
    /\ job[t].pc = "system"
    /\ job' = [job EXCEPT ![t].pc = "walk",
                          ![t].build = [NoBuild EXCEPT !.todo = WalkSources]]
    /\ UNCHANGED <<time, sent, mail, size, faultsLeft, crashesLeft, changesLeft, manualLeft>>

\* The entry is listed with its reason and the path left behind: only links and files
\* that were read are included, and a size limit truncates the bundle.
Listed(b, p, reason) ==
    [b EXCEPT !.todo = Tail(@), !.seen = @ \cup {p}, !.truncated = @ \/ reason = "size",
              !.manifest = @ \cup {[path |-> p, included |-> reason \in {"link", "file"},
                                    reason |-> reason]}]

\* The two size limits, on the size stat reports.
TooLarge(p) == size[p] > MaxFileBytes
NoRoom(b, p) == b.total + size[p] > MaxTotalBytes

\* _build_system_tar up to the read of the file: policy, link, stat, limits.
Verdict(b, p) ==
    IF p \in Excluded THEN "policy"
    ELSE IF p \in Links THEN "link"
    ELSE IF size[p] = Gone THEN "error"
    ELSE IF TooLarge(p) \/ NoRoom(b, p) THEN "size" ELSE "file"

\* One path: it is skipped when it was met before, listed, or read next.
WalkEntry(t) ==
    LET b == job[t].build
        p == Head(b.todo)
    IN
    /\ job[t].pc = "walk" /\ b.todo # <<>>
    /\ \/ /\ p \in b.seen
          /\ job' = [job EXCEPT ![t].build.todo = Tail(@)]
       \/ /\ p \notin b.seen /\ Verdict(b, p) # "file"
          /\ job' = [job EXCEPT ![t].build = Listed(b, p, Verdict(b, p))]
       \/ /\ p \notin b.seen /\ Verdict(b, p) = "file"
          /\ Go(t, "read")
    /\ UNCHANGED <<time, sent, mail, size, faultsLeft, crashesLeft, changesLeft, manualLeft>>

\* read_bytes: the file is what it is now, not what stat saw.
ReadEntry(t) ==
    LET b == job[t].build
        p == Head(b.todo)
    IN
    /\ job[t].pc = "read"
    /\ job' = [job EXCEPT
         ![t].pc = "walk",
         ![t].build = IF size[p] = Gone THEN Listed(b, p, "error")
                      ELSE [Listed(b, p, "file") EXCEPT !.total = @ + size[p]]]
    /\ UNCHANGED <<time, sent, mail, size, faultsLeft, crashesLeft, changesLeft, manualLeft>>

\* After the bundles the loop sleeps a whole interval.
AttemptOver(t) ==
    job' = [job EXCEPT ![t] = IF t = "loop"
              THEN [Resting EXCEPT !.pc = "asleep", !.wake = time + Interval] ELSE Resting]

\* A bundle without a single file is not sent.
SystemBuilt(t) ==
    /\ job[t].pc = "walk" /\ job[t].build.todo = <<>>
    /\ IF \E e \in job[t].build.manifest : e.reason = "file"
       THEN job' = [job EXCEPT ![t].pc = "send", ![t].kind = "system", ![t].left = Admins,
                               ![t].ok = 0, ![t].made = time]
       ELSE AttemptOver(t)
    /\ UNCHANGED <<time, sent, mail, size, faultsLeft, crashesLeft, changesLeft, manualLeft>>

SystemDelivered(t) ==
    /\ job[t].pc = "send" /\ job[t].kind = "system" /\ job[t].left = {}
    /\ AttemptOver(t)
    /\ UNCHANGED <<time, sent, mail, size, faultsLeft, crashesLeft, changesLeft, manualLeft>>

(***************************************************************************)
(* The surroundings.                                                       *)
(***************************************************************************)

\* A file is written, or becomes unreadable, while a bundle is built.
FileChanges(p) ==
    /\ changesLeft > 0 /\ changesLeft' = changesLeft - 1
    /\ \E t \in BackupTasks : job[t].pc \in {"walk", "read"}
    /\ \E s \in Sizes \cup {Gone} : s # size[p] /\ size' = [size EXCEPT ![p] = s]
    /\ UNCHANGED <<time, sent, mail, job, faultsLeft, crashesLeft, manualLeft>>

BackupTick ==
    /\ time < LastTime
    /\ job["loop"].pc \in {"asleep", "napping"} /\ time < job["loop"].wake
    /\ job["manual"].pc = "idle"
    /\ time' = time + 1
    /\ UNCHANGED <<sent, mail, size, job, faultsLeft, crashesLeft, changesLeft, manualLeft>>

\* The process dies and is started again.
BackupCrash ==
    /\ crashesLeft > 0 /\ crashesLeft' = crashesLeft - 1
    /\ job' = [t \in BackupTasks |-> IF t = "loop" THEN Starting ELSE Resting]
    /\ UNCHANGED <<time, sent, mail, size, faultsLeft, changesLeft, manualLeft>>

BackupsNext ==
    \/ LoopWakes \/ ReadLastBackupTime \/ ManualBackup \/ BackupTick \/ BackupCrash
    \/ \E t \in BackupTasks :
         \/ CreateEncryptedBackup(t) \/ SendDocument(t) \/ BackupDelivered(t)
         \/ RecoveryBundle(t) \/ RecoveryDelivered(t)
         \/ SystemBundle(t) \/ WalkEntry(t) \/ ReadEntry(t) \/ SystemBuilt(t) \/ SystemDelivered(t)
    \/ \E p \in Files : FileChanges(p)

BackupsSpec == BackupsInit /\ [][BackupsNext]_backupVars

(***************************************************************************)
(* Properties.                                                             *)
(***************************************************************************)

\* decrypt_backup accepts a backup that is not older than its limit.
Decrypts(made) == time - made <= MaxAge

\* The scheduler and the age limit together: once an admin has a database backup,
\* some admin always has one that decrypt_backup still accepts, although
\* attempts fail, the stamp cannot be read or written, the button is pressed at any
\* moment and the process restarts (offsite_backup_loop, decrypt_backup).  The
\* limit has to cover an interval, another for every fault and a start delay for
\* every restart.
AlwaysRestorable ==
    (\E a \in Admins : mail[a] # Never)
        => \E a \in Admins : mail[a] # Never /\ Decrypts(mail[a])

\* A system bundle accounts for every walked path exactly once, and what it leaves
\* out for its size is announced as a truncation; it stays within the total
\* limit unless a file changed while it was read.
BundleIsWhole ==
    \A t \in BackupTasks : job[t].pc = "send" /\ job[t].kind = "system" =>
        LET b == job[t].build IN
        /\ {e.path : e \in b.manifest} = Walked /\ Cardinality(b.manifest) = Cardinality(Walked)
        /\ b.truncated <=> (\E e \in b.manifest : e.reason = "size")
        /\ changesLeft = MaxFileChanges => b.total <= MaxTotalBytes

\* The backups the admins hold are of use: recent enough to be accepted, and whole.
BackupsAreUsable == AlwaysRestorable /\ BundleIsWhole
=============================================================================
