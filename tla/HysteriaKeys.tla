----------------------------- MODULE HysteriaKeys -----------------------------
(***************************************************************************)
(* Hysteria2 keys (services/hysteria.py) and the process that             *)
(* authenticates their clients (hy2_auth/store.py, hy2_auth/server.py).    *)
(*                                                                         *)
(* There is no backend to apply a key to: the auth process reads the       *)
(* database file on every handshake.  The two processes share that file,   *)
(* which an operator may replace by a restored copy; `disk' is its inode   *)
(* and `db' the key rows of every inode.  A client's handshake, the        *)
(* session it opens and the kick that ends one are separate steps.         *)
(***************************************************************************)
EXTENDS Naturals, FiniteSets

CONSTANTS HyKeys,        \* key ids
          HyOwner,       \* [HyKeys -> owners]
          MaxInodes,     \* the database file and its replacements
          MaxHyFaults,   \* failing writes and kicks
          SwapWhileOpening \* whether a replacement may fall into an open

ASSUME HyAssumption ==
  MaxInodes \in Nat \ {0} /\ MaxHyFaults \in Nat /\ SwapWhileOpening \in BOOLEAN

VARIABLES
  db,        \* [inode -> [HyKeys -> status]]
  blockedOf, \* owners that are blocked
  disk,      \* inode on disk
  botConn,   \* the inode the bot has open
  auth,      \* auth process: [conn, fileId, pc]
  shake,     \* the handshake being answered: [key, rows, began]
  sessions,  \* keys with an open session
  hySweep,     \* the owner whose block sweep is running, and its pending keys
  hyFaults

hyVars == <<db, blockedOf, disk, botConn, auth, shake, sessions, hySweep, hyFaults>>

HyStatuses == {"none", "pending_apply", "active", "apply_failed", "revoked"}
HyRevocable == {"active", "pending_apply", "apply_failed"}
Owners == {HyOwner[k] : k \in HyKeys}
NoConn == 0
NoShake == [key |-> "none", ok |-> FALSE, began |-> 0, pc |-> "idle"]
NoHySweep == [owner |-> "none", left |-> {}]

Row(k) == db[botConn][k]
SetHyRow(k, s) == db' = [db EXCEPT ![botConn][k] = s]

HyTrouble == hyFaults < MaxHyFaults /\ hyFaults' = hyFaults + 1

\* _kick_best_effort: a session survives a kick that fails.
Kick(k) ==
  \/ sessions' = sessions \ {k} /\ UNCHANGED hyFaults
  \/ UNCHANGED sessions /\ HyTrouble

-----------------------------------------------------------------------------
(* The service.  Its lock makes each operation one step; the user lock     *)
(* keeps issue and block of one owner apart.                               *)

\* The row is written pending and flipped to active at once.  If the flip
\* fails the row is marked failed, and stays pending if that fails too.
Issue(k) ==
  /\ hySweep.owner # HyOwner[k]
  /\ HyOwner[k] \notin blockedOf
  /\ Row(k) = "none"
  /\ \/ SetHyRow(k, "active") /\ UNCHANGED hyFaults
     \/ \E s \in {"apply_failed", "pending_apply"} : SetHyRow(k, s) /\ HyTrouble
  /\ UNCHANGED <<blockedOf, disk, botConn, auth, shake, sessions, hySweep>>

\* Also revoke_hysteria2_key_system, called by the expiry job.
RevokeHysteriaKey(k) ==
  /\ Row(k) \in HyRevocable
  /\ SetHyRow(k, "revoked") /\ Kick(k)
  /\ UNCHANGED <<blockedOf, disk, botConn, auth, shake, hySweep>>

Delete(k) ==
  /\ Row(k) # "none"
  /\ SetHyRow(k, "none") /\ Kick(k)
  /\ UNCHANGED <<blockedOf, disk, botConn, auth, shake, hySweep>>

\* The role is written, then the owner's keys are listed and revoked one by one.
BlockHolder(o) ==
  /\ hySweep = NoHySweep /\ o \notin blockedOf
  /\ blockedOf' = blockedOf \cup {o}
  /\ hySweep' = [owner |-> o, left |-> {k \in HyKeys : HyOwner[k] = o /\ Row(k) \in HyRevocable}]
  /\ UNCHANGED <<db, disk, botConn, auth, shake, sessions, hyFaults>>

SweepKey(k) ==
  /\ k \in hySweep.left
  /\ hySweep' = [hySweep EXCEPT !.left = @ \ {k}]
  /\ IF Row(k) \in HyRevocable THEN SetHyRow(k, "revoked") /\ Kick(k)
     ELSE UNCHANGED <<db, sessions, hyFaults>>
  /\ UNCHANGED <<blockedOf, disk, botConn, auth, shake>>

SweepEnds ==
  /\ hySweep # NoHySweep /\ hySweep.left = {}
  /\ hySweep' = NoHySweep
  /\ UNCHANGED <<db, blockedOf, disk, botConn, auth, shake, sessions, hyFaults>>

UnblockHolder(o) ==
  /\ o \in blockedOf /\ hySweep.owner # o
  /\ blockedOf' = blockedOf \ {o}
  /\ UNCHANGED <<db, disk, botConn, auth, shake, sessions, hySweep, hyFaults>>

\* The operator restores a copy: a new inode under the same name, holding what
\* the backup held.  The bot is restarted on it, the auth process goes on.
SwapFile(rows) ==
  /\ disk < MaxInodes /\ hySweep = NoHySweep
  /\ SwapWhileOpening \/ auth.pc # "stat"
  /\ disk' = disk + 1
  /\ db' = [db EXCEPT ![disk + 1] = rows]
  /\ botConn' = disk + 1
  /\ UNCHANGED <<blockedOf, auth, shake, sessions, hySweep, hyFaults>>

-----------------------------------------------------------------------------
(* The auth process.  One lock serialises its reads.                       *)

\* _open: the connection, then the inode it is taken to be for.
OpenConn ==
  /\ auth.pc = "closed"
  /\ auth' = [auth EXCEPT !.conn = disk, !.pc = "stat"]
  /\ UNCHANGED <<db, blockedOf, disk, botConn, shake, sessions, hySweep, hyFaults>>

OpenStat ==
  /\ auth.pc = "stat"
  /\ auth' = [auth EXCEPT !.fileId = disk, !.pc = "open"]
  /\ UNCHANGED <<db, blockedOf, disk, botConn, shake, sessions, hySweep, hyFaults>>

\* A client presents the secret of key k.
Handshake(k) ==
  /\ shake = NoShake /\ auth.pc # "stat"
  /\ shake' = [key |-> k, ok |-> FALSE, began |-> disk, pc |-> "check"]
  /\ UNCHANGED <<db, blockedOf, disk, botConn, auth, sessions, hySweep, hyFaults>>

\* The bug of a store that never looks at the file again.
Replaced_Never == FALSE

Replaced == auth.fileId # disk

\* _reopen_if_replaced: nothing, or close and open again.
CheckFile ==
  /\ shake.pc = "check" /\ auth.pc = "open"
  /\ IF Replaced
     THEN auth' = [auth EXCEPT !.conn = NoConn, !.pc = "closed"] /\ UNCHANGED shake
     ELSE shake' = [shake EXCEPT !.pc = "query"] /\ UNCHANGED auth
  /\ UNCHANGED <<db, blockedOf, disk, botConn, sessions, hySweep, hyFaults>>

\* The live SELECT and the match; a read that fails rejects the client.
ReadRows ==
  /\ shake.pc = "query"
  /\ \/ /\ shake' = [shake EXCEPT !.ok = db[auth.conn][shake.key] = "active", !.pc = "answer"]
        /\ UNCHANGED hyFaults
     \/ shake' = [shake EXCEPT !.ok = FALSE, !.pc = "answer"] /\ HyTrouble
  /\ UNCHANGED <<db, blockedOf, disk, botConn, auth, sessions, hySweep>>

\* The answer reaches the Hysteria server, which opens the session or not.
Answer ==
  /\ shake.pc = "answer"
  /\ sessions' = IF shake.ok THEN sessions \cup {shake.key} ELSE sessions
  /\ shake' = NoShake
  /\ UNCHANGED <<db, blockedOf, disk, botConn, auth, hySweep, hyFaults>>

SessionEnds(k) ==
  /\ k \in sessions /\ sessions' = sessions \ {k}
  /\ UNCHANGED <<db, blockedOf, disk, botConn, auth, shake, hySweep, hyFaults>>

HyInit ==
  /\ disk = 1 /\ botConn = 1
  /\ db = [i \in 1 .. MaxInodes |-> [k \in HyKeys |-> "none"]]
  /\ blockedOf = {} /\ sessions = {} /\ hySweep = NoHySweep
  /\ auth = [conn |-> NoConn, fileId |-> NoConn, pc |-> "closed"]
  /\ shake = NoShake /\ hyFaults = 0

HyNext ==
  \/ \E k \in HyKeys : Issue(k) \/ RevokeHysteriaKey(k) \/ Delete(k) \/ SweepKey(k)
                       \/ Handshake(k) \/ SessionEnds(k)
  \/ \E o \in Owners : BlockHolder(o) \/ UnblockHolder(o)
  \/ SweepEnds
  \/ \E rows \in [HyKeys -> {"none", "active", "revoked"}] : SwapFile(rows)
  \/ OpenConn \/ OpenStat \/ CheckFile \/ ReadRows \/ Answer

HySpec == HyInit /\ [][HyNext]_hyVars

-----------------------------------------------------------------------------
HyTypeOK ==
  /\ db \in [1 .. MaxInodes -> [HyKeys -> HyStatuses]]
  /\ blockedOf \subseteq Owners /\ sessions \subseteq HyKeys
  /\ disk \in 1 .. MaxInodes /\ botConn = disk
  /\ auth.conn \in 0 .. MaxInodes /\ auth.fileId \in 0 .. MaxInodes
  /\ auth.pc \in {"closed", "stat", "open"}
  /\ hySweep.left \subseteq HyKeys

\* A client is let in on the rows of the file that was on disk when its
\* handshake began, or of a newer one, never on a replaced file's: "a revoke
\* takes effect on the very next authentication" across a restore too
\* (ReadOnlyKeyStore).
AuthReadsTheLiveFile == shake.pc = "query" => auth.conn >= shake.began

\* An owner who is blocked and swept keeps no key a client could use, whatever
\* was being issued when the block began (issue, block_user).  A restored
\* backup may bring back a row, so this is about the first file only.
BlockedCannotConnect ==
  \A k \in HyKeys : disk = 1 /\ HyOwner[k] \in blockedOf /\ hySweep.owner # HyOwner[k]
                      => Row(k) # "active"

\* Who may connect is decided by the rows as they are now, and a block reaches them.
OnlyLiveRowsLetIn == AuthReadsTheLiveFile /\ BlockedCannotConnect
=============================================================================
