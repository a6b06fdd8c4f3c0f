----------------------------- MODULE Migrations -----------------------------
(***************************************************************************)
(* Database.bootstrap (db/database.py): schema.sql, the chain of forty     *)
(* migrations, the validations and indexes.sql, run statement by statement *)
(* on one SQLite connection, with the bot killed between any two of them.  *)
(*                                                                         *)
(* A migration is a sequence of statements.  A statement is abstracted to  *)
(* the schema names it needs, adds and removes, the tables whose rows it   *)
(* moves, and whether it is a write: under sqlite3's legacy isolation a    *)
(* write opens the transaction, and a DDL statement outside one commits by *)
(* itself.  A schema name is a pair <<table, column, index or CHECK>>.     *)
(***************************************************************************)
EXTENDS Integers, Sequences, FiniteSets, SequencesExt

CONSTANTS
    FirstVersions,      \* the schema versions the legacy database may have
    Troubles,           \* what may be wrong with its rows
    MaxBootCrashes      \* bound on kills and failed starts

CurrentVersion == 40

\* 0 is a new file; a database of a later version is refused before its first migration.
ASSUME VersionsAssumption == FirstVersions \subseteq 0..CurrentVersion

VARIABLES
    mdisk,      \* the committed database: [ver, has, rows]
    mwork,      \* the same, as the connection sees it
    inTx,       \* a transaction is open on the connection
    fk,         \* PRAGMA foreign_keys of the connection
    stage,      \* the stage of bootstrap being run
    at,         \* the statement of the stage to run next
    bot,        \* "down", "booting", "up", "refused" (by a validation), "broken"
    trouble,    \* what is wrong with the rows
    bootCrashes,
    legacy      \* the version the database had when this build first met it

migrationVars ==
    <<mdisk, mwork, inTx, fk, stage, at, bot, trouble, bootCrashes, legacy>>

-----------------------------------------------------------------------------
(* Statements *)

Stmt == [op |-> "none", table |-> "none", names |-> {}, needs |-> {},
         to |-> "none", what |-> "none", flag |-> FALSE]

Of(t, cols) == {t} \X cols

\* if column not in table_info: ALTER TABLE t ADD COLUMN c
AddCol(t, c) == [Stmt EXCEPT !.op = "ddl", !.names = Of(t, {c}), !.needs = Of(t, {"table"}),
                             !.flag = TRUE]
\* CREATE TABLE IF NOT EXISTS
Create(t, cols) == [Stmt EXCEPT !.op = "ddl", !.table = t,
                                !.names = Of(t, cols \cup {"table"}), !.flag = TRUE]
\* CREATE [UNIQUE] INDEX IF NOT EXISTS i ON t(cols); what: the rows that forbid it
Index(t, i, cols, what) ==
    [Stmt EXCEPT !.op = "ddl", !.names = Of(t, {i}), !.needs = Of(t, cols \cup {"table"}),
                 !.what = what, !.flag = TRUE]
\* CREATE TABLE without IF NOT EXISTS
CreateNew(t, cols) == [Stmt EXCEPT !.op = "new", !.table = t, !.names = Of(t, cols \cup {"table"})]
DropIndex(t, i) == [Stmt EXCEPT !.op = "dropindex", !.names = Of(t, {i})]
DropIfExists(t) == [Stmt EXCEPT !.op = "drop", !.table = t]
Drop(t) == [Stmt EXCEPT !.op = "drop", !.table = t, !.needs = Of(t, {"table"})]
Rename(t, u) == [Stmt EXCEPT !.op = "rename", !.table = t, !.to = u, !.needs = Of(t, {"table"})]
\* INSERT INTO u (cols) SELECT cols FROM t
Copy(t, u, cols) == [Stmt EXCEPT !.op = "copy", !.table = t, !.to = u,
                                 !.needs = Of(t, cols) \cup Of(u, cols)]
\* UPDATE or INSERT of rows of t; c is what is true of the data from then on
Write(t, c, cols) == [Stmt EXCEPT !.op = "write", !.names = Of("data", {c}),
                                  !.needs = Of(t, cols \cup {"table"})]
\* a SELECT that raises when the rows have this trouble
Check(t, what, cols) == [Stmt EXCEPT !.op = "check", !.what = what,
                                     !.needs = Of(t, cols \cup {"table"})]
\* if the name is in the schema: return
UnlessHas(t, c) == [Stmt EXCEPT !.op = "unless", !.names = Of(t, {c})]
SetVersion == [Stmt EXCEPT !.op = "version"]
Begin == [Stmt EXCEPT !.op = "begin"]
Commit == [Stmt EXCEPT !.op = "commit"]
\* PRAGMA foreign_keys: silently ignored inside a transaction
Pragma(on) == [Stmt EXCEPT !.op = "pragma", !.flag = on]

\* A table is rebuilt by copying it into t_new; cols are the columns of the copy
\* and the CHECKs of its DDL, indexes what is dropped first and created again.
RebuildBody(t, new, cols, copied, indexes) ==
    << Begin, DropIfExists(new) >>
    \o [i \in DOMAIN indexes |-> DropIndex(t, indexes[i])]
    \o << CreateNew(new, cols), Copy(t, new, copied), Drop(t), Rename(new, t) >>
    \o [i \in DOMAIN indexes |-> Index(t, indexes[i], {}, "none")]
    \o << Commit >>

\* Mutant: a rebuild with FK enforcement on
RebuildUnenforced_NoPragma(t, new, cols, copied, indexes) ==
    << Commit >> \o RebuildBody(t, new, cols, copied, indexes)

\* The rebuilds of v16, v17 and v29: FK enforcement off around the transaction.
RebuildUnenforced(t, new, cols, copied, indexes) ==
    << Commit, Pragma(FALSE) >> \o RebuildBody(t, new, cols, copied, indexes) \o << Pragma(TRUE) >>

-----------------------------------------------------------------------------
(* Phase 1: schema.sql, CREATE TABLE IF NOT EXISTS with today's columns *)

KeyCols15 == {"owner", "uuid", "label", "client_ip", "expires_at", "notified_days"}
KeyCols28 == KeyCols15 \cup {"transport", "xhttp_profile"}
ProxyCols == {"owner", "secret_fingerprint", "apply_generation", "activated_at",
              "CHECK_revoke_failed"}
BatchCols == {"status", "updated_at", "CHECK_scheduled", "scheduled_at"}
UserCols17 == {"role", "CHECK_moderator", "blocked_at", "trial_quota_reset_at", "note"}
TrialCols == {"user", "status", "CHECK_hysteria2"}

Tables ==
    << Create("users", UserCols17 \cup {"language", "expiry_notifications"}),
       Create("access_requests", {"status"}),
       Create("vpn_keys", KeyCols28 \cup {"CHECK_hysteria2", "spider_x", "bundle_id", "relay"}),
       Create("key_bundles", {"user", "status", "display_no", "kind"}),
       Create("relays", {}),
       Create("trial_key_requests", TrialCols),
       Create("proxy_entries", {}),
       Create("proxy_accesses", ProxyCols),
       Create("vpn_key_traffic_stats", {}),
       Create("deleted_key_traffic_archive", {}),
       Create("traffic_hourly", {}),
       Create("announcement_batches", BatchCols \cup {"filter"}),
       Create("announcement_deliveries", {}),
       Create("protocol_modules", {"uninstalled_at", "uninstalled_by", "uninstall_backup"}),
       Create("warp_settings", {"kill_switch", "config_installed"}),
       Create("warp_split_sources", {"fail_streak"}),
       Create("warp_split_prefixes", {}),
       Create("warp_split_exclusions", {}),
       Create("warp_split_baseline", {}),
       Create("warp_split_pending", {}),
       Create("warp_split_runs", {}),
       Create("server_status_settings", {}),
       Create("maintenance_settings", {}) >>

-----------------------------------------------------------------------------
(* Phase 2: the migrations; the bodies inlined in _apply_migrations first *)

MigrateV1 == << >>
MigrateV2 == << Index("vpn_keys", "idx_owner_type_status", {"owner"}, "none") >>
MigrateV3 == << Create("vpn_key_traffic_stats", {}),
                Index("vpn_key_traffic_stats", "idx_success", {}, "none") >>
MigrateV4 == << Write("access_requests", "one_pending", {"status"}),
                Index("access_requests", "idx_one_pending", {"status"}, "none"),
                Index("access_requests", "idx_pending_created", {"status"}, "none"),
                Index("vpn_keys", "idx_status_type", {}, "none") >>
\* _validate_reserved_awg_client_ip_duplicates, then the unique index over the
\* reserved statuses; v6 widens the statuses.
ValidateClientIps == Check("vpn_keys", "same_ip", {"client_ip"})
MigrateV5 == << ValidateClientIps, DropIndex("vpn_keys", "idx_client_ip_active"),
                Index("vpn_keys", "idx_client_ip_reserved", {"client_ip"}, "none") >>
MigrateV6 == << ValidateClientIps, DropIndex("vpn_keys", "idx_client_ip_reserved"),
                Index("vpn_keys", "idx_client_ip_reserved", {"client_ip"}, "same_ip") >>
AnnouncementTables ==
    << Create("announcement_batches", {"status", "updated_at"}),
       Create("announcement_deliveries", {}),
       Index("announcement_batches", "idx_status", {"status", "updated_at"}, "none"),
       Index("announcement_deliveries", "idx_status", {}, "none") >>
ProxyIndexes == << Index("proxy_accesses", "idx_owner", {"owner"}, "none"),
                   Index("proxy_accesses", "idx_fingerprint", {"secret_fingerprint"}, "none") >>
ProxyTables == << Create("proxy_accesses", ProxyCols) >> \o ProxyIndexes
\* _migrate_proxy_accesses_v9: the old table is renamed aside before the new one
\* is created, all of it ahead of the chain's first write.
MigrateProxiesV9 ==
    << UnlessHas("proxy_accesses", "CHECK_revoke_failed"),
       DropIndex("proxy_accesses", "idx_owner"),
       DropIndex("proxy_accesses", "idx_fingerprint"),
       Rename("proxy_accesses", "proxy_accesses_v8") >>
    \o << Create("proxy_accesses", ProxyCols) >> \o ProxyIndexes
    \o << Copy("proxy_accesses_v8", "proxy_accesses", {"owner"}),
          Drop("proxy_accesses_v8") >>
ProxyLiveIndex ==
    << Check("proxy_accesses", "two_live_proxies", {"owner"}),
       Index("proxy_accesses", "idx_one_live", {"owner"}, "two_live_proxies") >>
NormalizeRoles == << Write("users", "roles_normalised", {"role"}) >>
PerformanceIndexes == << Index("users", "idx_active_role", {"role", "blocked_at"}, "none"),
                         Index("vpn_keys", "idx_short_id", {}, "none") >>
MigrateV13 ==
    << AddCol("vpn_keys", "expires_at"), AddCol("users", "trial_quota_reset_at"),
       Create("trial_key_requests", {"user", "status"}),
       Index("vpn_keys", "idx_expires_at", {"expires_at"}, "none"),
       Index("trial_key_requests", "idx_user", {"user"}, "none") >>
MigrateV14 == << AddCol("users", "note") >>
MigrateV15 == << AddCol("vpn_keys", "notified_days") >>
MigrateV16 ==
    << UnlessHas("announcement_batches", "scheduled_at") >>
    \o RebuildUnenforced("announcement_batches", "announcement_batches_new", BatchCols,
                         {"status", "updated_at"}, <<"idx_status", "idx_scheduled">>)
\* users_new has neither language nor expiry_notifications: v26 adds them again
MigrateV17 ==
    RebuildUnenforced("users", "users_new", UserCols17,
                      {"role", "blocked_at", "trial_quota_reset_at", "note"},
                      <<"idx_role", "idx_active_role">>)
MigrateV18 == << Index("trial_key_requests", "idx_one_pending", {"user", "status"},
                       "two_pending_trials") >>
MigrateV19 == << Write("vpn_keys", "ips_released", {"client_ip"}) >>
MigrateV20 == << Create("warp_settings", {}), Write("warp_settings", "warp_row", {}) >>
MigrateV21 == << Create("protocol_modules", {}), Write("protocol_modules", "four_modules", {}) >>
MigrateV22 == << Create("deleted_key_traffic_archive", {}),
                 Index("deleted_key_traffic_archive", "idx_type", {}, "none"),
                 Index("deleted_key_traffic_archive", "idx_owner", {}, "none") >>
MigrateV23 == << AddCol("vpn_keys", "transport") >>
MigrateV24 == << Create("server_status_settings", {}),
                 Write("server_status_settings", "status_row", {}) >>
MigrateV25 == << Create("maintenance_settings", {}),
                 Write("maintenance_settings", "maintenance_row", {}) >>
MigrateV26 == << AddCol("users", "language"), AddCol("users", "expiry_notifications") >>
MigrateV27 == << AddCol("announcement_batches", "filter") >>
RelabelEmails == Write("vpn_keys", "labels_v28", {"label", "transport"})
MigrateV28 == << AddCol("vpn_keys", "xhttp_profile"), RelabelEmails >>
\* the guard reads the DDL text of vpn_keys; only the rebuild is skipped by it
WidenKeyTypes ==
    << UnlessHas("vpn_keys", "CHECK_hysteria2") >>
    \o RebuildUnenforced("vpn_keys", "vpn_keys_new", KeyCols28 \cup {"CHECK_hysteria2"}, KeyCols28,
                         <<"idx_owner", "idx_type_status", "idx_status_type",
                          "idx_owner_type_status", "idx_uuid", "idx_email_label", "idx_public_key",
                          "idx_short_id", "idx_client_ip_reserved", "idx_expires_at">>)
SeedHysteria == << Write("protocol_modules", "hysteria2", {}) >>
MigrateV30 == << AddCol("warp_settings", "kill_switch"),
                 UnlessHas("warp_settings", "config_installed"),
                 AddCol("warp_settings", "config_installed"),
                 Write("warp_settings", "installed_backfilled", {"config_installed"}) >>
MigrateV31 == << AddCol("vpn_keys", "spider_x") >>
MigrateV32 == << Create("key_bundles", {"user", "status"}),
                 Index("key_bundles", "idx_user", {"user"}, "none"),
                 Index("key_bundles", "idx_status", {"status"}, "none"),
                 AddCol("vpn_keys", "bundle_id"),
                 Index("vpn_keys", "idx_bundle_id", {"bundle_id"}, "none") >>
MigrateV33 == << AddCol("key_bundles", "display_no"),
                 Write("key_bundles", "renumbered", {"display_no"}),
                 Index("key_bundles", "idx_display_no", {"display_no"}, "none") >>
MigrateV34 == << Create("warp_split_sources", {}), Create("warp_split_prefixes", {}),
                 Create("warp_split_exclusions", {}),
                 Write("warp_split_sources", "feeds_seeded", {}) >>
MigrateV35 == << Create("warp_split_baseline", {}), Create("warp_split_pending", {}),
                 Create("warp_split_runs", {}), AddCol("warp_split_sources", "fail_streak") >>
\* foreign_keys stays on: nothing references trial_key_requests
WidenTrialTypes ==
    << UnlessHas("trial_key_requests", "CHECK_hysteria2"), Commit >>
    \o RebuildBody("trial_key_requests", "trial_key_requests_new", TrialCols,
                   {"user", "status"}, <<"idx_user", "idx_one_pending">>)
MigrateV37 == << AddCol("vpn_keys", "relay"), AddCol("key_bundles", "kind") >>
MigrateV38 == << Create("relays", {}) >>
MigrateV39 == << Create("traffic_hourly", {}) >>
MigrateV40 == << AddCol("protocol_modules", "uninstalled_at"),
                 AddCol("protocol_modules", "uninstalled_by"),
                 AddCol("protocol_modules", "uninstall_backup") >>

\* The body of every version of the chain, then SetVersion: _apply_migrations.
Chain ==
    << MigrateV1, MigrateV2, MigrateV3, MigrateV4, MigrateV5, MigrateV6, AnnouncementTables,
       ProxyTables, MigrateProxiesV9, ProxyLiveIndex, NormalizeRoles, PerformanceIndexes,
       MigrateV13, MigrateV14, MigrateV15, MigrateV16, MigrateV17, MigrateV18, MigrateV19,
       MigrateV20, MigrateV21, MigrateV22, MigrateV23, MigrateV24, MigrateV25, MigrateV26,
       MigrateV27, MigrateV28, WidenKeyTypes, MigrateV30, MigrateV31, MigrateV32, MigrateV33,
       MigrateV34, MigrateV35, WidenTrialTypes, MigrateV37, MigrateV38, MigrateV39, MigrateV40 >>

\* what v9 and v29 do whether or not their rebuild was needed
AfterCall(v) == CASE v = 9 -> ProxyIndexes [] v = 29 -> SeedHysteria [] OTHER -> << >>

-----------------------------------------------------------------------------
(* The validations and phase 3 *)

ValidateReferences == << Check("vpn_keys", "orphan", {"owner"}), Check("key_bundles", "orphan", {"user"}),
                         Check("proxy_accesses", "orphan", {"owner"}),
                         Check("vpn_key_traffic_stats", "orphan", {}) >>
ValidateEnums == << Check("users", "enum", {"role"}), Check("vpn_keys", "enum", {"transport"}),
                    Check("key_bundles", "enum", {"kind"}), Check("announcement_batches", "enum", {"status"}) >>
\* indexes.sql, one statement at a time inside bootstrap's transaction
Indexes ==
    << Index("users", "idx_role", {"role"}, "none"),
       Index("users", "idx_active_role", {"blocked_at"}, "none"),
       Index("access_requests", "idx_pending_created", {"status"}, "none"),
       Index("access_requests", "idx_one_pending", {"status"}, "none"),
       Index("vpn_keys", "idx_owner", {"owner"}, "none"),
       Index("vpn_keys", "idx_type_status", {}, "none"),
       Index("vpn_keys", "idx_status_type", {}, "none"),
       Index("vpn_keys", "idx_uuid", {"uuid"}, "none"),
       Index("vpn_keys", "idx_email_label", {"label"}, "none"),
       Index("vpn_keys", "idx_public_key", {}, "none"),
       Index("vpn_keys", "idx_short_id", {}, "none"),
       Index("vpn_keys", "idx_owner_type_status", {"owner"}, "none"),
       Index("vpn_keys", "idx_client_ip_reserved", {"client_ip"}, "same_ip"),
       Index("vpn_keys", "idx_expires_at", {"expires_at"}, "none"),
       Index("vpn_keys", "idx_bundle_id", {"bundle_id"}, "none"),
       Index("vpn_keys", "idx_relay", {"relay"}, "none"),
       Index("key_bundles", "idx_user", {"user"}, "none"),
       Index("key_bundles", "idx_status", {"status"}, "none"),
       Index("key_bundles", "idx_display_no", {"display_no"}, "none"),
       Index("trial_key_requests", "idx_user", {"user"}, "none"),
       Index("trial_key_requests", "idx_one_pending", {"status"}, "two_pending_trials"),
       Index("proxy_accesses", "idx_owner", {"owner"}, "none"),
       Index("proxy_accesses", "idx_fingerprint", {"secret_fingerprint"}, "none"),
       Index("proxy_accesses", "idx_one_live", {"owner"}, "two_live_proxies"),
       Index("vpn_key_traffic_stats", "idx_success", {}, "none"),
       Index("deleted_key_traffic_archive", "idx_type", {}, "none"),
       Index("deleted_key_traffic_archive", "idx_owner", {}, "none"),
       Index("traffic_hourly", "idx_hour", {}, "none"),
       Index("announcement_batches", "idx_status", {"status"}, "none"),
       Index("announcement_batches", "idx_scheduled", {"scheduled_at"}, "none"),
       Index("announcement_deliveries", "idx_status", {}, "none") >>
SpiderXBackfill == Write("vpn_keys", "spider_x_filled", {"spider_x"})

\* Stage 0 is phase 1, stage v the migration to version v, the last one the rest.
LastStage == CurrentVersion + 1
Statements(s) ==
    IF s = 0 THEN Tables
    ELSE IF s <= CurrentVersion THEN Chain[s]
    ELSE ValidateReferences \o ValidateEnums \o Indexes \o << SpiderXBackfill, Commit >>

-----------------------------------------------------------------------------
(* What a statement does *)

\* Tables whose rows go when the rows of t are deleted under foreign_keys = ON.
Cascade(t) ==
    CASE t = "users" -> {"vpn_keys", "vpn_key_traffic_stats", "proxy_accesses", "access_requests",
                         "trial_key_requests", "key_bundles", "announcement_deliveries"}
      [] t = "vpn_keys" -> {"vpn_key_traffic_stats"}
      [] t = "announcement_batches" -> {"announcement_deliveries"}
      [] OTHER -> {}

HasRows == {"users", "access_requests", "vpn_keys", "proxy_accesses", "vpn_key_traffic_stats",
            "announcement_batches", "announcement_deliveries", "trial_key_requests", "key_bundles"}

Moved(rows, t, u) == IF t \in rows THEN rows \cup {u} ELSE rows

\* The guard of an idempotent statement: nothing to do when the name is there.
NoStatement(db, s) == s.flag /\ (IF s.table = "none" THEN s.names ELSE Of(s.table, {"table"})) \subseteq db.has

\* A statement SQLite rejects: a name it needs is missing, or the table exists.
Rejected(db, s) ==
    \/ ~NoStatement(db, s) /\ ~(s.needs \subseteq db.has)
    \/ s.op = "new" /\ s.names \cap db.has # {}
    \/ s.op = "begin" /\ inTx

Ran(db, enforced, s) ==
    CASE s.op = "ddl" -> IF NoStatement(db, s) THEN db ELSE [db EXCEPT !.has = @ \cup s.names]
      [] s.op \in {"new", "write"} -> [db EXCEPT !.has = @ \cup s.names]
      [] s.op = "dropindex" -> [db EXCEPT !.has = @ \ s.names]
      [] s.op = "drop" ->
            [db EXCEPT !.has = { n \in @ : n[1] # s.table },
                       !.rows = (@ \ {s.table})
                                    \ (IF enforced /\ s.table \in @ THEN Cascade(s.table) ELSE {})]
      [] s.op = "rename" ->
            [db EXCEPT !.has = { IF n[1] = s.table THEN <<s.to, n[2]>> ELSE n : n \in @ },
                       !.rows = Moved(@, s.table, s.to) \ {s.table}]
      [] s.op = "copy" -> [db EXCEPT !.rows = Moved(@, s.table, s.to)]
      [] s.op = "version" -> [db EXCEPT !.ver = stage]
      [] OTHER -> db

-----------------------------------------------------------------------------
(* The legacy database: what the chain had built up to its version *)

BaseNames == Of("users", {"table", "role", "blocked_at"}) \cup Of("access_requests", {"table", "status"})
             \cup Of("vpn_keys", {"table", "owner", "uuid", "label", "client_ip"})
             \cup Of("proxy_entries", {"table"})
ProxyColsV8 == {"table", "owner"}

\* names a version's migration leaves behind, rebuilt tables included
Leaves(v) == UNION { LET s == Chain[v][i] IN
                        IF s.op = "new" THEN { <<IF n[1] = "users_new" THEN "users"
                                                 ELSE IF n[1] = "vpn_keys_new" THEN "vpn_keys"
                                                 ELSE IF n[1] = "trial_key_requests_new"
                                                      THEN "trial_key_requests"
                                                 ELSE "announcement_batches", n[2]>> : n \in s.names }
                        ELSE IF s.op \in {"ddl", "write"} THEN s.names ELSE {}
                     : i \in DOMAIN Chain[v] }
\* a fresh file has nothing; version 8 still has the proxy table of its time
LegacyNames(v) ==
    IF v = 0 THEN {}
    ELSE LET all == BaseNames \cup UNION { Leaves(w) : w \in 1..v }
         IN  IF v = 8 THEN { n \in all : n[1] # "proxy_accesses" } \cup Of("proxy_accesses", ProxyColsV8)
             ELSE all
Legacy(v) == [ver |-> v, has |-> LegacyNames(v),
              rows |-> { t \in HasRows : <<t, "table">> \in LegacyNames(v) }]

-----------------------------------------------------------------------------
(* The bot starts, runs bootstrap, and may be killed *)

MigrationsInit ==
    /\ legacy \in FirstVersions
    /\ mdisk = Legacy(legacy)
    /\ mwork = mdisk
    /\ inTx = FALSE /\ fk = TRUE
    /\ stage = 0 /\ at = 1
    /\ bot = "down"
    /\ trouble \in {{}} \cup { {x} : x \in Troubles }
    /\ bootCrashes = 0

\* Database.connect, then bootstrap
Connect ==
    /\ bot \in {"down", "refused"}
    /\ bot' = "booting"
    /\ mwork' = mdisk /\ inTx' = FALSE /\ fk' = TRUE
    /\ stage' = 0 /\ at' = 1
    /\ UNCHANGED <<mdisk, trouble, bootCrashes, legacy>>

\* A stage the database already has is passed over.
Skipped == stage \in 1..CurrentVersion /\ mwork.ver >= stage
Rest == Statements(stage) \o (IF stage \in 1..CurrentVersion THEN AfterCall(stage) \o << SetVersion >>
                              ELSE << >>)

\* `return` at the head of a migration leaves its body for what follows the call
Jump(s) == IF s.op = "unless" /\ s.names \subseteq mwork.has
           THEN Len(Statements(stage)) + 1 ELSE at + 1

\* The rows have the trouble the check looks for, or the unique index excludes.
Forbidden(s) == s.what \in trouble /\ ~NoStatement(mwork, s)

Opens(s) == s.op \in {"write", "copy", "version", "begin"}

\* One statement.  Outside a transaction a DDL statement is committed by itself.
Execute ==
    LET s == Rest[at]
        open == inTx \/ (Opens(s) /\ stage # 0)
        db == Ran(mwork, fk, s)
    IN  /\ bot = "booting" /\ ~Skipped /\ at <= Len(Rest)
        /\ ~Rejected(mwork, s) /\ ~Forbidden(s)
        /\ mwork' = db
        /\ inTx' = IF s.op = "commit" THEN FALSE ELSE open
        /\ mdisk' = IF s.op = "commit" \/ ~open THEN db ELSE mdisk
        /\ fk' = IF s.op = "pragma" /\ ~inTx THEN s.flag ELSE fk
        /\ at' = Jump(s)
        /\ UNCHANGED <<stage, bot, trouble, bootCrashes, legacy>>

\* The next stage, and after the last one the bot is up.
Advance ==
    /\ bot = "booting" /\ (Skipped \/ at > Len(Rest))
    /\ IF stage < LastStage
       THEN stage' = stage + 1 /\ at' = 1 /\ bot' = bot
       ELSE bot' = "up" /\ UNCHANGED <<stage, at>>
    /\ UNCHANGED <<mdisk, mwork, inTx, fk, trouble, bootCrashes, legacy>>

\* An exception: a validation raises, a unique index meets rows it forbids (the
\* operator repairs them), or SQLite rejects the statement, which no restart cures.
Raise ==
    LET s == Rest[at]
    IN  /\ bot = "booting" /\ ~Skipped /\ at <= Len(Rest)
        /\ Rejected(mwork, s) \/ Forbidden(s)
        /\ bot' = IF Rejected(mwork, s) THEN "broken" ELSE "refused"
        /\ mwork' = mdisk /\ inTx' = FALSE
        /\ UNCHANGED <<mdisk, fk, stage, at, trouble, bootCrashes, legacy>>

\* The operator repairs what a validation named.
Repair ==
    /\ bot = "refused"
    /\ trouble' = {}
    /\ UNCHANGED <<mdisk, mwork, inTx, fk, stage, at, bot, bootCrashes, legacy>>

\* The process is killed, or the bot is restarted: what is not committed is gone.
Kill ==
    /\ bot \in {"booting", "up"} /\ bootCrashes < MaxBootCrashes
    /\ bot' = "down" /\ bootCrashes' = bootCrashes + 1
    /\ mwork' = mdisk /\ inTx' = FALSE /\ fk' = TRUE /\ stage' = 0 /\ at' = 1
    /\ UNCHANGED <<mdisk, trouble, legacy>>

MigrationsNext == Connect \/ Execute \/ Advance \/ Raise \/ Repair \/ Kill

MigrationsSpec == MigrationsInit /\ [][MigrationsNext]_migrationVars

-----------------------------------------------------------------------------
(* Properties *)

MigrationsTypeOK ==
    /\ mdisk.ver \in 0..CurrentVersion /\ mwork.ver \in 0..CurrentVersion
    /\ inTx \in BOOLEAN /\ fk \in BOOLEAN
    /\ stage \in 0..LastStage /\ at \in 1..80
    /\ bot \in {"down", "booting", "up", "refused", "broken"}
    /\ trouble \subseteq Troubles

\* No statement of bootstrap is ever rejected by SQLite, from whatever version and
\* after whatever kill: a rejected statement is a crash loop, as "no such column:
\* display_no" was (the comment of bootstrap).
ChainNeverBreaks == bot # "broken"

\* Once the bot is up, every table that had rows when the bot first met this
\* database still has them: no rebuild loses its copy or cascades into a child.
RowsSurvive == bot = "up" => Legacy(legacy).rows \subseteq mwork.rows

\* Once the bot is up, the database is at the current version with every column,
\* CHECK and index of a new one, committed, and foreign keys are enforced.
UpIsComplete ==
    bot = "up" => /\ mdisk = mwork /\ mdisk.ver = CurrentVersion
                  /\ fk
                  /\ UNION { Tables[i].names : i \in DOMAIN Tables } \subseteq mdisk.has
                  /\ UNION { Indexes[i].names : i \in DOMAIN Indexes } \subseteq mdisk.has

\* A start of the bot upgrades any older database without a rejected statement and
\* without losing a row, and is complete when the bot is up (Database.bootstrap).
BootIsSafe == ChainNeverBreaks /\ RowsSurvive /\ UpIsComplete

=============================================================================
