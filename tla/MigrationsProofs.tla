-------------------------- MODULE MigrationsProofs --------------------------
(***************************************************************************)
(* Whatever version below 8, or above it, the database has, and however    *)
(* often the bot is killed while it starts, no statement of the bootstrap  *)
(* is rejected, no row of the legacy tables is lost, and the bot that is   *)
(* up has the whole schema of today.                                       *)
(*                                                                         *)
(* The inductive invariant, MigrationsInv, says what is committed at any   *)
(* moment: each table that is there has at least the columns of the        *)
(* version.  A migration without a rebuild (Sound) keeps that statement by *)
(* statement.  The four that rebuild a table do not: DbInRebuild says for  *)
(* each place of the rebuild which of the table and its copy holds the     *)
(* rows, and TxInRebuild that the transaction hides the difference.        *)
(***************************************************************************)
EXTENDS Migrations, SequenceTheorems, TLAPS

-----------------------------------------------------------------------------
(* The inductive invariant *)

\* Every table, column and CHECK of a new database, and the tables alone
Whole == UNION { Tables[i].names : i \in DOMAIN Tables }
WholeTables == { <<Tables[i].table, "table">> : i \in DOMAIN Tables }

\* The version from which on a table that is there has this column; 0: from its creation
Since(n) ==
    CASE n[1] = "vpn_keys" ->
            (CASE n[2] = "expires_at" -> 13 [] n[2] = "notified_days" -> 15
               [] n[2] = "transport" -> 23 [] n[2] = "xhttp_profile" -> 28
               [] n[2] = "CHECK_hysteria2" -> 29 [] n[2] = "spider_x" -> 31
               [] n[2] = "bundle_id" -> 32 [] n[2] = "relay" -> 37 [] OTHER -> 0)
      [] n[1] = "users" ->
            (CASE n[2] = "trial_quota_reset_at" -> 13 [] n[2] = "note" -> 14
               [] n[2] = "CHECK_moderator" -> 17
               [] n[2] \in {"language", "expiry_notifications"} -> 26 [] OTHER -> 0)
      [] n[1] = "announcement_batches" ->
            (CASE n[2] \in {"CHECK_scheduled", "scheduled_at"} -> 16 [] n[2] = "filter" -> 27
               [] OTHER -> 0)
      [] n[1] = "key_bundles" ->
            (CASE n[2] = "display_no" -> 33 [] n[2] = "kind" -> 37 [] OTHER -> 0)
      [] n[1] = "warp_settings" /\ n[2] # "table" -> 30
      [] n[1] = "warp_split_sources" /\ n[2] = "fail_streak" -> 35
      [] n[1] = "trial_key_requests" /\ n[2] = "CHECK_hysteria2" -> 36
      [] n[1] = "protocol_modules" /\ n[2] # "table" -> 40
      [] OTHER -> 0

\* A table that is there is as complete as the version says.  The guard of v16 asks for one
\* column of its rebuild.
Fits(db) ==
    /\ DOMAIN db = {"ver", "has", "rows"} /\ db.ver \in 0..CurrentVersion
    /\ \A n \in Whole : Since(n) <= db.ver /\ <<n[1], "table">> \in db.has => n \in db.has
    /\ <<"announcement_batches", "scheduled_at">> \in db.has
          => <<"announcement_batches", "CHECK_scheduled">> \in db.has

LegacyRows == Legacy(legacy).rows

\* The four rebuilds: the table, its copy, the columns of the copy, where Begin is in the
\* stage and how many indexes there are
Rebuilds == {16, 17, 29, 36}
Rebuilt(s) ==
    CASE s = 16 -> [table |-> "announcement_batches", copy |-> "announcement_batches_new",
                    cols |-> BatchCols, begin |-> 4, n |-> 2]
      [] s = 17 -> [table |-> "users", copy |-> "users_new", cols |-> UserCols17, begin |-> 3, n |-> 2]
      [] s = 29 -> [table |-> "vpn_keys", copy |-> "vpn_keys_new",
                    cols |-> KeyCols28 \cup {"CHECK_hysteria2"}, begin |-> 4, n |-> 10]
      [] s = 36 -> [table |-> "trial_key_requests", copy |-> "trial_key_requests_new",
                    cols |-> TrialCols, begin |-> 3, n |-> 2]

Rebuilding == stage \in Rebuilds /\ ~Skipped

\* The statement of the rebuild to run next: 0 Begin, 1 DROP of an old copy, n indexes dropped,
\* n + 2 CREATE of the copy, n + 3 INSERT, n + 4 DROP, n + 5 RENAME, n indexes, 2n + 6 COMMIT,
\* 2n + 7 PRAGMA
Place == at - Rebuilt(stage).begin

\* At place p of the rebuild of v16, 17, 29 or 36: the transaction and the enforcement, and
\* what the copy and the rows of the database have come to; old are the rows to keep.
TxInRebuild(s, p, tx, enforced) ==
    LET n == Rebuilt(s).n
    IN  /\ p \in 1..(2 * n + 6) => tx
        /\ p = 0 => ~tx
        /\ s # 36 /\ p \in {-1, 2 * n + 7} => ~tx
        /\ enforced <=> s = 36 \/ p \notin 0..(2 * n + 7)

DbInRebuild(s, p, db, old) ==
    LET r == Rebuilt(s)
        n == r.n
    IN  /\ p \in 2..(n + 2) => \A x \in db.has : x[1] # r.copy
        /\ p \in (n + 3)..(n + 5) => Of(r.copy, r.cols \cup {"table"}) \subseteq db.has
        /\ p \in {n + 4, n + 5} /\ r.table \in old => r.copy \in db.rows
        /\ p > n + 5 => \A x \in Whole : Since(x) = s => x \in db.has
        /\ WholeTables \subseteq db.has \cup (IF p = n + 5 THEN {<<r.table, "table">>} ELSE {})
        /\ old \subseteq db.rows \cup (IF p = n + 5 THEN {r.table} ELSE {})

RebuildInv ==
    Rebuilding => /\ TxInRebuild(stage, Place, inTx, fk)
                  /\ DbInRebuild(stage, Place, mwork, LegacyRows)

\* What the stage has added so far is there.  v9 has nothing to do: only a database of
\* version 8 has the old proxy table.
ProgressInv ==
    ~Skipped =>
      /\ stage = 0 => \A i \in 1..(at - 1) : <<Tables[i].table, "table">> \in mwork.has
      /\ stage = 9 => at = 1 \/ at > Len(Chain[9])
      /\ stage \in 1..CurrentVersion \ (Rebuilds \cup {9}) =>
            \A i \in 1..(at - 1) : Rest[i].op = "ddl" /\ Rest[i].table = "none"
                                   => Rest[i].names \cap Whole \subseteq mwork.has
      /\ stage = LastStage =>
            \A i \in 1..(at - 1) : Rest[i].op = "ddl" => Rest[i].names \subseteq mwork.has
      /\ stage = LastStage /\ at > Len(Rest) => ~inTx

\* A start that is under way, or over, is at a statement of its stage, with a database of
\* the version before.
PositionInv ==
    /\ stage \in 0..LastStage /\ at \in 1..(Len(Rest) + 1)
    /\ stage # 0 => mwork.ver >= stage - 1
    /\ stage \in 1..CurrentVersion /\ ~Skipped => at <= Len(Rest)

\* No table and no rows are missing, and foreign keys are enforced, but for the rebuilds.
TablesInv ==
    ~Rebuilding => /\ stage # 0 => WholeTables \subseteq mwork.has
                   /\ LegacyRows \subseteq mwork.rows
                   /\ fk

\* What holds between any two statements of a start, and while the bot is up, down or refused
MigrationsInv ==
    /\ legacy \in FirstVersions
    /\ Fits(mdisk) /\ LegacyRows \subseteq mdisk.rows
    /\ bot \in {"down", "booting", "up", "refused"}
    /\ bot \in {"booting", "up"} =>
          /\ Fits(mwork) /\ inTx \in BOOLEAN /\ fk \in BOOLEAN
          /\ ~inTx => mdisk = mwork
          /\ PositionInv /\ TablesInv /\ RebuildInv /\ ProgressInv
    /\ bot = "up" => stage = LastStage /\ at = Len(Rest) + 1

-----------------------------------------------------------------------------
(* Kinds of statements *)

\* The names are no tables, and not the column that the guard of v16 asks for.
Side(N) == \A n \in N : n[2] # "table" /\ n # <<"announcement_batches", "scheduled_at">>

\* A statement that finds every table there and leaves tables, rows and version alone
Creates(s) ==
  /\ s.op = "ddl" /\ s.flag = TRUE /\ s.table # "none" /\ <<s.table, "table">> \in WholeTables
  /\ \A n \in s.names : n[1] = s.table /\ n # <<"announcement_batches", "scheduled_at">>
  /\ \A n \in Whole : n[1] = s.table /\ Since(n) = 0 => n \in s.names
Adds(s) == s.op = "ddl" /\ s.flag = TRUE /\ s.table = "none" /\ Side(s.names)
Writes(s) == s.op = "write" /\ s.flag = FALSE /\ Side(s.names)
Checks(s) == s.op = "check" /\ s.flag = FALSE
Removes(s) == s.op = "dropindex" /\ s.flag = FALSE /\ s.names \cap Whole = {}
Steady(s) == Creates(s) \/ Adds(s) \/ Writes(s) \/ Checks(s) \/ Removes(s)

\* A migration without a rebuild
Plain == (1..CurrentVersion) \ (Rebuilds \cup {9})

\* The statements are a sequence.  (The set they are from does not matter.)
IsSeq(q) == \E A : q \in Seq(A)

\* The statement adds this column.
Gains(s, n) == s.op = "ddl" /\ s.table = "none" /\ n \in s.names

\* The statements q are those of a migration to version w.
SoundNeeds(w, q) == \A i \in DOMAIN q : \A n \in q[i].needs :
    n \in Whole /\ Since(n) <= w /\ (Since(n) = w => \E j \in 1..(i - 1) : Gains(q[j], n))
SoundGains(w, q) == \A n \in Whole : Since(n) = w => \E i \in DOMAIN q : Gains(q[i], n)
Leaps(q, i) ==
    /\ q[i].op = "unless" /\ q[i].flag = FALSE /\ q[i].needs = {}
    /\ \A j \in DOMAIN q : j > i /\ q[j].op = "ddl" /\ q[j].table = "none" => q[j].names = q[i].names
SoundKinds(q) == \A i \in DOMAIN q : Steady(q[i]) \/ Leaps(q, i)
Sound(w, q) == IsSeq(q) /\ SoundNeeds(w, q) /\ SoundGains(w, q) /\ SoundKinds(q)

\* The schema names of CREATE TABLE
LEMMA CreatedNames ==
  \A t, cols : /\ Create(t, cols).table = t
               /\ \A n : n \in Create(t, cols).names <=> n = <<t, n[2]>> /\ n[2] \in cols \cup {"table"}
  BY DEF Create, Stmt, Of

\* The names of the tables that schema.sql creates, one table after the other
LEMMA Table1 ==
  /\ Tables[1].table = "users"
  /\ \A n : n \in Tables[1].names <=> n = <<"users", n[2]>>
          /\ n[2] \in {"table", "role", "CHECK_moderator", "blocked_at", "trial_quota_reset_at", "note",
          "language", "expiry_notifications"}
  <1>1. Tables[1] = Create("users", UserCols17 \cup {"language", "expiry_notifications"})  BY DEF Tables
  <1> QED BY <1>1, CreatedNames DEF UserCols17

LEMMA Table2 ==
  /\ Tables[2].table = "access_requests"
  /\ \A n : n \in Tables[2].names <=> n = <<"access_requests", n[2]>> /\ n[2] \in {"table", "status"}
  <1>1. Tables[2] = Create("access_requests", {"status"})  BY DEF Tables
  <1> QED BY <1>1, CreatedNames

LEMMA Table3 ==
  /\ Tables[3].table = "vpn_keys"
  /\ \A n : n \in Tables[3].names <=> n = <<"vpn_keys", n[2]>>
          /\ n[2] \in {"table", "owner", "uuid", "label", "client_ip", "expires_at", "notified_days",
          "transport", "xhttp_profile", "CHECK_hysteria2", "spider_x", "bundle_id", "relay"}
  <1>1. Tables[3] = Create("vpn_keys", KeyCols28 \cup {"CHECK_hysteria2", "spider_x", "bundle_id",
          "relay"})  BY DEF Tables
  <1> QED BY <1>1, CreatedNames DEF KeyCols28, KeyCols15

LEMMA Table4 ==
  /\ Tables[4].table = "key_bundles"
  /\ \A n : n \in Tables[4].names <=> n = <<"key_bundles", n[2]>>
          /\ n[2] \in {"table", "user", "status", "display_no", "kind"}
  <1>1. Tables[4] = Create("key_bundles", {"user", "status", "display_no", "kind"})  BY DEF Tables
  <1> QED BY <1>1, CreatedNames

LEMMA Table5 ==
  /\ Tables[5].table = "relays"
  /\ \A n : n \in Tables[5].names <=> n = <<"relays", n[2]>> /\ n[2] \in {"table"}
  <1>1. Tables[5] = Create("relays", {})  BY DEF Tables
  <1> QED BY <1>1, CreatedNames

LEMMA Table6 ==
  /\ Tables[6].table = "trial_key_requests"
  /\ \A n : n \in Tables[6].names <=> n = <<"trial_key_requests", n[2]>>
          /\ n[2] \in {"table", "user", "status", "CHECK_hysteria2"}
  <1>1. Tables[6] = Create("trial_key_requests", TrialCols)  BY DEF Tables
  <1> QED BY <1>1, CreatedNames DEF TrialCols

LEMMA Table7 ==
  /\ Tables[7].table = "proxy_entries"
  /\ \A n : n \in Tables[7].names <=> n = <<"proxy_entries", n[2]>> /\ n[2] \in {"table"}
  <1>1. Tables[7] = Create("proxy_entries", {})  BY DEF Tables
  <1> QED BY <1>1, CreatedNames

LEMMA Table8 ==
  /\ Tables[8].table = "proxy_accesses"
  /\ \A n : n \in Tables[8].names <=> n = <<"proxy_accesses", n[2]>>
          /\ n[2] \in {"table", "owner", "secret_fingerprint", "apply_generation", "activated_at",
          "CHECK_revoke_failed"}
  <1>1. Tables[8] = Create("proxy_accesses", ProxyCols)  BY DEF Tables
  <1> QED BY <1>1, CreatedNames DEF ProxyCols

LEMMA Table9 ==
  /\ Tables[9].table = "vpn_key_traffic_stats"
  /\ \A n : n \in Tables[9].names <=> n = <<"vpn_key_traffic_stats", n[2]>> /\ n[2] \in {"table"}
  <1>1. Tables[9] = Create("vpn_key_traffic_stats", {})  BY DEF Tables
  <1> QED BY <1>1, CreatedNames

LEMMA Table10 ==
  /\ Tables[10].table = "deleted_key_traffic_archive"
  /\ \A n : n \in Tables[10].names <=> n = <<"deleted_key_traffic_archive", n[2]>> /\ n[2] \in {"table"}
  <1>1. Tables[10] = Create("deleted_key_traffic_archive", {})  BY DEF Tables
  <1> QED BY <1>1, CreatedNames

LEMMA Table11 ==
  /\ Tables[11].table = "traffic_hourly"
  /\ \A n : n \in Tables[11].names <=> n = <<"traffic_hourly", n[2]>> /\ n[2] \in {"table"}
  <1>1. Tables[11] = Create("traffic_hourly", {})  BY DEF Tables
  <1> QED BY <1>1, CreatedNames

LEMMA Table12 ==
  /\ Tables[12].table = "announcement_batches"
  /\ \A n : n \in Tables[12].names <=> n = <<"announcement_batches", n[2]>>
          /\ n[2] \in {"table", "status", "updated_at", "CHECK_scheduled", "scheduled_at", "filter"}
  <1>1. Tables[12] = Create("announcement_batches", BatchCols \cup {"filter"})  BY DEF Tables
  <1> QED BY <1>1, CreatedNames DEF BatchCols

LEMMA Table13 ==
  /\ Tables[13].table = "announcement_deliveries"
  /\ \A n : n \in Tables[13].names <=> n = <<"announcement_deliveries", n[2]>> /\ n[2] \in {"table"}
  <1>1. Tables[13] = Create("announcement_deliveries", {})  BY DEF Tables
  <1> QED BY <1>1, CreatedNames

LEMMA Table14 ==
  /\ Tables[14].table = "protocol_modules"
  /\ \A n : n \in Tables[14].names <=> n = <<"protocol_modules", n[2]>>
          /\ n[2] \in {"table", "uninstalled_at", "uninstalled_by", "uninstall_backup"}
  <1>1. Tables[14] = Create("protocol_modules", {"uninstalled_at", "uninstalled_by", "uninstall_backup"})
      BY DEF Tables
  <1> QED BY <1>1, CreatedNames

LEMMA Table15 ==
  /\ Tables[15].table = "warp_settings"
  /\ \A n : n \in Tables[15].names <=> n = <<"warp_settings", n[2]>>
          /\ n[2] \in {"table", "kill_switch", "config_installed"}
  <1>1. Tables[15] = Create("warp_settings", {"kill_switch", "config_installed"})  BY DEF Tables
  <1> QED BY <1>1, CreatedNames

LEMMA Table16 ==
  /\ Tables[16].table = "warp_split_sources"
  /\ \A n : n \in Tables[16].names <=> n = <<"warp_split_sources", n[2]>>
          /\ n[2] \in {"table", "fail_streak"}
  <1>1. Tables[16] = Create("warp_split_sources", {"fail_streak"})  BY DEF Tables
  <1> QED BY <1>1, CreatedNames

LEMMA Table17 ==
  /\ Tables[17].table = "warp_split_prefixes"
  /\ \A n : n \in Tables[17].names <=> n = <<"warp_split_prefixes", n[2]>> /\ n[2] \in {"table"}
  <1>1. Tables[17] = Create("warp_split_prefixes", {})  BY DEF Tables
  <1> QED BY <1>1, CreatedNames

LEMMA Table18 ==
  /\ Tables[18].table = "warp_split_exclusions"
  /\ \A n : n \in Tables[18].names <=> n = <<"warp_split_exclusions", n[2]>> /\ n[2] \in {"table"}
  <1>1. Tables[18] = Create("warp_split_exclusions", {})  BY DEF Tables
  <1> QED BY <1>1, CreatedNames

LEMMA Table19 ==
  /\ Tables[19].table = "warp_split_baseline"
  /\ \A n : n \in Tables[19].names <=> n = <<"warp_split_baseline", n[2]>> /\ n[2] \in {"table"}
  <1>1. Tables[19] = Create("warp_split_baseline", {})  BY DEF Tables
  <1> QED BY <1>1, CreatedNames

LEMMA Table20 ==
  /\ Tables[20].table = "warp_split_pending"
  /\ \A n : n \in Tables[20].names <=> n = <<"warp_split_pending", n[2]>> /\ n[2] \in {"table"}
  <1>1. Tables[20] = Create("warp_split_pending", {})  BY DEF Tables
  <1> QED BY <1>1, CreatedNames

LEMMA Table21 ==
  /\ Tables[21].table = "warp_split_runs"
  /\ \A n : n \in Tables[21].names <=> n = <<"warp_split_runs", n[2]>> /\ n[2] \in {"table"}
  <1>1. Tables[21] = Create("warp_split_runs", {})  BY DEF Tables
  <1> QED BY <1>1, CreatedNames

LEMMA Table22 ==
  /\ Tables[22].table = "server_status_settings"
  /\ \A n : n \in Tables[22].names <=> n = <<"server_status_settings", n[2]>> /\ n[2] \in {"table"}
  <1>1. Tables[22] = Create("server_status_settings", {})  BY DEF Tables
  <1> QED BY <1>1, CreatedNames

LEMMA Table23 ==
  /\ Tables[23].table = "maintenance_settings"
  /\ \A n : n \in Tables[23].names <=> n = <<"maintenance_settings", n[2]>> /\ n[2] \in {"table"}
  <1>1. Tables[23] = Create("maintenance_settings", {})  BY DEF Tables
  <1> QED BY <1>1, CreatedNames

\* schema.sql creates 23 tables.
LEMMA TableCount == Len(Tables) = 23 /\ DOMAIN Tables = 1..23
  BY DEF Tables

\* schema.sql is finite, so that a statement about its tables is one about each of them.
LEMMA TableIndex == \A i \in 1..23 :
  \/ i = 1 \/ i = 2 \/ i = 3 \/ i = 4 \/ i = 5 \/ i = 6 \/ i = 7 \/ i = 8 \/ i = 9 \/ i = 10 \/ i = 11
  \/ i = 12
  \/ i = 13 \/ i = 14 \/ i = 15 \/ i = 16 \/ i = 17 \/ i = 18 \/ i = 19 \/ i = 20 \/ i = 21 \/ i = 22
  \/ i = 23
  OBVIOUS

\* The tables by their places in schema.sql
LEMMA TableNames ==
  /\ Tables[1].table = "users" /\ Tables[2].table = "access_requests"
  /\ Tables[3].table = "vpn_keys" /\ Tables[4].table = "key_bundles"
  /\ Tables[5].table = "relays" /\ Tables[6].table = "trial_key_requests"
  /\ Tables[7].table = "proxy_entries" /\ Tables[8].table = "proxy_accesses"
  /\ Tables[9].table = "vpn_key_traffic_stats" /\ Tables[10].table = "deleted_key_traffic_archive"
  /\ Tables[11].table = "traffic_hourly" /\ Tables[12].table = "announcement_batches"
  /\ Tables[13].table = "announcement_deliveries" /\ Tables[14].table = "protocol_modules"
  /\ Tables[15].table = "warp_settings" /\ Tables[16].table = "warp_split_sources"
  /\ Tables[17].table = "warp_split_prefixes" /\ Tables[18].table = "warp_split_exclusions"
  /\ Tables[19].table = "warp_split_baseline" /\ Tables[20].table = "warp_split_pending"
  /\ Tables[21].table = "warp_split_runs" /\ Tables[22].table = "server_status_settings"
  /\ Tables[23].table = "maintenance_settings"
  BY Table1, Table2, Table3, Table4, Table5, Table6, Table7, Table8, Table9, Table10, Table11,
     Table12, Table13, Table14, Table15, Table16, Table17, Table18, Table19, Table20, Table21,
     Table22, Table23, SMTT(30)

\* schema.sql creates each table once, with columns of its own, and needs nothing.
LEMMA TablesAre ==
  /\ \A i \in 1..23 : /\ Tables[i].op = "ddl" /\ Tables[i].flag = TRUE
                      /\ Tables[i].needs = {}
  /\ \A i \in 1..23 : /\ Tables[i].table # "none"
                      /\ \A n \in Tables[i].names : n = <<n[1], n[2]>> /\ n[1] = Tables[i].table
                      /\ <<Tables[i].table, "table">> \in Tables[i].names
  /\ \A i, j \in 1..23 : Tables[i].table = Tables[j].table => i = j
  <1>1. \A i \in 1..23 : \E t, cols : Tables[i] = Create(t, cols)
    BY TableIndex DEF Tables
  <1>2. \A t, cols : Create(t, cols).op = "ddl" /\ Create(t, cols).flag = TRUE /\ Create(t, cols).needs = {}
    BY DEF Create, Stmt
  <1>3. \A i \in 1..23 : Tables[i].op = "ddl" /\ Tables[i].flag = TRUE /\ Tables[i].needs = {}
    BY <1>1, <1>2
  <1>4. ASSUME NEW i \in 1..23
        PROVE  /\ Tables[i].table # "none"
               /\ \A n \in Tables[i].names : n = <<n[1], n[2]>> /\ n[1] = Tables[i].table
               /\ <<Tables[i].table, "table">> \in Tables[i].names
    BY TableIndex, Table1, Table2, Table3, Table4, Table5, Table6, Table7, Table8, Table9, Table10, Table11,
            Table12, Table13, Table14, Table15, Table16, Table17, Table18, Table19, Table20, Table21,
            Table22, Table23
  <1>5. ASSUME NEW i \in 1..23, NEW j \in 1..23, Tables[i].table = Tables[j].table
        PROVE  i = j
    BY <1>5, TableIndex, TableNames, SMTT(30)
  <1> QED BY <1>3, <1>4, <1>5, ZenonT(40)

\* A name of the new database belongs to one of its tables.
LEMMA WholeIs ==
  ASSUME NEW n
  PROVE  n \in Whole <=> \E i \in 1..23 : n \in Tables[i].names
  BY TableCount DEF Whole

\* A schema name is a pair of a table and one of its columns.
LEMMA WholePairs == \A n \in Whole : n = <<n[1], n[2]>>
  BY WholeIs, TablesAre

\* The tables of a new database are those of schema.sql.
LEMMA WholeTablesIs ==
  ASSUME NEW t
  PROVE  <<t, "table">> \in WholeTables <=> \E i \in 1..23 : t = Tables[i].table
  BY TableCount DEF WholeTables

\* A table is one of the names of a new database.
LEMMA WholeTablesWhole == WholeTables \subseteq Whole
  <1> SUFFICES ASSUME NEW n \in WholeTables PROVE n \in Whole
    OBVIOUS
  <1>1. PICK i \in 1..23 : n = <<Tables[i].table, "table">>  BY TableCount DEF WholeTables
  <1>2. n \in Tables[i].names  BY <1>1, TablesAre
  <1> QED BY <1>2, WholeIs

\* Every name of a new database belongs to one of its tables.
LEMMA WholeHasTable == \A n \in Whole : <<n[1], "table">> \in WholeTables
  <1> SUFFICES ASSUME NEW n \in Whole PROVE <<n[1], "table">> \in WholeTables
    OBVIOUS
  <1>1. PICK i \in 1..23 : n \in Tables[i].names  BY WholeIs
  <1>2. n[1] = Tables[i].table  BY <1>1, TablesAre
  <1> QED BY <1>2, WholeTablesIs

\* The columns of one table
LEMMA WholeColumns ==
  ASSUME NEW i \in 1..23, NEW n \in Whole, n[1] = Tables[i].table
  PROVE  n \in Tables[i].names
  BY WholeIs, TablesAre

\* The columns of schema.sql are those of a new database.
LEMMA TableColumns ==
  ASSUME NEW i \in 1..23, NEW n \in Tables[i].names
  PROVE  n \in Whole
  BY WholeIs

-----------------------------------------------------------------------------
(* The version of a column *)

\* The later columns of vpn_keys and the migrations that add them
LEMMA SinceKeys ==
  ASSUME NEW n, n[1] = "vpn_keys", Since(n) # 0
  PROVE  \/ n[2] = "expires_at" /\ Since(n) = 13
         \/ n[2] = "notified_days" /\ Since(n) = 15
         \/ n[2] = "transport" /\ Since(n) = 23
         \/ n[2] = "xhttp_profile" /\ Since(n) = 28
         \/ n[2] = "CHECK_hysteria2" /\ Since(n) = 29
         \/ n[2] = "spider_x" /\ Since(n) = 31
         \/ n[2] = "bundle_id" /\ Since(n) = 32
         \/ n[2] = "relay" /\ Since(n) = 37
  <1>1. n[2] \in {"expires_at", "notified_days", "transport", "xhttp_profile", "CHECK_hysteria2",
                  "spider_x", "bundle_id", "relay"}
    BY DEF Since
  <1>2. n[2] = "expires_at" => Since(n) = 13  BY DEF Since
  <1>3. n[2] = "notified_days" => Since(n) = 15  BY DEF Since
  <1>4. n[2] = "transport" => Since(n) = 23  BY DEF Since
  <1>5. n[2] = "xhttp_profile" => Since(n) = 28  BY DEF Since
  <1>6. n[2] = "CHECK_hysteria2" => Since(n) = 29  BY DEF Since
  <1>7. n[2] = "spider_x" => Since(n) = 31  BY DEF Since
  <1>8. n[2] = "bundle_id" => Since(n) = 32  BY DEF Since
  <1>9. n[2] = "relay" => Since(n) = 37  BY DEF Since
  <1> QED BY <1>1, <1>2, <1>3, <1>4, <1>5, <1>6, <1>7, <1>8, <1>9

\* The later columns of users
LEMMA SinceUsers ==
  ASSUME NEW n, n[1] = "users", Since(n) # 0
  PROVE  \/ n[2] = "trial_quota_reset_at" /\ Since(n) = 13
         \/ n[2] = "note" /\ Since(n) = 14
         \/ n[2] = "CHECK_moderator" /\ Since(n) = 17
         \/ n[2] \in {"language", "expiry_notifications"} /\ Since(n) = 26
  <1>1. n[2] \in {"trial_quota_reset_at", "note", "CHECK_moderator", "language", "expiry_notifications"}
    BY DEF Since
  <1>2. n[2] = "trial_quota_reset_at" => Since(n) = 13  BY DEF Since
  <1>3. n[2] = "note" => Since(n) = 14  BY DEF Since
  <1>4. n[2] = "CHECK_moderator" => Since(n) = 17  BY DEF Since
  <1>5. n[2] \in {"language", "expiry_notifications"} => Since(n) = 26  BY DEF Since
  <1> QED BY <1>1, <1>2, <1>3, <1>4, <1>5

\* The later columns of announcement_batches
LEMMA SinceBatches ==
  ASSUME NEW n, n[1] = "announcement_batches", Since(n) # 0
  PROVE  \/ n[2] \in {"CHECK_scheduled", "scheduled_at"} /\ Since(n) = 16
         \/ n[2] = "filter" /\ Since(n) = 27
  BY DEF Since

\* The later columns of key_bundles
LEMMA SinceBundles ==
  ASSUME NEW n, n[1] = "key_bundles", Since(n) # 0
  PROVE  \/ n[2] = "display_no" /\ Since(n) = 33
         \/ n[2] = "kind" /\ Since(n) = 37
  BY DEF Since

\* The later columns of the small tables
LEMMA SinceSmall ==
  ASSUME NEW n, Since(n) # 0, n[1] \notin {"vpn_keys", "users", "announcement_batches", "key_bundles"}
  PROVE  \/ n[1] = "warp_settings" /\ n[2] # "table" /\ Since(n) = 30
         \/ n[1] = "warp_split_sources" /\ n[2] = "fail_streak" /\ Since(n) = 35
         \/ n[1] = "trial_key_requests" /\ n[2] = "CHECK_hysteria2" /\ Since(n) = 36
         \/ n[1] = "protocol_modules" /\ n[2] # "table" /\ Since(n) = 40
  <1>1. n[1] \in {"warp_settings", "warp_split_sources", "trial_key_requests", "protocol_modules"}
    BY DEF Since
  <1>2. CASE n[1] = "warp_settings"  BY <1>2 DEF Since
  <1>3. CASE n[1] = "warp_split_sources"  BY <1>3 DEF Since
  <1>4. CASE n[1] = "trial_key_requests"  BY <1>4 DEF Since
  <1>5. CASE n[1] = "protocol_modules"  BY <1>5 DEF Since
  <1> QED BY <1>1, <1>2, <1>3, <1>4, <1>5

\* No column is newer than the version of today.
LEMMA SinceRange == \A n : Since(n) \in 0..CurrentVersion
  BY DEF Since, CurrentVersion

\* The columns that a version adds to a table that is there, one name after the other
LateNames ==
  { <<13, "vpn_keys", "expires_at">>, <<15, "vpn_keys", "notified_days">>, <<23, "vpn_keys", "transport">>,
    <<28, "vpn_keys", "xhttp_profile">>, <<29, "vpn_keys", "CHECK_hysteria2">>,
    <<31, "vpn_keys", "spider_x">>,
    <<32, "vpn_keys", "bundle_id">>, <<37, "vpn_keys", "relay">>, <<13, "users", "trial_quota_reset_at">>,
    <<14, "users", "note">>, <<17, "users", "CHECK_moderator">>, <<26, "users", "language">>,
    <<26, "users", "expiry_notifications">>, <<16, "announcement_batches", "CHECK_scheduled">>,
    <<16, "announcement_batches", "scheduled_at">>, <<27, "announcement_batches", "filter">>,
    <<33, "key_bundles", "display_no">>, <<37, "key_bundles", "kind">>,
    <<30, "warp_settings", "kill_switch">>,
    <<30, "warp_settings", "config_installed">>, <<35, "warp_split_sources", "fail_streak">>,
    <<36, "trial_key_requests", "CHECK_hysteria2">>, <<40, "protocol_modules", "uninstalled_at">>,
    <<40, "protocol_modules", "uninstalled_by">>, <<40, "protocol_modules", "uninstall_backup">> }

\* The versions that add a column to a table that is there
LEMMA LateVersions == \A x \in LateNames :
    x[1] \in {13, 14, 15, 16, 17, 23, 26, 27, 28, 29, 30, 31, 32, 33, 35, 36, 37, 40}
  BY SMTT(30) DEF LateNames

\* The columns of the tables of settings
LEMMA SettingsColumns ==
  /\ \A n \in Whole : n[1] = "warp_settings" => n[2] \in {"table", "kill_switch", "config_installed"}
  /\ \A n \in Whole : n[1] = "protocol_modules"
        => n[2] \in {"table", "uninstalled_at", "uninstalled_by", "uninstall_backup"}
  <1>1. \A n \in Whole : n[1] = "warp_settings" => n \in Tables[15].names
    BY WholeColumns, TableNames
  <1>2. \A n \in Whole : n[1] = "protocol_modules" => n \in Tables[14].names
    BY WholeColumns, TableNames
  <1> QED BY <1>1, <1>2, Table14, Table15

\* A column that some migration adds is one of LateNames.
LEMMA LateIs ==
  ASSUME NEW n \in Whole, Since(n) # 0
  PROVE  <<Since(n), n[1], n[2]>> \in LateNames
  <1>1. CASE n[1] = "vpn_keys"  BY <1>1, SinceKeys DEF LateNames
  <1>2. CASE n[1] = "users"  BY <1>2, SinceUsers DEF LateNames
  <1>3. CASE n[1] = "announcement_batches"  BY <1>3, SinceBatches DEF LateNames
  <1>4. CASE n[1] = "key_bundles"  BY <1>4, SinceBundles DEF LateNames
  <1>5. CASE n[1] \notin {"vpn_keys", "users", "announcement_batches", "key_bundles"}
    BY <1>5, SinceSmall, SettingsColumns DEF LateNames
  <1> QED BY <1>1, <1>2, <1>3, <1>4, <1>5

\* For the arithmetic of versions
LEMMA SinceInt == \A n : Since(n) \in Int
  BY SinceRange DEF CurrentVersion

\* Likewise for the version of a stage
LEMMA VersionInt == \A s : s \in 1..CurrentVersion => s \in Int
  BY DEF CurrentVersion

-----------------------------------------------------------------------------
(* The statements *)

\* The statement needs names that a database of an earlier version than w has.
Met(w, s) == \A n \in s.needs : n \in Whole /\ Since(n) < w
Known(w, t, c) == <<t, c>> \in Whole /\ Since(<<t, c>>) < w
Good(w, s) == Steady(s) /\ Met(w, s)

\* The names of some columns of a table
LEMMA OfIs == \A t, cols, n : n \in Of(t, cols) <=> n = <<t, n[2]>> /\ n[2] \in cols
  BY DEF Of

\* A statement on known columns of a known table finds them.
LEMMA NeedsMet ==
  ASSUME NEW w, NEW s, NEW t, NEW cols, s.needs = Of(t, cols \cup {"table"}), Known(w, t, "table"),
         \A c \in cols : Known(w, t, c)
  PROVE  Met(w, s)
  BY OfIs DEF Met, Known

\* ALTER TABLE ADD COLUMN as a statement
LEMMA AddColIs ==
  ASSUME NEW t, NEW c, NEW s, s = AddCol(t, c)
  PROVE  /\ s.op = "ddl" /\ s.flag = TRUE /\ s.table = "none"
         /\ s.names = Of(t, {c}) /\ s.needs = Of(t, {"table"})
  BY DEF AddCol, Stmt

\* ADD COLUMN on a table that is there is good, and gains the column.
LEMMA AddColGood ==
  ASSUME NEW w, NEW t, NEW c, c # "table", <<t, c>> # <<"announcement_batches", "scheduled_at">>,
         Known(w, t, "table")
  PROVE  Good(w, AddCol(t, c)) /\ Gains(AddCol(t, c), <<t, c>>)
  <1> DEFINE s == AddCol(t, c)
  <1>1. /\ s.op = "ddl" /\ s.flag = TRUE /\ s.table = "none"
        /\ s.names = Of(t, {c}) /\ s.needs = Of(t, {"table"})
    BY AddColIs
  <1> HIDE DEF s
  <1>2. Side(s.names) /\ <<t, c>> \in s.names  BY <1>1, OfIs DEF Side
  <1>3. Met(w, s)  BY <1>1, OfIs DEF Met, Known
  <1> QED BY <1>1, <1>2, <1>3 DEF Good, Steady, Adds, Gains, s

\* CREATE INDEX on columns of earlier versions is good.
LEMMA IndexGood ==
  ASSUME NEW w, NEW t, NEW i, NEW cols, NEW what, i \notin {"table", "scheduled_at"}, Known(w, t, "table"),
         \A c \in cols : Known(w, t, c)
  PROVE  Good(w, Index(t, i, cols, what))
  <1> DEFINE s == Index(t, i, cols, what)
  <1>1. /\ s.op = "ddl" /\ s.flag = TRUE /\ s.table = "none"
        /\ s.names = Of(t, {i}) /\ s.needs = Of(t, cols \cup {"table"})
    BY DEF Index, Stmt
  <1> HIDE DEF s
  <1>2. Side(s.names)  BY <1>1, OfIs DEF Side
  <1>3. Met(w, s)  BY <1>1, NeedsMet
  <1> QED BY <1>1, <1>2, <1>3 DEF Good, Steady, Adds, s

\* A write to columns of earlier versions is good.
LEMMA WriteGood ==
  ASSUME NEW w, NEW t, NEW d, NEW cols, d # "table", Known(w, t, "table"), \A c \in cols : Known(w, t, c)
  PROVE  Good(w, Write(t, d, cols))
  <1> DEFINE s == Write(t, d, cols)
  <1>1. s.op = "write" /\ s.flag = FALSE /\ s.names = Of("data", {d})
          /\ s.needs = Of(t, cols \cup {"table"})
    BY DEF Write, Stmt
  <1> HIDE DEF s
  <1>2. Side(s.names)  BY <1>1, OfIs DEF Side
  <1>3. Met(w, s)  BY <1>1, NeedsMet
  <1> QED BY <1>1, <1>2, <1>3 DEF Good, Steady, Writes, s

\* A validation of columns of earlier versions is good.
LEMMA CheckGood ==
  ASSUME NEW w, NEW t, NEW what, NEW cols, Known(w, t, "table"), \A c \in cols : Known(w, t, c)
  PROVE  Good(w, Check(t, what, cols))
  <1> DEFINE s == Check(t, what, cols)
  <1>1. s.op = "check" /\ s.flag = FALSE /\ s.needs = Of(t, cols \cup {"table"})
    BY DEF Check, Stmt
  <1> HIDE DEF s
  <1>3. Met(w, s)  BY <1>1, NeedsMet
  <1> QED BY <1>1, <1>3 DEF Good, Steady, Checks, s

\* DROP INDEX is good: it takes no column away.
LEMMA DropIndexGood ==
  ASSUME NEW w, NEW t, NEW i, <<t, i>> \notin Whole
  PROVE  Good(w, DropIndex(t, i))
  <1> DEFINE s == DropIndex(t, i)
  <1>1. s.op = "dropindex" /\ s.flag = FALSE /\ s.names = Of(t, {i}) /\ s.needs = {}
    BY DEF DropIndex, Stmt
  <1> HIDE DEF s
  <1>2. s.names \cap Whole = {}  BY <1>1, OfIs
  <1> QED BY <1>1, <1>2 DEF Good, Steady, Removes, Met, s

\* A table of the chain has at least the columns that a new one has from its creation.
LEMMA CreateGood ==
  ASSUME NEW w, NEW t, NEW cols, t # "none", Known(w, t, "table"),
         t = "announcement_batches" => "scheduled_at" \notin cols,
         \A n \in Whole : n[1] = t /\ Since(n) = 0 => n[2] \in cols \cup {"table"}
  PROVE  Good(w, Create(t, cols))
  <1> DEFINE s == Create(t, cols)
  <1>1. s.op = "ddl" /\ s.flag = TRUE /\ s.table = t /\ s.needs = {} /\ s.names = Of(t, cols \cup {"table"})
    BY DEF Create, Stmt
  <1> HIDE DEF s
  <1>2. \A n \in s.names : n[1] = t /\ n # <<"announcement_batches", "scheduled_at">>
    BY <1>1, OfIs
  <1>3. \A n \in Whole : n[1] = t /\ Since(n) = 0 => n \in s.names
    BY <1>1, OfIs, WholePairs
  <1>4. <<t, "table">> \in WholeTables  BY WholeHasTable, SMTT(30) DEF Known
  <1> QED BY <1>1, <1>2, <1>3, <1>4 DEF Good, Steady, Creates, Met, s

-----------------------------------------------------------------------------
(* What a database of an earlier version has *)

AllTables ==
  {"users", "access_requests", "vpn_keys", "key_bundles", "relays", "trial_key_requests",
   "proxy_entries", "proxy_accesses", "vpn_key_traffic_stats", "deleted_key_traffic_archive",
   "traffic_hourly", "announcement_batches", "announcement_deliveries", "protocol_modules",
   "warp_settings", "warp_split_sources", "warp_split_prefixes", "warp_split_exclusions",
   "warp_split_baseline", "warp_split_pending", "warp_split_runs", "server_status_settings",
   "maintenance_settings"}

\* Every table is there from the first stage on.
LEMMA TableKnown ==
  ASSUME NEW w \in 1..41, NEW t \in AllTables
  PROVE  Known(w, t, "table") /\ t # "none"
  <1>1. PICK i \in 1..23 : Tables[i].table = t  BY TableNames DEF AllTables
  <1>2. <<t, "table">> \in Whole  BY <1>1, TablesAre, TableColumns
  <1>3. Since(<<t, "table">>) = 0  BY DEF Since
  <1> QED BY <1>1, <1>2, <1>3, TablesAre DEF Known

\* The columns that are there from the creation of their table
LEMMA FirstColumns ==
  /\ <<"users", "role">> \in Whole /\ Since(<<"users", "role">>) = 0
  /\ <<"users", "blocked_at">> \in Whole /\ Since(<<"users", "blocked_at">>) = 0
  /\ <<"access_requests", "status">> \in Whole /\ Since(<<"access_requests", "status">>) = 0
  /\ <<"vpn_keys", "owner">> \in Whole /\ Since(<<"vpn_keys", "owner">>) = 0
  /\ <<"vpn_keys", "uuid">> \in Whole /\ Since(<<"vpn_keys", "uuid">>) = 0
  /\ <<"vpn_keys", "label">> \in Whole /\ Since(<<"vpn_keys", "label">>) = 0
  /\ <<"vpn_keys", "client_ip">> \in Whole /\ Since(<<"vpn_keys", "client_ip">>) = 0
  /\ <<"key_bundles", "user">> \in Whole /\ Since(<<"key_bundles", "user">>) = 0
  /\ <<"key_bundles", "status">> \in Whole /\ Since(<<"key_bundles", "status">>) = 0
  /\ <<"trial_key_requests", "user">> \in Whole /\ Since(<<"trial_key_requests", "user">>) = 0
  /\ <<"trial_key_requests", "status">> \in Whole /\ Since(<<"trial_key_requests", "status">>) = 0
  /\ <<"proxy_accesses", "owner">> \in Whole /\ Since(<<"proxy_accesses", "owner">>) = 0
  /\ <<"proxy_accesses", "secret_fingerprint">> \in Whole
          /\ Since(<<"proxy_accesses", "secret_fingerprint">>) = 0
  /\ <<"proxy_accesses", "CHECK_revoke_failed">> \in Whole
          /\ Since(<<"proxy_accesses", "CHECK_revoke_failed">>) = 0
  /\ <<"announcement_batches", "status">> \in Whole /\ Since(<<"announcement_batches", "status">>) = 0
  /\ <<"announcement_batches", "updated_at">> \in Whole
          /\ Since(<<"announcement_batches", "updated_at">>) = 0
  <1>1. <<"users", "role">> \in Whole /\ Since(<<"users", "role">>) = 0
    BY Table1, TableColumns DEF Since
  <1>2. <<"users", "blocked_at">> \in Whole /\ Since(<<"users", "blocked_at">>) = 0
    BY Table1, TableColumns DEF Since
  <1>3. <<"access_requests", "status">> \in Whole /\ Since(<<"access_requests", "status">>) = 0
    BY Table2, TableColumns DEF Since
  <1>4. <<"vpn_keys", "owner">> \in Whole /\ Since(<<"vpn_keys", "owner">>) = 0
    BY Table3, TableColumns DEF Since
  <1>5. <<"vpn_keys", "uuid">> \in Whole /\ Since(<<"vpn_keys", "uuid">>) = 0
    BY Table3, TableColumns DEF Since
  <1>6. <<"vpn_keys", "label">> \in Whole /\ Since(<<"vpn_keys", "label">>) = 0
    BY Table3, TableColumns DEF Since
  <1>7. <<"vpn_keys", "client_ip">> \in Whole /\ Since(<<"vpn_keys", "client_ip">>) = 0
    BY Table3, TableColumns DEF Since
  <1>8. <<"key_bundles", "user">> \in Whole /\ Since(<<"key_bundles", "user">>) = 0
    BY Table4, TableColumns DEF Since
  <1>9. <<"key_bundles", "status">> \in Whole /\ Since(<<"key_bundles", "status">>) = 0
    BY Table4, TableColumns DEF Since
  <1>10. <<"trial_key_requests", "user">> \in Whole /\ Since(<<"trial_key_requests", "user">>) = 0
    BY Table6, TableColumns DEF Since
  <1>11. <<"trial_key_requests", "status">> \in Whole /\ Since(<<"trial_key_requests", "status">>) = 0
    BY Table6, TableColumns DEF Since
  <1>12. <<"proxy_accesses", "owner">> \in Whole /\ Since(<<"proxy_accesses", "owner">>) = 0
    BY Table8, TableColumns DEF Since
  <1>13. <<"proxy_accesses", "secret_fingerprint">> \in Whole
          /\ Since(<<"proxy_accesses", "secret_fingerprint">>) = 0
    BY Table8, TableColumns DEF Since
  <1>14. <<"proxy_accesses", "CHECK_revoke_failed">> \in Whole
          /\ Since(<<"proxy_accesses", "CHECK_revoke_failed">>) = 0
    BY Table8, TableColumns DEF Since
  <1>15. <<"announcement_batches", "status">> \in Whole /\ Since(<<"announcement_batches", "status">>) = 0
    BY Table12, TableColumns DEF Since
  <1>16. <<"announcement_batches", "updated_at">> \in Whole
          /\ Since(<<"announcement_batches", "updated_at">>) = 0
    BY Table12, TableColumns DEF Since
  <1> QED
      BY <1>1, <1>2, <1>3, <1>4, <1>5, <1>6, <1>7, <1>8, <1>9, <1>10, <1>11, <1>12, <1>13, <1>14, <1>15,
         <1>16

FirstNames ==
  { <<"users", "role">>, <<"users", "blocked_at">>, <<"access_requests", "status">>,
    <<"vpn_keys", "owner">>, <<"vpn_keys", "uuid">>, <<"vpn_keys", "label">>,
    <<"vpn_keys", "client_ip">>, <<"key_bundles", "user">>, <<"key_bundles", "status">>,
    <<"trial_key_requests", "user">>, <<"trial_key_requests", "status">>, <<"proxy_accesses", "owner">>,
    <<"proxy_accesses", "secret_fingerprint">>, <<"proxy_accesses", "CHECK_revoke_failed">>,
    <<"announcement_batches", "status">>, <<"announcement_batches", "updated_at">> }

\* Each of FirstColumns is known to every migration.
LEMMA FirstKnown ==
  ASSUME NEW w \in 1..41, NEW t, NEW c, <<t, c>> \in FirstNames
  PROVE  Known(w, t, c)
  BY FirstColumns DEF Known, FirstNames

\* LateNames has the versions of Since.
LEMMA LateColumns == \A x \in LateNames : <<x[2], x[3]>> \in Whole /\ Since(<<x[2], x[3]>>) = x[1]
  <1>1. <<"vpn_keys", "expires_at">> \in Whole /\ Since(<<"vpn_keys", "expires_at">>) = 13
    BY Table3, TableColumns DEF Since
  <1>2. <<"vpn_keys", "notified_days">> \in Whole /\ Since(<<"vpn_keys", "notified_days">>) = 15
    BY Table3, TableColumns DEF Since
  <1>3. <<"vpn_keys", "transport">> \in Whole /\ Since(<<"vpn_keys", "transport">>) = 23
    BY Table3, TableColumns DEF Since
  <1>4. <<"vpn_keys", "xhttp_profile">> \in Whole /\ Since(<<"vpn_keys", "xhttp_profile">>) = 28
    BY Table3, TableColumns DEF Since
  <1>5. <<"vpn_keys", "CHECK_hysteria2">> \in Whole /\ Since(<<"vpn_keys", "CHECK_hysteria2">>) = 29
    BY Table3, TableColumns DEF Since
  <1>6. <<"vpn_keys", "spider_x">> \in Whole /\ Since(<<"vpn_keys", "spider_x">>) = 31
    BY Table3, TableColumns DEF Since
  <1>7. <<"vpn_keys", "bundle_id">> \in Whole /\ Since(<<"vpn_keys", "bundle_id">>) = 32
    BY Table3, TableColumns DEF Since
  <1>8. <<"vpn_keys", "relay">> \in Whole /\ Since(<<"vpn_keys", "relay">>) = 37
    BY Table3, TableColumns DEF Since
  <1>9. <<"users", "trial_quota_reset_at">> \in Whole /\ Since(<<"users", "trial_quota_reset_at">>) = 13
    BY Table1, TableColumns DEF Since
  <1>10. <<"users", "note">> \in Whole /\ Since(<<"users", "note">>) = 14
    BY Table1, TableColumns DEF Since
  <1>11. <<"users", "CHECK_moderator">> \in Whole /\ Since(<<"users", "CHECK_moderator">>) = 17
    BY Table1, TableColumns DEF Since
  <1>12. <<"users", "language">> \in Whole /\ Since(<<"users", "language">>) = 26
    BY Table1, TableColumns DEF Since
  <1>13. <<"users", "expiry_notifications">> \in Whole /\ Since(<<"users", "expiry_notifications">>) = 26
    BY Table1, TableColumns DEF Since
  <1>14. <<"announcement_batches", "CHECK_scheduled">> \in Whole
          /\ Since(<<"announcement_batches", "CHECK_scheduled">>) = 16
    BY Table12, TableColumns DEF Since
  <1>15. <<"announcement_batches", "scheduled_at">> \in Whole
          /\ Since(<<"announcement_batches", "scheduled_at">>) = 16
    BY Table12, TableColumns DEF Since
  <1>16. <<"announcement_batches", "filter">> \in Whole /\ Since(<<"announcement_batches", "filter">>) = 27
    BY Table12, TableColumns DEF Since
  <1>17. <<"key_bundles", "display_no">> \in Whole /\ Since(<<"key_bundles", "display_no">>) = 33
    BY Table4, TableColumns DEF Since
  <1>18. <<"key_bundles", "kind">> \in Whole /\ Since(<<"key_bundles", "kind">>) = 37
    BY Table4, TableColumns DEF Since
  <1>19. <<"warp_settings", "kill_switch">> \in Whole /\ Since(<<"warp_settings", "kill_switch">>) = 30
    BY Table15, TableColumns DEF Since
  <1>20. <<"warp_settings", "config_installed">> \in Whole
          /\ Since(<<"warp_settings", "config_installed">>) = 30
    BY Table15, TableColumns DEF Since
  <1>21. <<"warp_split_sources", "fail_streak">> \in Whole
          /\ Since(<<"warp_split_sources", "fail_streak">>) = 35
    BY Table16, TableColumns DEF Since
  <1>22. <<"trial_key_requests", "CHECK_hysteria2">> \in Whole
          /\ Since(<<"trial_key_requests", "CHECK_hysteria2">>) = 36
    BY Table6, TableColumns DEF Since
  <1>23. <<"protocol_modules", "uninstalled_at">> \in Whole
          /\ Since(<<"protocol_modules", "uninstalled_at">>) = 40
    BY Table14, TableColumns DEF Since
  <1>24. <<"protocol_modules", "uninstalled_by">> \in Whole
          /\ Since(<<"protocol_modules", "uninstalled_by">>) = 40
    BY Table14, TableColumns DEF Since
  <1>25. <<"protocol_modules", "uninstall_backup">> \in Whole
          /\ Since(<<"protocol_modules", "uninstall_backup">>) = 40
    BY Table14, TableColumns DEF Since
  <1> QED BY <1>1, <1>2, <1>3, <1>4, <1>5, <1>6, <1>7, <1>8, <1>9, <1>10, <1>11, <1>12, <1>13, <1>14,
             <1>15, <1>16, <1>17, <1>18, <1>19, <1>20, <1>21, <1>22, <1>23, <1>24, <1>25 DEF LateNames

\* The tables as the chain creates them
LEMMA ChainCreates ==
  ASSUME NEW w \in 1..41
  PROVE  /\ Good(w, Create("vpn_key_traffic_stats", {}))
         /\ Good(w, Create("announcement_batches", {"status", "updated_at"}))
         /\ Good(w, Create("announcement_deliveries", {}))
         /\ Good(w, Create("proxy_accesses", ProxyCols))
         /\ Good(w, Create("trial_key_requests", {"user", "status"}))
         /\ Good(w, Create("warp_settings", {}))
         /\ Good(w, Create("protocol_modules", {}))
         /\ Good(w, Create("deleted_key_traffic_archive", {}))
         /\ Good(w, Create("server_status_settings", {}))
         /\ Good(w, Create("maintenance_settings", {}))
         /\ Good(w, Create("key_bundles", {"user", "status"}))
         /\ Good(w, Create("warp_split_sources", {}))
         /\ Good(w, Create("warp_split_prefixes", {}))
         /\ Good(w, Create("warp_split_exclusions", {}))
         /\ Good(w, Create("warp_split_baseline", {}))
         /\ Good(w, Create("warp_split_pending", {}))
         /\ Good(w, Create("warp_split_runs", {}))
         /\ Good(w, Create("relays", {}))
         /\ Good(w, Create("traffic_hourly", {}))
  <1>1. Good(w, Create("vpn_key_traffic_stats", {}))
    <2>1. \A n \in Whole : n[1] = "vpn_key_traffic_stats" => n \in Tables[9].names
        BY WholeColumns, TableNames
    <2>2. \A n \in Whole : n[1] = "vpn_key_traffic_stats" /\ Since(n) = 0 => n[2] \in {} \cup {"table"}
      BY <2>1, Table9
    <2> QED BY <2>2, TableKnown, CreateGood DEF AllTables
  <1>2. Good(w, Create("announcement_batches", {"status", "updated_at"}))
    <2>1. \A n \in Whole : n[1] = "announcement_batches" => n \in Tables[12].names
        BY WholeColumns, TableNames
    <2>2. \A n \in Whole : n[1] = "announcement_batches" /\ Since(n) = 0
            => n[2] \in {"status", "updated_at"} \cup {"table"}
      BY <2>1, Table12 DEF Since
    <2> QED BY <2>2, TableKnown, CreateGood DEF AllTables
  <1>3. Good(w, Create("announcement_deliveries", {}))
    <2>1. \A n \in Whole : n[1] = "announcement_deliveries" => n \in Tables[13].names
        BY WholeColumns, TableNames
    <2>2. \A n \in Whole : n[1] = "announcement_deliveries" /\ Since(n) = 0 => n[2] \in {} \cup {"table"}
      BY <2>1, Table13
    <2> QED BY <2>2, TableKnown, CreateGood DEF AllTables
  <1>4. Good(w, Create("proxy_accesses", ProxyCols))
    <2>1. \A n \in Whole : n[1] = "proxy_accesses" => n \in Tables[8].names  BY WholeColumns, TableNames
    <2>2. \A n \in Whole : n[1] = "proxy_accesses" /\ Since(n) = 0 => n[2] \in ProxyCols \cup {"table"}
      BY <2>1, Table8 DEF ProxyCols
    <2> QED BY <2>2, TableKnown, CreateGood DEF AllTables
  <1>5. Good(w, Create("trial_key_requests", {"user", "status"}))
    <2>1. \A n \in Whole : n[1] = "trial_key_requests" => n \in Tables[6].names  BY WholeColumns, TableNames
    <2>2. \A n \in Whole : n[1] = "trial_key_requests" /\ Since(n) = 0
            => n[2] \in {"user", "status"} \cup {"table"}
      BY <2>1, Table6 DEF Since
    <2> QED BY <2>2, TableKnown, CreateGood DEF AllTables
  <1>6. Good(w, Create("warp_settings", {}))
    <2>1. \A n \in Whole : n[1] = "warp_settings" => n \in Tables[15].names  BY WholeColumns, TableNames
    <2>2. \A n \in Whole : n[1] = "warp_settings" /\ Since(n) = 0 => n[2] \in {} \cup {"table"}
      BY <2>1, Table15 DEF Since
    <2> QED BY <2>2, TableKnown, CreateGood DEF AllTables
  <1>7. Good(w, Create("protocol_modules", {}))
    <2>1. \A n \in Whole : n[1] = "protocol_modules" => n \in Tables[14].names  BY WholeColumns, TableNames
    <2>2. \A n \in Whole : n[1] = "protocol_modules" /\ Since(n) = 0 => n[2] \in {} \cup {"table"}
      BY <2>1, Table14 DEF Since
    <2> QED BY <2>2, TableKnown, CreateGood DEF AllTables
  <1>8. Good(w, Create("deleted_key_traffic_archive", {}))
    <2>1. \A n \in Whole : n[1] = "deleted_key_traffic_archive" => n \in Tables[10].names
        BY WholeColumns, TableNames
    <2>2. \A n \in Whole : n[1] = "deleted_key_traffic_archive" /\ Since(n) = 0
            => n[2] \in {} \cup {"table"}
      BY <2>1, Table10
    <2> QED BY <2>2, TableKnown, CreateGood DEF AllTables
  <1>9. Good(w, Create("server_status_settings", {}))
    <2>1. \A n \in Whole : n[1] = "server_status_settings" => n \in Tables[22].names
        BY WholeColumns, TableNames
    <2>2. \A n \in Whole : n[1] = "server_status_settings" /\ Since(n) = 0 => n[2] \in {} \cup {"table"}
      BY <2>1, Table22
    <2> QED BY <2>2, TableKnown, CreateGood DEF AllTables
  <1>10. Good(w, Create("maintenance_settings", {}))
    <2>1. \A n \in Whole : n[1] = "maintenance_settings" => n \in Tables[23].names
        BY WholeColumns, TableNames
    <2>2. \A n \in Whole : n[1] = "maintenance_settings" /\ Since(n) = 0 => n[2] \in {} \cup {"table"}
      BY <2>1, Table23
    <2> QED BY <2>2, TableKnown, CreateGood DEF AllTables
  <1>11. Good(w, Create("key_bundles", {"user", "status"}))
    <2>1. \A n \in Whole : n[1] = "key_bundles" => n \in Tables[4].names  BY WholeColumns, TableNames
    <2>2. \A n \in Whole : n[1] = "key_bundles" /\ Since(n) = 0
            => n[2] \in {"user", "status"} \cup {"table"}
      BY <2>1, Table4 DEF Since
    <2> QED BY <2>2, TableKnown, CreateGood DEF AllTables
  <1>12. Good(w, Create("warp_split_sources", {}))
    <2>1. \A n \in Whole : n[1] = "warp_split_sources" => n \in Tables[16].names
        BY WholeColumns, TableNames
    <2>2. \A n \in Whole : n[1] = "warp_split_sources" /\ Since(n) = 0 => n[2] \in {} \cup {"table"}
      BY <2>1, Table16 DEF Since
    <2> QED BY <2>2, TableKnown, CreateGood DEF AllTables
  <1>13. Good(w, Create("warp_split_prefixes", {}))
    <2>1. \A n \in Whole : n[1] = "warp_split_prefixes" => n \in Tables[17].names
        BY WholeColumns, TableNames
    <2>2. \A n \in Whole : n[1] = "warp_split_prefixes" /\ Since(n) = 0 => n[2] \in {} \cup {"table"}
      BY <2>1, Table17
    <2> QED BY <2>2, TableKnown, CreateGood DEF AllTables
  <1>14. Good(w, Create("warp_split_exclusions", {}))
    <2>1. \A n \in Whole : n[1] = "warp_split_exclusions" => n \in Tables[18].names
        BY WholeColumns, TableNames
    <2>2. \A n \in Whole : n[1] = "warp_split_exclusions" /\ Since(n) = 0 => n[2] \in {} \cup {"table"}
      BY <2>1, Table18
    <2> QED BY <2>2, TableKnown, CreateGood DEF AllTables
  <1>15. Good(w, Create("warp_split_baseline", {}))
    <2>1. \A n \in Whole : n[1] = "warp_split_baseline" => n \in Tables[19].names
        BY WholeColumns, TableNames
    <2>2. \A n \in Whole : n[1] = "warp_split_baseline" /\ Since(n) = 0 => n[2] \in {} \cup {"table"}
      BY <2>1, Table19
    <2> QED BY <2>2, TableKnown, CreateGood DEF AllTables
  <1>16. Good(w, Create("warp_split_pending", {}))
    <2>1. \A n \in Whole : n[1] = "warp_split_pending" => n \in Tables[20].names
        BY WholeColumns, TableNames
    <2>2. \A n \in Whole : n[1] = "warp_split_pending" /\ Since(n) = 0 => n[2] \in {} \cup {"table"}
      BY <2>1, Table20
    <2> QED BY <2>2, TableKnown, CreateGood DEF AllTables
  <1>17. Good(w, Create("warp_split_runs", {}))
    <2>1. \A n \in Whole : n[1] = "warp_split_runs" => n \in Tables[21].names  BY WholeColumns, TableNames
    <2>2. \A n \in Whole : n[1] = "warp_split_runs" /\ Since(n) = 0 => n[2] \in {} \cup {"table"}
      BY <2>1, Table21
    <2> QED BY <2>2, TableKnown, CreateGood DEF AllTables
  <1>18. Good(w, Create("relays", {}))
    <2>1. \A n \in Whole : n[1] = "relays" => n \in Tables[5].names  BY WholeColumns, TableNames
    <2>2. \A n \in Whole : n[1] = "relays" /\ Since(n) = 0 => n[2] \in {} \cup {"table"}
      BY <2>1, Table5
    <2> QED BY <2>2, TableKnown, CreateGood DEF AllTables
  <1>19. Good(w, Create("traffic_hourly", {}))
    <2>1. \A n \in Whole : n[1] = "traffic_hourly" => n \in Tables[11].names  BY WholeColumns, TableNames
    <2>2. \A n \in Whole : n[1] = "traffic_hourly" /\ Since(n) = 0 => n[2] \in {} \cup {"table"}
      BY <2>1, Table11
    <2> QED BY <2>2, TableKnown, CreateGood DEF AllTables
  <1> QED BY <1>1, <1>2, <1>3, <1>4, <1>5, <1>6, <1>7, <1>8, <1>9, <1>10, <1>11, <1>12, <1>13, <1>14,
             <1>15, <1>16, <1>17, <1>18, <1>19

\* No index of the chain has the name of a column.
IndexNames ==
  {"idx_client_ip_active", "idx_status", "idx_scheduled", "idx_role", "idx_active_role", "idx_user",
   "idx_one_pending", "idx_owner", "idx_type_status", "idx_status_type", "idx_owner_type_status",
   "idx_uuid",
   "idx_email_label", "idx_public_key", "idx_short_id", "idx_client_ip_reserved", "idx_expires_at"}

\* An index is none of the names of a new database, so that to drop it loses nothing.
LEMMA NoIndexWhole == \A t, i : i \in IndexNames => <<t, i>> \notin Whole
  <1> SUFFICES ASSUME NEW n \in Whole PROVE n[2] \notin IndexNames
    OBVIOUS
  <1>0. PICK k \in 1..23 : n \in Tables[k].names  BY WholeIs
  <1>1. n \in Tables[1].names => n[2] \notin IndexNames  BY Table1 DEF IndexNames
  <1>2. n \in Tables[2].names => n[2] \notin IndexNames  BY Table2 DEF IndexNames
  <1>3. n \in Tables[3].names => n[2] \notin IndexNames  BY Table3 DEF IndexNames
  <1>4. n \in Tables[4].names => n[2] \notin IndexNames  BY Table4 DEF IndexNames
  <1>5. n \in Tables[5].names => n[2] \notin IndexNames  BY Table5 DEF IndexNames
  <1>6. n \in Tables[6].names => n[2] \notin IndexNames  BY Table6 DEF IndexNames
  <1>7. n \in Tables[7].names => n[2] \notin IndexNames  BY Table7 DEF IndexNames
  <1>8. n \in Tables[8].names => n[2] \notin IndexNames  BY Table8 DEF IndexNames
  <1>9. n \in Tables[9].names => n[2] \notin IndexNames  BY Table9 DEF IndexNames
  <1>10. n \in Tables[10].names => n[2] \notin IndexNames  BY Table10 DEF IndexNames
  <1>11. n \in Tables[11].names => n[2] \notin IndexNames  BY Table11 DEF IndexNames
  <1>12. n \in Tables[12].names => n[2] \notin IndexNames  BY Table12 DEF IndexNames
  <1>13. n \in Tables[13].names => n[2] \notin IndexNames  BY Table13 DEF IndexNames
  <1>14. n \in Tables[14].names => n[2] \notin IndexNames  BY Table14 DEF IndexNames
  <1>15. n \in Tables[15].names => n[2] \notin IndexNames  BY Table15 DEF IndexNames
  <1>16. n \in Tables[16].names => n[2] \notin IndexNames  BY Table16 DEF IndexNames
  <1>17. n \in Tables[17].names => n[2] \notin IndexNames  BY Table17 DEF IndexNames
  <1>18. n \in Tables[18].names => n[2] \notin IndexNames  BY Table18 DEF IndexNames
  <1>19. n \in Tables[19].names => n[2] \notin IndexNames  BY Table19 DEF IndexNames
  <1>20. n \in Tables[20].names => n[2] \notin IndexNames  BY Table20 DEF IndexNames
  <1>21. n \in Tables[21].names => n[2] \notin IndexNames  BY Table21 DEF IndexNames
  <1>22. n \in Tables[22].names => n[2] \notin IndexNames  BY Table22 DEF IndexNames
  <1>23. n \in Tables[23].names => n[2] \notin IndexNames  BY Table23 DEF IndexNames
  <1> QED BY <1>0, <1>1, <1>2, <1>3, <1>4, <1>5, <1>6, <1>7, <1>8, <1>9, <1>10, <1>11, <1>12, <1>13,
             <1>14, <1>15, <1>16, <1>17, <1>18, <1>19, <1>20, <1>21, <1>22, <1>23, TableIndex

\* A later column is known to the migrations after the one that adds it.
LEMMA LateKnown ==
  ASSUME NEW k, NEW t, NEW c, <<k, t, c>> \in LateNames, NEW w \in 1..41, k < w
  PROVE  Known(w, t, c)
  BY LateColumns DEF Known

-----------------------------------------------------------------------------
(* The migrations without a rebuild *)

\* A migration whose statements are of known kinds and find what they need
Lean(w, q) == IsSeq(q) /\ SoundNeeds(w, q) /\ SoundKinds(q)

\* The empty migration
LEMMA Lean0 == ASSUME NEW w PROVE Lean(w, << >>)
  <1>1. << >> \in Seq({})  OBVIOUS
  <1> QED BY <1>1 DEF Lean, IsSeq, SoundNeeds, SoundKinds

\* A migration of one good statement
LEMMA Lean1 == ASSUME NEW w \in 1..41, NEW a, Good(w, a) PROVE Lean(w, <<a>>)
  <1>1. <<a>> \in Seq({a})  OBVIOUS
  <1>2. SoundNeeds(w, <<a>>)  BY SinceInt DEF SoundNeeds, Good, Met
  <1>3. SoundKinds(<<a>>)  BY DEF SoundKinds, Good
  <1>4. IsSeq(<<a>>)  BY <1>1 DEF IsSeq
  <1> QED BY <1>2, <1>3, <1>4 DEF Lean

\* A migration of two good statements
LEMMA Lean2 == ASSUME NEW w \in 1..41, NEW a, NEW b, Good(w, a), Good(w, b) PROVE Lean(w, <<a, b>>)
  <1>1. <<a, b>> \in Seq({a, b})  OBVIOUS
  <1>2. SoundNeeds(w, <<a, b>>)  BY SinceInt DEF SoundNeeds, Good, Met
  <1>3. SoundKinds(<<a, b>>)  BY DEF SoundKinds, Good
  <1>4. IsSeq(<<a, b>>)  BY <1>1 DEF IsSeq
  <1> QED BY <1>2, <1>3, <1>4 DEF Lean

\* A migration of three good statements
LEMMA Lean3 ==
  ASSUME NEW w \in 1..41, NEW a, NEW b, NEW c, Good(w, a), Good(w, b), Good(w, c)
  PROVE  Lean(w, <<a, b, c>>)
  <1>1. <<a, b, c>> \in Seq({a, b, c})  OBVIOUS
  <1>2. SoundNeeds(w, <<a, b, c>>)  BY SinceInt DEF SoundNeeds, Good, Met
  <1>3. SoundKinds(<<a, b, c>>)  BY DEF SoundKinds, Good
  <1>4. IsSeq(<<a, b, c>>)  BY <1>1 DEF IsSeq
  <1> QED BY <1>2, <1>3, <1>4 DEF Lean

\* A migration of four good statements
LEMMA Lean4 ==
  ASSUME NEW w \in 1..41, NEW a, NEW b, NEW c, NEW d, Good(w, a), Good(w, b), Good(w, c), Good(w, d)
  PROVE  Lean(w, <<a, b, c, d>>)
  <1>1. <<a, b, c, d>> \in Seq({a, b, c, d})  OBVIOUS
  <1>2. SoundNeeds(w, <<a, b, c, d>>)  BY SinceInt DEF SoundNeeds, Good, Met
  <1>3. SoundKinds(<<a, b, c, d>>)  BY DEF SoundKinds, Good
  <1>4. IsSeq(<<a, b, c, d>>)  BY <1>1 DEF IsSeq
  <1> QED BY <1>2, <1>3, <1>4 DEF Lean

\* The stages that add no column to a table that is there
LEMMA NoGains ==
  ASSUME NEW w \in 1..CurrentVersion, NEW q, Lean(w, q), \A x \in LateNames : x[1] # w
  PROVE  Sound(w, q)
  <1>1. ASSUME NEW n \in Whole, Since(n) = w
        PROVE  FALSE
    <2>1. Since(n) # 0  BY <1>1 DEF CurrentVersion
    <2>2. <<Since(n), n[1], n[2]>> \in LateNames  BY <2>1, LateIs
    <2> QED BY <1>1, <2>2
  <1>2. SoundGains(w, q)  BY <1>1 DEF SoundGains
  <1> QED BY <1>2 DEF Lean, Sound

\* From here to Sound40: each migration without a rebuild is sound.
LEMMA Sound1 == Sound(1, MigrateV1)
  BY Lean0, NoGains, LateVersions DEF MigrateV1, CurrentVersion

LEMMA Sound2 == Sound(2, MigrateV2)
  <1>1. Good(2, Index("vpn_keys", "idx_owner_type_status", {"owner"}, "none"))
    <2>1. Known(2, "vpn_keys", "table")  BY TableKnown DEF AllTables
    <2>2. Known(2, "vpn_keys", "owner")  BY FirstKnown DEF FirstNames
    <2> QED BY <2>1, <2>2, IndexGood
  <1> QED BY <1>1, Lean1, NoGains, LateVersions DEF MigrateV2, CurrentVersion

LEMMA Sound3 == Sound(3, MigrateV3)
  <1>1. Good(3, Create("vpn_key_traffic_stats", {}))  BY ChainCreates
  <1>2. Good(3, Index("vpn_key_traffic_stats", "idx_success", {}, "none"))
    BY IndexGood, TableKnown DEF AllTables, FirstNames
  <1> QED BY <1>1, <1>2, Lean2, NoGains, LateVersions DEF MigrateV3, CurrentVersion

LEMMA Sound4 == Sound(4, MigrateV4)
  <1>0. /\ Known(4, "access_requests", "table") /\ Known(4, "access_requests", "status")
        /\ Known(4, "vpn_keys", "table")
    <2>1. Known(4, "access_requests", "table")  BY TableKnown DEF AllTables
    <2>2. Known(4, "access_requests", "status")  BY FirstKnown DEF FirstNames
    <2>3. Known(4, "vpn_keys", "table")  BY TableKnown DEF AllTables
    <2> QED BY <2>1, <2>2, <2>3
  <1>1. Good(4, Write("access_requests", "one_pending", {"status"}))  BY <1>0, WriteGood
  <1>2. Good(4, Index("access_requests", "idx_one_pending", {"status"}, "none"))  BY <1>0, IndexGood
  <1>3. Good(4, Index("access_requests", "idx_pending_created", {"status"}, "none"))  BY <1>0, IndexGood
  <1>4. Good(4, Index("vpn_keys", "idx_status_type", {}, "none"))  BY <1>0, IndexGood
  <1> QED BY <1>1, <1>2, <1>3, <1>4, Lean4, NoGains, LateVersions DEF MigrateV4, CurrentVersion

LEMMA Sound5 == Sound(5, MigrateV5)
  <1>1. Good(5, Check("vpn_keys", "same_ip", {"client_ip"}))
    <2>1. Known(5, "vpn_keys", "table")  BY TableKnown DEF AllTables
    <2>2. Known(5, "vpn_keys", "client_ip")  BY FirstKnown DEF FirstNames
    <2> QED BY <2>1, <2>2, CheckGood
  <1>2. Good(5, DropIndex("vpn_keys", "idx_client_ip_active"))
      BY DropIndexGood, NoIndexWhole DEF IndexNames
  <1>3. Good(5, Index("vpn_keys", "idx_client_ip_reserved", {"client_ip"}, "none"))
    <2>1. Known(5, "vpn_keys", "table")  BY TableKnown DEF AllTables
    <2>2. Known(5, "vpn_keys", "client_ip")  BY FirstKnown DEF FirstNames
    <2> QED BY <2>1, <2>2, IndexGood
  <1> QED BY <1>1, <1>2, <1>3, Lean3, NoGains DEF MigrateV5, ValidateClientIps, LateNames, CurrentVersion

LEMMA Sound6 == Sound(6, MigrateV6)
  <1>1. Good(6, Check("vpn_keys", "same_ip", {"client_ip"}))
    <2>1. Known(6, "vpn_keys", "table")  BY TableKnown DEF AllTables
    <2>2. Known(6, "vpn_keys", "client_ip")  BY FirstKnown DEF FirstNames
    <2> QED BY <2>1, <2>2, CheckGood
  <1>2. Good(6, DropIndex("vpn_keys", "idx_client_ip_reserved"))
      BY DropIndexGood, NoIndexWhole DEF IndexNames
  <1>3. Good(6, Index("vpn_keys", "idx_client_ip_reserved", {"client_ip"}, "same_ip"))
    <2>1. Known(6, "vpn_keys", "table")  BY TableKnown DEF AllTables
    <2>2. Known(6, "vpn_keys", "client_ip")  BY FirstKnown DEF FirstNames
    <2> QED BY <2>1, <2>2, IndexGood
  <1> QED BY <1>1, <1>2, <1>3, Lean3, NoGains DEF MigrateV6, ValidateClientIps, LateNames, CurrentVersion

LEMMA Sound7 == Sound(7, AnnouncementTables)
  <1>1. Good(7, Create("announcement_batches", {"status", "updated_at"}))  BY ChainCreates
  <1>2. Good(7, Create("announcement_deliveries", {}))  BY ChainCreates
  <1>3. Good(7, Index("announcement_batches", "idx_status", {"status", "updated_at"}, "none"))
    <2>1. Known(7, "announcement_batches", "table")  BY TableKnown DEF AllTables
    <2>2. Known(7, "announcement_batches", "status")  BY FirstKnown DEF FirstNames
    <2>3. Known(7, "announcement_batches", "updated_at")  BY FirstKnown DEF FirstNames
    <2> QED BY <2>1, <2>2, <2>3, IndexGood
  <1>4. Good(7, Index("announcement_deliveries", "idx_status", {}, "none"))
    BY IndexGood, TableKnown DEF AllTables
  <1> QED BY <1>1, <1>2, <1>3, <1>4, Lean4, NoGains, LateVersions DEF AnnouncementTables, CurrentVersion

LEMMA Sound10 == Sound(10, ProxyLiveIndex)
  <1>1. Good(10, Check("proxy_accesses", "two_live_proxies", {"owner"}))
    <2>1. Known(10, "proxy_accesses", "table")  BY TableKnown DEF AllTables
    <2>2. Known(10, "proxy_accesses", "owner")  BY FirstKnown DEF FirstNames
    <2> QED BY <2>1, <2>2, CheckGood
  <1>2. Good(10, Index("proxy_accesses", "idx_one_live", {"owner"}, "two_live_proxies"))
    <2>1. Known(10, "proxy_accesses", "table")  BY TableKnown DEF AllTables
    <2>2. Known(10, "proxy_accesses", "owner")  BY FirstKnown DEF FirstNames
    <2> QED BY <2>1, <2>2, IndexGood
  <1> QED BY <1>1, <1>2, Lean2, NoGains, LateVersions DEF ProxyLiveIndex, CurrentVersion

LEMMA Sound11 == Sound(11, NormalizeRoles)
  <1>1. Good(11, Write("users", "roles_normalised", {"role"}))
    <2>1. Known(11, "users", "table")  BY TableKnown DEF AllTables
    <2>2. Known(11, "users", "role")  BY FirstKnown DEF FirstNames
    <2> QED BY <2>1, <2>2, WriteGood
  <1> QED BY <1>1, Lean1, NoGains, LateVersions DEF NormalizeRoles, CurrentVersion

LEMMA Sound12 == Sound(12, PerformanceIndexes)
  <1>1. Good(12, Index("users", "idx_active_role", {"role", "blocked_at"}, "none"))
    <2>1. Known(12, "users", "table")  BY TableKnown DEF AllTables
    <2>2. Known(12, "users", "role")  BY FirstKnown DEF FirstNames
    <2>3. Known(12, "users", "blocked_at")  BY FirstKnown DEF FirstNames
    <2> QED BY <2>1, <2>2, <2>3, IndexGood
  <1>2. Good(12, Index("vpn_keys", "idx_short_id", {}, "none"))
    BY IndexGood, TableKnown DEF AllTables
  <1> QED BY <1>1, <1>2, Lean2, NoGains, LateVersions DEF PerformanceIndexes, CurrentVersion

LEMMA Sound14 == Sound(14, MigrateV14)
  <1>1. Good(14, AddCol("users", "note")) /\ Gains(AddCol("users", "note"), <<"users", "note">>)
    BY AddColGood, TableKnown DEF AllTables
  <1>2. Lean(14, MigrateV14)  BY <1>1, Lean1 DEF MigrateV14
  <1>3. \A n \in Whole : Since(n) = 14 => n = <<"users", "note">>
    BY LateIs, WholePairs DEF LateNames
  <1>4. SoundGains(14, MigrateV14)  BY <1>1, <1>3 DEF SoundGains, MigrateV14
  <1> QED BY <1>2, <1>4 DEF Lean, Sound

LEMMA Sound15 == Sound(15, MigrateV15)
  <1>1. Good(15, AddCol("vpn_keys", "notified_days"))
          /\ Gains(AddCol("vpn_keys", "notified_days"), <<"vpn_keys", "notified_days">>)
    BY AddColGood, TableKnown DEF AllTables
  <1>2. Lean(15, MigrateV15)  BY <1>1, Lean1 DEF MigrateV15
  <1>3. \A n \in Whole : Since(n) = 15 => n = <<"vpn_keys", "notified_days">>
    BY LateIs, WholePairs DEF LateNames
  <1>4. SoundGains(15, MigrateV15)  BY <1>1, <1>3 DEF SoundGains, MigrateV15
  <1> QED BY <1>2, <1>4 DEF Lean, Sound

LEMMA Sound18 == Sound(18, MigrateV18)
  <1>1. Good(18, Index("trial_key_requests", "idx_one_pending", {"user", "status"}, "two_pending_trials"))
    <2>1. Known(18, "trial_key_requests", "table")  BY TableKnown DEF AllTables
    <2>2. Known(18, "trial_key_requests", "user")  BY FirstKnown DEF FirstNames
    <2>3. Known(18, "trial_key_requests", "status")  BY FirstKnown DEF FirstNames
    <2> QED BY <2>1, <2>2, <2>3, IndexGood
  <1> QED BY <1>1, Lean1, NoGains, LateVersions DEF MigrateV18, CurrentVersion

LEMMA Sound19 == Sound(19, MigrateV19)
  <1>1. Good(19, Write("vpn_keys", "ips_released", {"client_ip"}))
    <2>1. Known(19, "vpn_keys", "table")  BY TableKnown DEF AllTables
    <2>2. Known(19, "vpn_keys", "client_ip")  BY FirstKnown DEF FirstNames
    <2> QED BY <2>1, <2>2, WriteGood
  <1> QED BY <1>1, Lean1, NoGains, LateVersions DEF MigrateV19, CurrentVersion

LEMMA Sound20 == Sound(20, MigrateV20)
  <1>1. Good(20, Create("warp_settings", {}))  BY ChainCreates
  <1>2. Good(20, Write("warp_settings", "warp_row", {}))
    BY WriteGood, TableKnown DEF AllTables
  <1> QED BY <1>1, <1>2, Lean2, NoGains, LateVersions DEF MigrateV20, CurrentVersion

LEMMA Sound21 == Sound(21, MigrateV21)
  <1>1. Good(21, Create("protocol_modules", {}))  BY ChainCreates
  <1>2. Good(21, Write("protocol_modules", "four_modules", {}))
    BY WriteGood, TableKnown DEF AllTables
  <1> QED BY <1>1, <1>2, Lean2, NoGains, SMTT(30) DEF MigrateV21, LateNames, CurrentVersion

LEMMA Sound22 == Sound(22, MigrateV22)
  <1>1. Good(22, Create("deleted_key_traffic_archive", {}))  BY ChainCreates
  <1>2. Good(22, Index("deleted_key_traffic_archive", "idx_type", {}, "none"))
    BY IndexGood, TableKnown DEF AllTables
  <1>3. Good(22, Index("deleted_key_traffic_archive", "idx_owner", {}, "none"))
    BY IndexGood, TableKnown DEF AllTables
  <1> QED BY <1>1, <1>2, <1>3, Lean3, NoGains, LateVersions DEF MigrateV22, CurrentVersion

LEMMA Sound23 == Sound(23, MigrateV23)
  <1>1. Good(23, AddCol("vpn_keys", "transport"))
          /\ Gains(AddCol("vpn_keys", "transport"), <<"vpn_keys", "transport">>)
    BY AddColGood, TableKnown DEF AllTables
  <1>2. Lean(23, MigrateV23)  BY <1>1, Lean1 DEF MigrateV23
  <1>3. \A n \in Whole : Since(n) = 23 => n = <<"vpn_keys", "transport">>
    BY LateIs, WholePairs DEF LateNames
  <1>4. SoundGains(23, MigrateV23)  BY <1>1, <1>3 DEF SoundGains, MigrateV23
  <1> QED BY <1>2, <1>4 DEF Lean, Sound

LEMMA Sound24 == Sound(24, MigrateV24)
  <1>1. Good(24, Create("server_status_settings", {}))  BY ChainCreates
  <1>2. Good(24, Write("server_status_settings", "status_row", {}))
    BY WriteGood, TableKnown DEF AllTables
  <1> QED BY <1>1, <1>2, Lean2, NoGains, LateVersions DEF MigrateV24, CurrentVersion

LEMMA Sound25 == Sound(25, MigrateV25)
  <1>1. Good(25, Create("maintenance_settings", {}))  BY ChainCreates
  <1>2. Good(25, Write("maintenance_settings", "maintenance_row", {}))
    BY WriteGood, TableKnown DEF AllTables
  <1> QED BY <1>1, <1>2, Lean2, NoGains, LateVersions DEF MigrateV25, CurrentVersion

LEMMA Sound26 == Sound(26, MigrateV26)
  <1>1. Good(26, AddCol("users", "language")) /\ Gains(AddCol("users", "language"), <<"users", "language">>)
    BY AddColGood, TableKnown DEF AllTables
  <1>2. Good(26, AddCol("users", "expiry_notifications"))
          /\ Gains(AddCol("users", "expiry_notifications"), <<"users", "expiry_notifications">>)
    BY AddColGood, TableKnown DEF AllTables
  <1>3. Lean(26, MigrateV26)  BY <1>1, <1>2, Lean2 DEF MigrateV26
  <1>4. \A n \in Whole : Since(n) = 26 => n = <<"users", "language">>
                                        \/ n = <<"users", "expiry_notifications">>
    BY LateIs, WholePairs DEF LateNames
  <1>5. SoundGains(26, MigrateV26)  BY <1>1, <1>2, <1>4 DEF SoundGains, MigrateV26
  <1> QED BY <1>3, <1>5 DEF Lean, Sound

LEMMA Sound27 == Sound(27, MigrateV27)
  <1>1. Good(27, AddCol("announcement_batches", "filter"))
          /\ Gains(AddCol("announcement_batches", "filter"), <<"announcement_batches", "filter">>)
    BY AddColGood, TableKnown DEF AllTables
  <1>2. Lean(27, MigrateV27)  BY <1>1, Lean1 DEF MigrateV27
  <1>3. \A n \in Whole : Since(n) = 27 => n = <<"announcement_batches", "filter">>
    BY LateIs, WholePairs DEF LateNames
  <1>4. SoundGains(27, MigrateV27)  BY <1>1, <1>3 DEF SoundGains, MigrateV27
  <1> QED BY <1>2, <1>4 DEF Lean, Sound

LEMMA Sound28 == Sound(28, MigrateV28)
  <1>1. Good(28, AddCol("vpn_keys", "xhttp_profile"))
          /\ Gains(AddCol("vpn_keys", "xhttp_profile"), <<"vpn_keys", "xhttp_profile">>)
    BY AddColGood, TableKnown DEF AllTables
  <1>2. Good(28, Write("vpn_keys", "labels_v28", {"label", "transport"}))
    <2>1. Known(28, "vpn_keys", "table")  BY TableKnown DEF AllTables
    <2>2. Known(28, "vpn_keys", "label")  BY FirstKnown DEF FirstNames
    <2>3. Known(28, "vpn_keys", "transport")  BY LateKnown DEF LateNames
    <2> QED BY <2>1, <2>2, <2>3, WriteGood
  <1>3. Lean(28, MigrateV28)  BY <1>1, <1>2, Lean2 DEF MigrateV28, RelabelEmails
  <1>4. \A n \in Whole : Since(n) = 28 => n = <<"vpn_keys", "xhttp_profile">>
    BY LateIs, WholePairs DEF LateNames
  <1>5. SoundGains(28, MigrateV28)  BY <1>1, <1>4 DEF SoundGains, MigrateV28, RelabelEmails
  <1> QED BY <1>3, <1>5 DEF Lean, Sound

LEMMA Sound31 == Sound(31, MigrateV31)
  <1>1. Good(31, AddCol("vpn_keys", "spider_x"))
          /\ Gains(AddCol("vpn_keys", "spider_x"), <<"vpn_keys", "spider_x">>)
    BY AddColGood, TableKnown DEF AllTables
  <1>2. Lean(31, MigrateV31)  BY <1>1, Lean1 DEF MigrateV31
  <1>3. \A n \in Whole : Since(n) = 31 => n = <<"vpn_keys", "spider_x">>
    BY LateIs, WholePairs DEF LateNames
  <1>4. SoundGains(31, MigrateV31)  BY <1>1, <1>3 DEF SoundGains, MigrateV31
  <1> QED BY <1>2, <1>4 DEF Lean, Sound

LEMMA Sound34 == Sound(34, MigrateV34)
  <1>1. Good(34, Create("warp_split_sources", {}))  BY ChainCreates, SMTT(30)
  <1>2. Good(34, Create("warp_split_prefixes", {}))  BY ChainCreates, SMTT(30)
  <1>3. Good(34, Create("warp_split_exclusions", {}))  BY ChainCreates, SMTT(30)
  <1>4. Good(34, Write("warp_split_sources", "feeds_seeded", {}))
    BY WriteGood, TableKnown DEF AllTables
  <1> QED BY <1>1, <1>2, <1>3, <1>4, Lean4, NoGains, LateVersions DEF MigrateV34, CurrentVersion

LEMMA Sound35 == Sound(35, MigrateV35)
  <1>1. Good(35, Create("warp_split_baseline", {}))  BY ChainCreates, SMTT(30)
  <1>2. Good(35, Create("warp_split_pending", {}))  BY ChainCreates, SMTT(30)
  <1>3. Good(35, Create("warp_split_runs", {}))  BY ChainCreates, SMTT(30)
  <1>4. Good(35, AddCol("warp_split_sources", "fail_streak"))
          /\ Gains(AddCol("warp_split_sources", "fail_streak"), <<"warp_split_sources", "fail_streak">>)
    BY AddColGood, TableKnown DEF AllTables
  <1>5. Lean(35, MigrateV35)  BY <1>1, <1>2, <1>3, <1>4, Lean4 DEF MigrateV35
  <1>6. \A n \in Whole : Since(n) = 35 => n = <<"warp_split_sources", "fail_streak">>
    BY LateIs, WholePairs DEF LateNames
  <1>7. SoundGains(35, MigrateV35)  BY <1>4, <1>6 DEF SoundGains, MigrateV35
  <1> QED BY <1>5, <1>7, SMTT(30) DEF Lean, Sound

LEMMA Sound37 == Sound(37, MigrateV37)
  <1>1. Good(37, AddCol("vpn_keys", "relay")) /\ Gains(AddCol("vpn_keys", "relay"), <<"vpn_keys", "relay">>)
    BY AddColGood, TableKnown DEF AllTables
  <1>2. Good(37, AddCol("key_bundles", "kind"))
          /\ Gains(AddCol("key_bundles", "kind"), <<"key_bundles", "kind">>)
    BY AddColGood, TableKnown DEF AllTables
  <1>3. Lean(37, MigrateV37)  BY <1>1, <1>2, Lean2 DEF MigrateV37
  <1>4. \A n \in Whole : Since(n) = 37 => n = <<"vpn_keys", "relay">>
                                        \/ n = <<"key_bundles", "kind">>
    BY LateIs, WholePairs DEF LateNames
  <1>5. SoundGains(37, MigrateV37)  BY <1>1, <1>2, <1>4 DEF SoundGains, MigrateV37
  <1> QED BY <1>3, <1>5 DEF Lean, Sound

LEMMA Sound38 == Sound(38, MigrateV38)
  <1>1. Good(38, Create("relays", {}))  BY ChainCreates
  <1> QED BY <1>1, Lean1, NoGains, LateVersions DEF MigrateV38, CurrentVersion

LEMMA Sound39 == Sound(39, MigrateV39)
  <1>1. Good(39, Create("traffic_hourly", {}))  BY ChainCreates
  <1> QED BY <1>1, Lean1, NoGains, LateVersions DEF MigrateV39, CurrentVersion

LEMMA Sound40 == Sound(40, MigrateV40)
  <1>1. Good(40, AddCol("protocol_modules", "uninstalled_at"))
          /\ Gains(AddCol("protocol_modules", "uninstalled_at"), <<"protocol_modules", "uninstalled_at">>)
    BY AddColGood, TableKnown DEF AllTables
  <1>2. Good(40, AddCol("protocol_modules", "uninstalled_by"))
          /\ Gains(AddCol("protocol_modules", "uninstalled_by"), <<"protocol_modules", "uninstalled_by">>)
    BY AddColGood, TableKnown DEF AllTables
  <1>3. Good(40, AddCol("protocol_modules", "uninstall_backup"))
          /\ Gains(AddCol("protocol_modules", "uninstall_backup"), <<"protocol_modules",
          "uninstall_backup">>)
    BY AddColGood, TableKnown DEF AllTables
  <1>4. Lean(40, MigrateV40)  BY <1>1, <1>2, <1>3, Lean3 DEF MigrateV40
  <1>5. \A n \in Whole : Since(n) = 40 => n = <<"protocol_modules", "uninstalled_at">>
                                        \/ n = <<"protocol_modules", "uninstalled_by">>
                                        \/ n = <<"protocol_modules", "uninstall_backup">>
    BY LateIs, WholePairs DEF LateNames
  <1>6. SoundGains(40, MigrateV40)  BY <1>1, <1>2, <1>3, <1>5 DEF SoundGains, MigrateV40
  <1> QED BY <1>4, <1>6 DEF Lean, Sound

\* v8: the proxy tables
LEMMA Sound8 == Sound(8, ProxyTables)
  <1>1. Good(8, Create("proxy_accesses", ProxyCols))  BY ChainCreates
  <1>2. Good(8, Index("proxy_accesses", "idx_owner", {"owner"}, "none"))
    <2>1. Known(8, "proxy_accesses", "table")  BY TableKnown DEF AllTables
    <2>2. Known(8, "proxy_accesses", "owner")  BY FirstKnown DEF FirstNames
    <2> QED BY <2>1, <2>2, IndexGood
  <1>3. Good(8, Index("proxy_accesses", "idx_fingerprint", {"secret_fingerprint"}, "none"))
    <2>1. Known(8, "proxy_accesses", "table")  BY TableKnown DEF AllTables
    <2>2. Known(8, "proxy_accesses", "secret_fingerprint")  BY FirstKnown DEF FirstNames
    <2> QED BY <2>1, <2>2, IndexGood
  <1>4. ASSUME NEW a, NEW b, NEW c
        PROVE  <<a>> \o <<b, c>> = <<a, b, c>>
    <2> DEFINE q == <<a>> \o <<b, c>>  r == <<a, b, c>>
    <2>1. <<a>> \in Seq({a, b, c}) /\ <<b, c>> \in Seq({a, b, c}) /\ r \in Seq({a, b, c})  OBVIOUS
    <2>2. q \in Seq({a, b, c}) /\ Len(q) = 3 /\ q[1] = a /\ q[2] = b /\ q[3] = c  BY <2>1
    <2>3. Len(r) = 3 /\ r[1] = a /\ r[2] = b /\ r[3] = c  OBVIOUS
    <2> HIDE DEF q, r
    <2>4. \A i \in 1..3 : q[i] = r[i]  BY <2>2, <2>3
    <2>5. q = r  BY <2>1, <2>2, <2>3, <2>4, SeqEqual
    <2> QED BY <2>5 DEF q, r
  <1>5. ProxyTables = << Create("proxy_accesses", ProxyCols),
                         Index("proxy_accesses", "idx_owner", {"owner"}, "none"),
                         Index("proxy_accesses", "idx_fingerprint", {"secret_fingerprint"}, "none") >>
    BY <1>4 DEF ProxyTables, ProxyIndexes
  <1> QED BY <1>1, <1>2, <1>3, <1>5, Lean3, NoGains, LateVersions DEF CurrentVersion

\* A statement that needs what an earlier one of its migration adds
MetBy(w, s, n) == \A m \in s.needs : m \in Whole /\ (Since(m) < w \/ (m = n /\ Since(m) = w))

\* CREATE INDEX on the column that the migration has just added finds it.
LEMMA IndexHere ==
  ASSUME NEW w, NEW t, NEW i, NEW c, NEW what, i \notin {"table", "scheduled_at"}, Known(w, t, "table"),
         <<t, c>> \in Whole, Since(<<t, c>>) = w
  PROVE  Steady(Index(t, i, {c}, what)) /\ MetBy(w, Index(t, i, {c}, what), <<t, c>>)
  <1> DEFINE s == Index(t, i, {c}, what)
  <1>1. /\ s.op = "ddl" /\ s.flag = TRUE /\ s.table = "none"
        /\ s.names = Of(t, {i}) /\ s.needs = Of(t, {c} \cup {"table"})
    BY DEF Index, Stmt
  <1> HIDE DEF s
  <1>2. Side(s.names)  BY <1>1, OfIs DEF Side
  <1>3. ASSUME NEW m \in s.needs
        PROVE  m = <<t, c>> \/ m = <<t, "table">>
    BY <1>1, OfIs
  <1>4. MetBy(w, s, <<t, c>>)
    <2>1. <<t, "table">> \in Whole /\ Since(<<t, "table">>) < w  BY DEF Known
    <2>2. <<t, c>> \in Whole /\ Since(<<t, c>>) = w  OBVIOUS
    <2> SUFFICES ASSUME NEW m \in s.needs
                 PROVE  m \in Whole /\ (Since(m) < w \/ (m = <<t, c>> /\ Since(m) = w))
      BY DEF MetBy
    <2>3. CASE m = <<t, c>>  BY <2>2, <2>3
    <2>4. CASE m = <<t, "table">>  BY <2>1, <2>4
    <2> QED BY <1>3, <2>3, <2>4
  <1> QED BY <1>1, <1>2, <1>4 DEF Steady, Adds, s

\* A write to the column that the migration has just added finds it.
LEMMA WriteHere ==
  ASSUME NEW w, NEW t, NEW d, NEW c, d # "table", Known(w, t, "table"), <<t, c>> \in Whole,
          Since(<<t, c>>) = w
  PROVE  Steady(Write(t, d, {c})) /\ MetBy(w, Write(t, d, {c}), <<t, c>>)
  <1> DEFINE s == Write(t, d, {c})
  <1>1. s.op = "write" /\ s.flag = FALSE /\ s.names = Of("data", {d}) /\ s.needs = Of(t, {c} \cup {"table"})
    BY DEF Write, Stmt
  <1> HIDE DEF s
  <1>2. Side(s.names)  BY <1>1, OfIs DEF Side
  <1>3. ASSUME NEW m \in s.needs
        PROVE  m = <<t, c>> \/ m = <<t, "table">>
    BY <1>1, OfIs
  <1>4. MetBy(w, s, <<t, c>>)
    <2>1. <<t, "table">> \in Whole /\ Since(<<t, "table">>) < w  BY DEF Known
    <2>2. <<t, c>> \in Whole /\ Since(<<t, c>>) = w  OBVIOUS
    <2> SUFFICES ASSUME NEW m \in s.needs
                 PROVE  m \in Whole /\ (Since(m) < w \/ (m = <<t, c>> /\ Since(m) = w))
      BY DEF MetBy
    <2>3. CASE m = <<t, c>>  BY <2>2, <2>3
    <2>4. CASE m = <<t, "table">>  BY <2>1, <2>4
    <2> QED BY <1>3, <2>3, <2>4
  <1> QED BY <1>1, <1>2, <1>4 DEF Steady, Writes, s

\* A migration of five statements, the last two on columns that earlier ones add
LEMMA Needs5 ==
  ASSUME NEW w \in 1..41, NEW a, NEW b, NEW c, NEW d, NEW e, Good(w, a), Good(w, b), Good(w, c),
         NEW n, Steady(d), MetBy(w, d, n), Gains(a, n),
         NEW m, Steady(e), MetBy(w, e, m), Gains(a, m) \/ Gains(d, m)
  PROVE  Lean(w, <<a, b, c, d, e>>)
  <1> DEFINE q == <<a, b, c, d, e>>
  <1>1. q \in Seq({a, b, c, d, e})  OBVIOUS
  <1>2. ASSUME NEW i \in DOMAIN q, NEW x \in q[i].needs
        PROVE  x \in Whole /\ Since(x) <= w /\ (Since(x) = w => \E j \in 1..(i - 1) : Gains(q[j], x))
    <2>0. Since(x) \in Int  BY SinceInt
    <2>1. CASE i \in {1, 2, 3}  BY <2>0, <2>1 DEF Good, Met
    <2>2. CASE i = 4
      <3>1. x \in Whole /\ (Since(x) < w \/ (x = n /\ Since(x) = w))  BY <2>2 DEF MetBy
      <3> QED BY <3>1, <2>0, <2>2
    <2>3. CASE i = 5
      <3>1. x \in Whole /\ (Since(x) < w \/ (x = m /\ Since(x) = w))  BY <2>3 DEF MetBy
      <3> QED BY <3>1, <2>0, <2>3
    <2> QED BY <2>1, <2>2, <2>3
  <1>3. SoundKinds(q)  BY DEF SoundKinds, Good
  <1>4. IsSeq(q)  BY <1>1 DEF IsSeq
  <1> QED BY <1>2, <1>3, <1>4 DEF Lean, SoundNeeds

\* v13: the guarded columns of the expiry and of the trial quota
LEMMA Sound13 == Sound(13, MigrateV13)
  <1> DEFINE a == AddCol("vpn_keys", "expires_at")
             b == AddCol("users", "trial_quota_reset_at")
             c == Create("trial_key_requests", {"user", "status"})
             d == Index("vpn_keys", "idx_expires_at", {"expires_at"}, "none")
             e == Index("trial_key_requests", "idx_user", {"user"}, "none")
  <1>0. /\ Known(13, "vpn_keys", "table") /\ Known(13, "users", "table")
        /\ Known(13, "trial_key_requests", "table") /\ Known(13, "trial_key_requests", "user")
        /\ <<"vpn_keys", "expires_at">> \in Whole /\ Since(<<"vpn_keys", "expires_at">>) = 13
    <2>1. Known(13, "vpn_keys", "table") /\ Known(13, "users", "table")
            /\ Known(13, "trial_key_requests", "table")
      BY TableKnown DEF AllTables
    <2>2. Known(13, "trial_key_requests", "user")  BY FirstKnown DEF FirstNames
    <2>3. <<"vpn_keys", "expires_at">> \in Whole /\ Since(<<"vpn_keys", "expires_at">>) = 13
      BY LateColumns DEF LateNames
    <2> QED BY <2>1, <2>2, <2>3
  <1>1. Good(13, a) /\ Gains(a, <<"vpn_keys", "expires_at">>)  BY <1>0, AddColGood
  <1>2. Good(13, b) /\ Gains(b, <<"users", "trial_quota_reset_at">>)  BY <1>0, AddColGood, SMTT(30)
  <1>3. Good(13, c)  BY ChainCreates
  <1>4. Steady(d) /\ MetBy(13, d, <<"vpn_keys", "expires_at">>)  BY <1>0, IndexHere
  <1>5. Good(13, e)  BY <1>0, IndexGood
  <1> HIDE DEF a, b, c, d, e
  <1>6. MetBy(13, e, <<"vpn_keys", "expires_at">>) /\ Steady(e)  BY <1>5 DEF Good, Met, MetBy
  <1>7. Lean(13, <<a, b, c, d, e>>)  BY <1>1, <1>2, <1>3, <1>4, <1>6, Needs5
  <1>8. \A n \in Whole : Since(n) = 13
          => n = <<"vpn_keys", "expires_at">> \/ n = <<"users", "trial_quota_reset_at">>
    BY LateIs, WholePairs DEF LateNames
  <1>9. SoundGains(13, <<a, b, c, d, e>>)  BY <1>1, <1>2, <1>8 DEF SoundGains
  <1>10. MigrateV13 = <<a, b, c, d, e>>  BY DEF MigrateV13, a, b, c, d, e
  <1> QED BY <1>7, <1>9, <1>10 DEF Lean, Sound

\* v32: key_bundles and the bundle of a key
LEMMA Sound32 == Sound(32, MigrateV32)
  <1> DEFINE a == Create("key_bundles", {"user", "status"})
             b == Index("key_bundles", "idx_user", {"user"}, "none")
             c == Index("key_bundles", "idx_status", {"status"}, "none")
             d == AddCol("vpn_keys", "bundle_id")
             e == Index("vpn_keys", "idx_bundle_id", {"bundle_id"}, "none")
             n == <<"vpn_keys", "bundle_id">>
  <1>0. /\ Known(32, "vpn_keys", "table") /\ Known(32, "key_bundles", "table")
        /\ Known(32, "key_bundles", "user") /\ Known(32, "key_bundles", "status")
        /\ n \in Whole /\ Since(n) = 32
    <2>1. Known(32, "vpn_keys", "table") /\ Known(32, "key_bundles", "table")  BY TableKnown DEF AllTables
    <2>2. Known(32, "key_bundles", "user") /\ Known(32, "key_bundles", "status")
        BY FirstKnown DEF FirstNames
    <2>3. n \in Whole /\ Since(n) = 32  BY LateColumns DEF LateNames
    <2> QED BY <2>1, <2>2, <2>3
  <1>1. Good(32, a)  BY ChainCreates
  <1>2. Good(32, b)  BY <1>0, IndexGood
  <1>3. Good(32, c)  BY <1>0, IndexGood
  <1>4. Good(32, d) /\ Gains(d, n)  BY <1>0, AddColGood
  <1>5. Steady(e) /\ MetBy(32, e, n)  BY <1>0, IndexHere
  <1> HIDE DEF a, b, c, d, e
  <1>6. Lean(32, <<a, b, c, d, e>>)
    <2> DEFINE q == <<a, b, c, d, e>>
    <2>1. q \in Seq({a, b, c, d, e})  OBVIOUS
    <2>2. ASSUME NEW i \in DOMAIN q, NEW x \in q[i].needs
          PROVE  x \in Whole /\ Since(x) <= 32 /\ (Since(x) = 32 => \E j \in 1..(i - 1) : Gains(q[j], x))
      <3>0. Since(x) \in Int  BY SinceInt
      <3>1. CASE i \in {1, 2, 3, 4}  BY <3>0, <3>1, <1>1, <1>2, <1>3, <1>4 DEF Good, Met
      <3>2. CASE i = 5
        <4>1. x \in Whole /\ (Since(x) < 32 \/ (x = n /\ Since(x) = 32))  BY <3>2, <1>5 DEF MetBy
        <4>2. Gains(q[4], n)  BY <1>4
        <4> HIDE DEF q, n
        <4> QED BY <4>1, <4>2, <3>0, <3>2
      <3> QED BY <3>1, <3>2
    <2>3. SoundKinds(q)  BY <1>1, <1>2, <1>3, <1>4, <1>5 DEF SoundKinds, Good
    <2>4. IsSeq(q)  BY <2>1 DEF IsSeq
    <2> QED BY <2>2, <2>3, <2>4 DEF Lean, SoundNeeds
  <1>7. \A x \in Whole : Since(x) = 32 => x = n  BY LateIs, WholePairs DEF LateNames
  <1>8. SoundGains(32, <<a, b, c, d, e>>)  BY <1>4, <1>7 DEF SoundGains
  <1>9. MigrateV32 = <<a, b, c, d, e>>  BY DEF MigrateV32, a, b, c, d, e
  <1> QED BY <1>6, <1>8, <1>9 DEF Lean, Sound

\* v33: the display number of a bundle
LEMMA Sound33 == Sound(33, MigrateV33)
  <1> DEFINE a == AddCol("key_bundles", "display_no")
             b == Write("key_bundles", "renumbered", {"display_no"})
             c == Index("key_bundles", "idx_display_no", {"display_no"}, "none")
             n == <<"key_bundles", "display_no">>
  <1>0. Known(33, "key_bundles", "table") /\ n \in Whole /\ Since(n) = 33
    <2>1. Known(33, "key_bundles", "table")  BY TableKnown DEF AllTables
    <2>2. n \in Whole /\ Since(n) = 33  BY LateColumns DEF LateNames
    <2> QED BY <2>1, <2>2
  <1>1. Good(33, a) /\ Gains(a, n)  BY <1>0, AddColGood
  <1>2. Steady(b) /\ MetBy(33, b, n)  BY <1>0, WriteHere
  <1>3. Steady(c) /\ MetBy(33, c, n)  BY <1>0, IndexHere
  <1> HIDE DEF a, b, c
  <1>4. Lean(33, <<a, b, c>>)
    <2> DEFINE q == <<a, b, c>>
    <2>1. q \in Seq({a, b, c})  OBVIOUS
    <2>2. ASSUME NEW i \in DOMAIN q, NEW x \in q[i].needs
          PROVE  x \in Whole /\ Since(x) <= 33 /\ (Since(x) = 33 => \E j \in 1..(i - 1) : Gains(q[j], x))
      <3>0. Since(x) \in Int  BY SinceInt
      <3>1. CASE i = 1  BY <3>0, <3>1, <1>1 DEF Good, Met
      <3>2. CASE i \in {2, 3}
        <4>1. x \in Whole /\ (Since(x) < 33 \/ (x = n /\ Since(x) = 33))  BY <3>2, <1>2, <1>3 DEF MetBy
        <4>2. Gains(q[1], n)  BY <1>1
        <4> HIDE DEF q, n
        <4> QED BY <4>1, <4>2, <3>0, <3>2
      <3> QED BY <3>1, <3>2
    <2>3. SoundKinds(q)  BY <1>1, <1>2, <1>3 DEF SoundKinds, Good
    <2>4. IsSeq(q)  BY <2>1 DEF IsSeq
    <2> QED BY <2>2, <2>3, <2>4 DEF Lean, SoundNeeds
  <1>5. \A x \in Whole : Since(x) = 33 => x = n  BY LateIs, WholePairs DEF LateNames
  <1>6. SoundGains(33, <<a, b, c>>)  BY <1>1, <1>5 DEF SoundGains
  <1>7. MigrateV33 = <<a, b, c>>  BY DEF MigrateV33, a, b, c
  <1> QED BY <1>4, <1>6, <1>7 DEF Lean, Sound

\* v30: warp_settings, past the guard or through it
LEMMA Sound30 == Sound(30, MigrateV30)
  <1> DEFINE a == AddCol("warp_settings", "kill_switch")
             u == UnlessHas("warp_settings", "config_installed")
             b == AddCol("warp_settings", "config_installed")
             c == Write("warp_settings", "installed_backfilled", {"config_installed"})
             n == <<"warp_settings", "config_installed">>
             k == <<"warp_settings", "kill_switch">>
             q == <<a, u, b, c>>
  <1>0. Known(30, "warp_settings", "table") /\ n \in Whole /\ Since(n) = 30
    <2>1. Known(30, "warp_settings", "table")  BY TableKnown DEF AllTables
    <2>2. n \in Whole /\ Since(n) = 30  BY LateColumns DEF LateNames
    <2> QED BY <2>1, <2>2
  <1>1. Good(30, a) /\ Gains(a, k)  BY <1>0, AddColGood
  <1>2. Good(30, b) /\ Gains(b, n)  BY <1>0, AddColGood
  <1>3. Steady(c) /\ MetBy(30, c, n)  BY <1>0, WriteHere
  <1>4. u.op = "unless" /\ u.flag = FALSE /\ u.needs = {}
          /\ u.names = Of("warp_settings", {"config_installed"})
    BY DEF UnlessHas, Stmt
  <1>5. b.names = Of("warp_settings", {"config_installed"})  BY AddColIs
  <1>6. c.op = "write"  BY DEF Write, Stmt
  <1> HIDE DEF a, u, b, c, n, k
  <1>7. DOMAIN q = 1..4 /\ q[1] = a /\ q[2] = u /\ q[3] = b /\ q[4] = c /\ q \in Seq({a, u, b, c})
    OBVIOUS
  <1>8. MigrateV30 = q  BY DEF MigrateV30, a, u, b, c
  <1>9. \A x \in Whole : Since(x) = 30 => x = n \/ x = k
    BY LateIs, WholePairs DEF LateNames, n, k
  <1> HIDE DEF q
  <1>10. SoundNeeds(30, q)
    <2> SUFFICES ASSUME NEW i \in 1..4, NEW x \in q[i].needs
                 PROVE  /\ x \in Whole /\ Since(x) <= 30
                        /\ Since(x) = 30 => \E j \in 1..(i - 1) : Gains(q[j], x)
      BY <1>7 DEF SoundNeeds
    <2>0. Since(x) \in Int  BY SinceInt
    <2>1. CASE i = 1  BY <2>0, <2>1, <1>1, <1>7 DEF Good, Met
    <2>2. CASE i = 2  BY <2>2, <1>4, <1>7
    <2>3. CASE i = 3  BY <2>0, <2>3, <1>2, <1>7 DEF Good, Met
    <2>4. CASE i = 4
      <3>1. x \in Whole /\ (Since(x) < 30 \/ (x = n /\ Since(x) = 30))  BY <2>4, <1>3, <1>7 DEF MetBy
      <3>2. Gains(q[3], n)  BY <1>2, <1>7
      <3> QED BY <3>1, <3>2, <2>0, <2>4
    <2> QED BY <2>1, <2>2, <2>3, <2>4
  <1>11. SoundGains(30, q)  BY <1>1, <1>2, <1>7, <1>9 DEF SoundGains
  <1>12. Leaps(q, 2)
    <2>1. ASSUME NEW j \in 1..4, j > 2, q[j].op = "ddl"
          PROVE  q[j].names = q[2].names
      <3>1. CASE j = 3  BY <3>1, <1>7, <1>4, <1>5
      <3>2. CASE j = 4  BY <3>2, <2>1, <1>6, <1>7
      <3> QED BY <2>1, <3>1, <3>2
    <2> QED BY <2>1, <1>4, <1>7 DEF Leaps
  <1>13. SoundKinds(q)
    <2> SUFFICES ASSUME NEW i \in 1..4 PROVE Steady(q[i]) \/ Leaps(q, i)
      BY <1>7 DEF SoundKinds
    <2>1. i = 1 \/ i = 2 \/ i = 3 \/ i = 4  OBVIOUS
    <2> QED BY <2>1, <1>1, <1>2, <1>3, <1>7, <1>12 DEF Good
  <1>14. IsSeq(q)  BY <1>7 DEF IsSeq
  <1> QED BY <1>8, <1>10, <1>11, <1>13, <1>14 DEF Sound

\* Every migration without a rebuild is sound, and nothing follows its call.
LEMMA PlainSound == \A w \in Plain : Sound(w, Chain[w]) /\ AfterCall(w) = << >>
  <1>1. Sound(1, Chain[1])  BY Sound1 DEF Chain
  <1>2. Sound(2, Chain[2])  BY Sound2 DEF Chain
  <1>3. Sound(3, Chain[3])  BY Sound3 DEF Chain
  <1>4. Sound(4, Chain[4])  BY Sound4 DEF Chain
  <1>5. Sound(5, Chain[5])  BY Sound5 DEF Chain
  <1>6. Sound(6, Chain[6])  BY Sound6 DEF Chain
  <1>7. Sound(7, Chain[7])  BY Sound7 DEF Chain
  <1>8. Sound(8, Chain[8])  BY Sound8 DEF Chain
  <1>10. Sound(10, Chain[10])  BY Sound10 DEF Chain
  <1>11. Sound(11, Chain[11])  BY Sound11 DEF Chain
  <1>12. Sound(12, Chain[12])  BY Sound12 DEF Chain
  <1>13. Sound(13, Chain[13])  BY Sound13 DEF Chain
  <1>14. Sound(14, Chain[14])  BY Sound14 DEF Chain
  <1>15. Sound(15, Chain[15])  BY Sound15 DEF Chain
  <1>18. Sound(18, Chain[18])  BY Sound18 DEF Chain
  <1>19. Sound(19, Chain[19])  BY Sound19 DEF Chain
  <1>20. Sound(20, Chain[20])  BY Sound20 DEF Chain
  <1>21. Sound(21, Chain[21])  BY Sound21 DEF Chain
  <1>22. Sound(22, Chain[22])  BY Sound22 DEF Chain
  <1>23. Sound(23, Chain[23])  BY Sound23 DEF Chain
  <1>24. Sound(24, Chain[24])  BY Sound24 DEF Chain
  <1>25. Sound(25, Chain[25])  BY Sound25 DEF Chain
  <1>26. Sound(26, Chain[26])  BY Sound26 DEF Chain
  <1>27. Sound(27, Chain[27])  BY Sound27 DEF Chain
  <1>28. Sound(28, Chain[28])  BY Sound28 DEF Chain
  <1>30. Sound(30, Chain[30])  BY Sound30 DEF Chain
  <1>31. Sound(31, Chain[31])  BY Sound31 DEF Chain
  <1>32. Sound(32, Chain[32])  BY Sound32 DEF Chain
  <1>33. Sound(33, Chain[33])  BY Sound33 DEF Chain
  <1>34. Sound(34, Chain[34])  BY Sound34 DEF Chain
  <1>35. Sound(35, Chain[35])  BY Sound35 DEF Chain
  <1>37. Sound(37, Chain[37])  BY Sound37 DEF Chain
  <1>38. Sound(38, Chain[38])  BY Sound38 DEF Chain
  <1>39. Sound(39, Chain[39])  BY Sound39 DEF Chain
  <1>40. Sound(40, Chain[40])  BY Sound40 DEF Chain
  <1>41. ASSUME NEW w \in Plain
         PROVE  \/ w = 1 \/ w = 2 \/ w = 3 \/ w = 4 \/ w = 5 \/ w = 6 \/ w = 7 \/ w = 8 \/ w = 10 \/ w = 11
                \/ w = 12 \/ w = 13 \/ w = 14 \/ w = 15 \/ w = 18 \/ w = 19 \/ w = 20 \/ w = 21 \/ w = 22
                \/ w = 23 \/ w = 24 \/ w = 25 \/ w = 26 \/ w = 27 \/ w = 28 \/ w = 30 \/ w = 31 \/ w = 32
                \/ w = 33 \/ w = 34 \/ w = 35 \/ w = 37 \/ w = 38 \/ w = 39 \/ w = 40
    BY DEF Plain, Rebuilds, CurrentVersion
  <1>42. \A w \in Plain : AfterCall(w) = << >>  BY DEF Plain, Rebuilds, AfterCall
  <1>43. ASSUME NEW w \in Plain
         PROVE  Sound(w, Chain[w])
    BY <1>1, <1>2, <1>3, <1>4, <1>5, <1>6, <1>7, <1>8, <1>10, <1>11, <1>12, <1>13, <1>14, <1>15, <1>18,
       <1>19, <1>20, <1>21, <1>22, <1>23, <1>24, <1>25, <1>26, <1>27, <1>28, <1>30, <1>31, <1>32, <1>33,
       <1>34, <1>35, <1>37, <1>38, <1>39, <1>40, <1>41
  <1> QED BY <1>42, <1>43

-----------------------------------------------------------------------------
(* The four rebuilds *)

\* The four rebuilds, one by one
LEMMA RebuiltAt ==
  /\ /\ Rebuilt(16).table = "announcement_batches" /\ Rebuilt(16).copy = "announcement_batches_new"
     /\ Rebuilt(16).cols = BatchCols /\ Rebuilt(16).begin = 4 /\ Rebuilt(16).n = 2
  /\ /\ Rebuilt(17).table = "users" /\ Rebuilt(17).copy = "users_new"
     /\ Rebuilt(17).cols = UserCols17 /\ Rebuilt(17).begin = 3 /\ Rebuilt(17).n = 2
  /\ /\ Rebuilt(29).table = "vpn_keys" /\ Rebuilt(29).copy = "vpn_keys_new"
     /\ Rebuilt(29).cols = KeyCols28 \cup {"CHECK_hysteria2"} /\ Rebuilt(29).begin = 4 /\ Rebuilt(29).n = 10
  /\ /\ Rebuilt(36).table = "trial_key_requests" /\ Rebuilt(36).copy = "trial_key_requests_new"
     /\ Rebuilt(36).cols = TrialCols /\ Rebuilt(36).begin = 3 /\ Rebuilt(36).n = 2
  BY DEF Rebuilt

\* The stages that rebuild a table
LEMMA RebuildsAre == \A s : s \in Rebuilds <=> s = 16 \/ s = 17 \/ s = 29 \/ s = 36
  BY DEF Rebuilds

\* The numbers of indexes
LEMMA RebuiltN == \A s \in Rebuilds : Rebuilt(s).n \in {2, 10}
  BY RebuiltAt, RebuildsAre

\* The places of BEGIN
LEMMA RebuiltBegin == \A s \in Rebuilds : Rebuilt(s).begin = (IF s \in {16, 29} THEN 4 ELSE 3)
  BY RebuiltAt, RebuildsAre

\* A rebuilt table is one of the tables of schema.sql.
LEMMA RebuiltTable == \A s \in Rebuilds : <<Rebuilt(s).table, "table">> \in WholeTables
  <1> SUFFICES ASSUME NEW s \in Rebuilds PROVE <<Rebuilt(s).table, "table">> \in WholeTables
    OBVIOUS
  <1>1. Rebuilt(s).table \in {"announcement_batches", "users", "vpn_keys", "trial_key_requests"}
    BY RebuiltAt, RebuildsAre
  <1> QED BY <1>1, TableNames, WholeTablesIs

\* The copy has a name of its own, which no table of schema.sql has.
LEMMA RebuiltCopy ==
  ASSUME NEW s \in Rebuilds
  PROVE  /\ Rebuilt(s).copy # Rebuilt(s).table /\ Rebuilt(s).copy \notin HasRows
         /\ Cascade(Rebuilt(s).copy) = {}
  <1>1. /\ Rebuilt(s).copy \in {"announcement_batches_new", "users_new", "vpn_keys_new",
          "trial_key_requests_new"}
        /\ Rebuilt(s).table \in {"announcement_batches", "users", "vpn_keys", "trial_key_requests"}
    BY RebuiltAt, RebuildsAre
  <1>2. Rebuilt(s).copy # Rebuilt(s).table  BY <1>1
  <1>3. Rebuilt(s).copy \notin HasRows  BY <1>1 DEF HasRows
  <1>4. Cascade(Rebuilt(s).copy) = {}  BY <1>1 DEF Cascade
  <1> QED BY <1>2, <1>3, <1>4

\* No table references the trials, which v36 rebuilds with the enforcement on.
LEMMA TrialsLeaf == Cascade(Rebuilt(36).table) = {}
  BY RebuiltAt DEF Cascade

\* No name of a new database belongs to a copy.
LEMMA CopyNotWhole == \A s \in Rebuilds : \A x \in Whole : x[1] # Rebuilt(s).copy
  <1> SUFFICES ASSUME NEW s \in Rebuilds, NEW x \in Whole PROVE x[1] # Rebuilt(s).copy
    OBVIOUS
  <1>1. Rebuilt(s).copy \in {"announcement_batches_new", "users_new", "vpn_keys_new",
          "trial_key_requests_new"}
    BY RebuiltAt, RebuildsAre
  <1>2. PICK i \in 1..23 : x[1] = Tables[i].table  BY WholeIs, TablesAre
  <1>3. Tables[i].table \notin {"announcement_batches_new", "users_new", "vpn_keys_new",
          "trial_key_requests_new"}
    BY TableIndex, TableNames
  <1> QED BY <1>1, <1>2, <1>3

\* The copy has every column that the table has by then, and those of the version.
LEMMA ColumnsCopied ==
  ASSUME NEW s \in Rebuilds, NEW x \in Whole, x[1] = Rebuilt(s).table, Since(x) < s
  PROVE  x[2] \in Rebuilt(s).cols \cup {"table"}
  <1>1. CASE s = 16
    <2>1. x \in Tables[12].names  BY <1>1, WholeColumns, TableNames, RebuiltAt
    <2>2. x = <<"announcement_batches", x[2]>>
          /\ x[2] \in {"table", "status", "updated_at", "CHECK_scheduled", "scheduled_at", "filter"}
      BY <2>1, Table12
    <2>3. x[2] # "filter"
      <3>1. Since(<<"announcement_batches", "filter">>) = 27  BY LateColumns DEF LateNames
      <3> QED BY <3>1, <2>2, <1>1
    <2> QED BY <2>2, <2>3, <1>1, RebuiltAt DEF BatchCols
  <1>2. CASE s = 17
    <2>1. x \in Tables[1].names  BY <1>2, WholeColumns, TableNames, RebuiltAt
    <2>2. x = <<"users", x[2]>>
          /\ x[2] \in {"table", "role", "CHECK_moderator", "blocked_at", "trial_quota_reset_at", "note",
                       "language", "expiry_notifications"}
      BY <2>1, Table1
    <2>3. x[2] # "language" /\ x[2] # "expiry_notifications"
      <3>1. Since(<<"users", "language">>) = 26 /\ Since(<<"users", "expiry_notifications">>) = 26
        BY LateColumns DEF LateNames
      <3> QED BY <3>1, <2>2, <1>2
    <2> QED BY <2>2, <2>3, <1>2, RebuiltAt DEF UserCols17
  <1>3. CASE s = 29
    <2>1. x \in Tables[3].names  BY <1>3, WholeColumns, TableNames, RebuiltAt
    <2>2. x = <<"vpn_keys", x[2]>>
          /\ x[2] \in {"table", "owner", "uuid", "label", "client_ip", "expires_at", "notified_days",
                       "transport", "xhttp_profile", "CHECK_hysteria2", "spider_x", "bundle_id", "relay"}
      BY <2>1, Table3
    <2>3. x[2] # "spider_x" /\ x[2] # "bundle_id" /\ x[2] # "relay"
      <3>1. Since(<<"vpn_keys", "spider_x">>) = 31 /\ Since(<<"vpn_keys", "bundle_id">>) = 32
            /\ Since(<<"vpn_keys", "relay">>) = 37
        BY LateColumns DEF LateNames
      <3> QED BY <3>1, <2>2, <1>3
    <2> QED BY <2>2, <2>3, <1>3, RebuiltAt DEF KeyCols28, KeyCols15
  <1>4. CASE s = 36
    <2>1. x \in Tables[6].names  BY <1>4, WholeColumns, TableNames, RebuiltAt
    <2>2. x[2] \in {"table", "user", "status", "CHECK_hysteria2"}  BY <2>1, Table6
    <2> QED BY <2>2, <1>4, RebuiltAt DEF TrialCols
  <1> QED BY <1>1, <1>2, <1>3, <1>4, RebuildsAre

\* What a version that rebuilds a table adds is in the copy.
LEMMA ColumnsRebuilt ==
  ASSUME NEW s \in Rebuilds, NEW x \in Whole, Since(x) = s
  PROVE  x[1] = Rebuilt(s).table /\ x[2] \in Rebuilt(s).cols
  <1>1. s # 0  BY DEF Rebuilds
  <1>2. <<s, x[1], x[2]>> \in LateNames  BY <1>1, LateIs
  <1>3. CASE s = 16
    <2>1. x[1] = "announcement_batches" /\ x[2] \in {"CHECK_scheduled", "scheduled_at"}
        BY <1>2, <1>3 DEF LateNames
    <2> QED BY <2>1, <1>3, RebuiltAt DEF BatchCols
  <1>4. CASE s = 17
    <2>1. x[1] = "users" /\ x[2] = "CHECK_moderator"  BY <1>2, <1>4 DEF LateNames
    <2> QED BY <2>1, <1>4, RebuiltAt DEF UserCols17
  <1>5. CASE s = 29
    <2>1. x[1] = "vpn_keys" /\ x[2] = "CHECK_hysteria2"  BY <1>2, <1>5 DEF LateNames
    <2> QED BY <2>1, <1>5, RebuiltAt
  <1>6. CASE s = 36
    <2>1. x[1] = "trial_key_requests" /\ x[2] = "CHECK_hysteria2"  BY <1>2, <1>6 DEF LateNames
    <2> QED BY <2>1, <1>6, RebuiltAt DEF TrialCols
  <1> QED BY <1>3, <1>4, <1>5, <1>6, RebuildsAre

\* The copy of v16 has the column that its guard asks for together with its CHECK.
LEMMA ScheduledCopied ==
  ASSUME NEW s \in Rebuilds, Rebuilt(s).table = "announcement_batches"
  PROVE  "CHECK_scheduled" \in Rebuilt(s).cols
  <1>1. s = 16  BY RebuiltAt, RebuildsAre
  <1> QED BY <1>1, RebuiltAt DEF BatchCols

\* Both are names of a new database.
LEMMA ScheduledWhole ==
  <<"announcement_batches", "CHECK_scheduled">> \in Whole
  /\ <<"announcement_batches", "scheduled_at">> \in Whole
  BY LateColumns DEF LateNames

-----------------------------------------------------------------------------
(* The statements of a stage *)

\* Sequences of statements, and the short ones the chain is made of
LEMMA SeqLen == ASSUME NEW p, IsSeq(p) PROVE Len(p) \in Nat /\ DOMAIN p = 1..Len(p)
  BY DEF IsSeq

\* One statement
LEMMA Seq1 == ASSUME NEW a PROVE IsSeq(<<a>>) /\ Len(<<a>>) = 1 /\ <<a>>[1] = a
  <1>1. <<a>> \in Seq({a})  OBVIOUS
  <1> QED BY <1>1 DEF IsSeq

\* Two statements
LEMMA Seq2 == ASSUME NEW a,
        NEW b PROVE IsSeq(<<a, b>>) /\ Len(<<a, b>>) = 2 /\ <<a, b>>[1] = a /\ <<a, b>>[2] = b
  <1>1. <<a, b>> \in Seq({a, b})  OBVIOUS
  <1> QED BY <1>1 DEF IsSeq

\* Four statements
LEMMA Seq4 ==
  ASSUME NEW a, NEW b, NEW c, NEW d
  PROVE  /\ IsSeq(<<a, b, c, d>>) /\ Len(<<a, b, c, d>>) = 4
         /\ <<a, b, c, d>>[1] = a /\ <<a, b, c, d>>[2] = b /\ <<a, b, c, d>>[3] = c /\ <<a, b, c, d>>[4] = d
  <1>1. <<a, b, c, d>> \in Seq({a, b, c, d})  OBVIOUS
  <1> QED BY <1>1 DEF IsSeq

\* A statement after none
LEMMA AfterNothing == ASSUME NEW a PROVE << >> \o <<a>> = <<a>>
  OBVIOUS

\* A sequence and one statement more
LEMMA Append1 ==
  ASSUME NEW p, NEW a, IsSeq(p)
  PROVE  /\ IsSeq(p \o <<a>>) /\ Len(p) \in Nat /\ Len(p \o <<a>>) = Len(p) + 1
         /\ DOMAIN p = 1..Len(p) /\ \A i \in 1..Len(p) : (p \o <<a>>)[i] = p[i]
         /\ (p \o <<a>>)[Len(p) + 1] = a
  <1>1. PICK A : p \in Seq(A)  BY DEF IsSeq
  <1>2. <<a>> \in Seq({a})  OBVIOUS
  <1>3. p \in Seq(A \cup {a}) /\ <<a>> \in Seq(A \cup {a})  BY <1>1, <1>2
  <1>4. p \o <<a>> \in Seq(A \cup {a})  BY <1>3
  <1>5. IsSeq(p \o <<a>>)  BY <1>4 DEF IsSeq
  <1>6. Len(p) \in Nat /\ Len(p \o <<a>>) = Len(p) + 1 /\ DOMAIN p = 1..Len(p)  BY <1>3
  <1>7. \A i \in 1..Len(p) : (p \o <<a>>)[i] = p[i]  BY <1>3
  <1>8. (p \o <<a>>)[Len(p) + 1] = a  BY <1>3
  <1> QED BY <1>5, <1>6, <1>7, <1>8

\* A migration without a rebuild ends with the statement that sets the version.
LEMMA PlainRest ==
  ASSUME stage \in Plain
  PROVE  /\ Len(Chain[stage]) \in Nat /\ Len(Rest) = Len(Chain[stage]) + 1
         /\ DOMAIN Chain[stage] = 1..Len(Chain[stage])
         /\ \A i \in 1..Len(Chain[stage]) : Rest[i] = Chain[stage][i]
         /\ Rest[Len(Chain[stage]) + 1] = SetVersion
         /\ Statements(stage) = Chain[stage]
  <1> DEFINE C == Chain[stage]
  <1>1. IsSeq(C) /\ AfterCall(stage) = << >>  BY PlainSound DEF Sound
  <1>2. stage \in 1..CurrentVersion  BY DEF Plain
  <1>3. Statements(stage) = C  BY <1>2 DEF Statements, CurrentVersion
  <1>4. Rest = C \o <<SetVersion>>  BY <1>1, <1>2, <1>3, AfterNothing DEF Rest
  <1> HIDE DEF C
  <1>5. /\ Len(C) \in Nat /\ Len(C \o <<SetVersion>>) = Len(C) + 1
        /\ DOMAIN C = 1..Len(C) /\ \A i \in 1..Len(C) : (C \o <<SetVersion>>)[i] = C[i]
        /\ (C \o <<SetVersion>>)[Len(C) + 1] = SetVersion
    BY <1>1, Append1
  <1> QED BY <1>3, <1>4, <1>5, Zenon DEF C

\* Stage 0
LEMMA Seq23 ==
  ASSUME NEW a1, NEW a2, NEW a3, NEW a4, NEW a5, NEW a6, NEW a7, NEW a8, NEW a9, NEW a10, NEW a11, NEW a12,
          NEW a13, NEW a14, NEW a15, NEW a16, NEW a17, NEW a18, NEW a19, NEW a20, NEW a21, NEW a22, NEW a23
  PROVE  IsSeq(<<a1, a2, a3, a4, a5, a6, a7, a8, a9, a10, a11, a12,
          a13, a14, a15, a16, a17, a18, a19, a20, a21, a22, a23>>)
  <1> DEFINE S == {a1, a2, a3, a4, a5, a6, a7, a8, a9, a10, a11, a12,
          a13, a14, a15, a16, a17, a18, a19, a20, a21, a22, a23}
  <1>1. a1 \in S /\ a2 \in S /\ a3 \in S /\ a4 \in S /\ a5 \in S /\ a6 \in S /\ a7 \in S /\ a8 \in S
          /\ a9 \in S /\ a10 \in S /\ a11 \in S /\ a12 \in S /\ a13 \in S /\ a14 \in S /\ a15 \in S
          /\ a16 \in S /\ a17 \in S /\ a18 \in S /\ a19 \in S /\ a20 \in S /\ a21 \in S /\ a22 \in S
          /\ a23 \in S
    OBVIOUS
  <1> HIDE DEF S
  <1>2. <<a1, a2, a3, a4, a5, a6, a7, a8, a9, a10, a11, a12,
          a13, a14, a15, a16, a17, a18, a19, a20, a21, a22, a23>> \in Seq(S)
    BY <1>1
  <1> QED BY <1>2 DEF IsSeq

\* schema.sql is a sequence of statements.
LEMMA TablesSeq == IsSeq(Tables)
  BY Seq23 DEF Tables

\* Stage 0 is schema.sql and nothing else.
LEMMA BaseRest ==
  ASSUME stage = 0
  PROVE  Len(Rest) = 23 /\ \A i \in 1..23 : Rest[i] = Tables[i]
  <1>1. Statements(stage) = Tables /\ stage \notin 1..CurrentVersion  BY DEF Statements, CurrentVersion
  <1>2. Rest = Tables \o << >>  BY <1>1 DEF Rest
  <1>3. Rest = Tables
    <2>1. PICK S : Tables \in Seq(S)  BY TablesSeq DEF IsSeq
    <2> QED BY <1>2, <2>1
  <1>4. Len(Tables) = 23  BY TableCount
  <1> QED BY <1>3, <1>4, Zenon

\* The first stage has the 23 statements of schema.sql.
LEMMA BaseLength == stage = 0 => Len(Rest) = 23
  BY BaseRest

\* v9 adds no column, and what its guard asks for is as old as the table.
LEMMA NeverNine ==
  /\ \A n \in Whole : Since(n) # 9
  /\ <<"proxy_accesses", "CHECK_revoke_failed">> \in Whole
  /\ Since(<<"proxy_accesses", "CHECK_revoke_failed">>) = 0
  <1>1. \A n \in Whole : Since(n) # 9
    <2> SUFFICES ASSUME NEW n \in Whole, Since(n) = 9 PROVE FALSE
      OBVIOUS
    <2>1. <<9, n[1], n[2]>> \in LateNames  BY LateIs
    <2> QED BY <2>1 DEF LateNames
  <1> QED BY <1>1, FirstColumns

-----------------------------------------------------------------------------
(* Statements one after the other *)

\* A sequence of m statements
HasLen(p, m) == IsSeq(p) /\ Len(p) = m

\* Its length
LEMMA LenIs == ASSUME NEW p, NEW m, HasLen(p, m) PROVE Len(p) = m
  BY DEF HasLen

\* One part of a stage after another
Joined(r, p, q) == r = p \o q

\* One sequence of statements after another: where each statement is
LEMMA JoinedAt ==
  ASSUME NEW r, NEW p, NEW q, NEW m \in Nat, NEW n \in Nat, HasLen(p, m), HasLen(q, n), Joined(r, p, q)
  PROVE  /\ HasLen(r, m + n)
         /\ \A k \in 1..m : r[k] = p[k]
         /\ \A k \in (m + 1)..(m + n) : r[k] = q[k - m]
  <1>1. IsSeq(p) /\ IsSeq(q)  BY DEF HasLen
  <1>2. Len(p) = m  BY DEF HasLen
  <1>3. Len(q) = n  BY DEF HasLen
  <1>4. PICK A : p \in Seq(A)  BY <1>1 DEF IsSeq
  <1>5. PICK B : q \in Seq(B)  BY <1>1 DEF IsSeq
  <1>6. p \in Seq(A \cup B) /\ q \in Seq(A \cup B)  BY <1>4, <1>5
  <1>7. r = p \o q  BY DEF Joined
  <1>8. r \in Seq(A \cup B)  BY <1>6, <1>7
  <1>9. Len(r) = Len(p) + Len(q)  BY <1>6, <1>7
  <1>10. IsSeq(r)  BY <1>8 DEF IsSeq
  <1>11. \A k \in 1..Len(p) : r[k] = p[k]  BY <1>6, <1>7
  <1>12. \A k \in (Len(p) + 1)..(Len(p) + Len(q)) : r[k] = q[k - Len(p)]  BY <1>6, <1>7
  <1> QED BY <1>2, <1>3, <1>9, <1>10, <1>11, <1>12 DEF HasLen

\* Sequences of one statement,
LEMMA Has1 == ASSUME NEW a PROVE HasLen(<<a>>, 1) /\ <<a>>[1] = a
  BY Seq1 DEF HasLen

\* of two,
LEMMA Has2 == ASSUME NEW a, NEW b PROVE HasLen(<<a, b>>, 2) /\ <<a, b>>[1] = a /\ <<a, b>>[2] = b
  BY Seq2 DEF HasLen

\* and of four
LEMMA Has4 ==
  ASSUME NEW a, NEW b, NEW c, NEW d
  PROVE  /\ HasLen(<<a, b, c, d>>, 4) /\ <<a, b, c, d>>[1] = a /\ <<a, b, c, d>>[2] = b
         /\ <<a, b, c, d>>[3] = c /\ <<a, b, c, d>>[4] = d
  BY Seq4 DEF HasLen

-----------------------------------------------------------------------------
(* Stage 9 *)

\* v9 up to its indexes
LEMMA NineBody ==
  HasLen(MigrateProxiesV9, 9)
  /\ MigrateProxiesV9[1] = UnlessHas("proxy_accesses", "CHECK_revoke_failed")
  <1> DEFINE a == UnlessHas("proxy_accesses", "CHECK_revoke_failed")
             b == DropIndex("proxy_accesses", "idx_owner")
             c == DropIndex("proxy_accesses", "idx_fingerprint")
             d == Rename("proxy_accesses", "proxy_accesses_v8")
             e == Create("proxy_accesses", ProxyCols)
             f == Copy("proxy_accesses_v8", "proxy_accesses", {"owner"})
             g == Drop("proxy_accesses_v8")
             A == <<a, b, c, d>>  B == <<e>>  D == <<f, g>>
  <1>1. MigrateProxiesV9 = ((A \o B) \o ProxyIndexes) \o D  BY DEF MigrateProxiesV9
  <1> HIDE DEF a, b, c, d, e, f, g
  <1>2. HasLen(A, 4) /\ A[1] = a  BY Has4
  <1>3. HasLen(B, 1)  BY Has1
  <1>4. HasLen(D, 2)  BY Has2
  <1>5. HasLen(ProxyIndexes, 2)  BY Has2 DEF ProxyIndexes
  <1> HIDE DEF A, B, D
  <1> DEFINE X == A \o B  Y == X \o ProxyIndexes  Z == Y \o D
  <1>9. MigrateProxiesV9 = Z  BY <1>1 DEF Z, Y, X
  <1>10. Joined(X, A, B) /\ Joined(Y, X, ProxyIndexes) /\ Joined(Z, Y, D)  BY DEF Joined
  <1> HIDE DEF X, Y, Z
  <1>6. HasLen(X, 5) /\ X[1] = A[1]  BY <1>2, <1>3, <1>10, JoinedAt
  <1>7. HasLen(Y, 7) /\ Y[1] = X[1]  BY <1>5, <1>6, <1>10, JoinedAt
  <1>8. HasLen(Z, 9) /\ Z[1] = Y[1]  BY <1>4, <1>7, <1>10, JoinedAt
  <1> QED BY <1>2, <1>6, <1>7, <1>8, <1>9 DEF a

\* The two indexes that follow v9
LEMMA NineIndexes ==
  ASSUME NEW s, s = ProxyIndexes[1] \/ s = ProxyIndexes[2]
  PROVE  Steady(s) /\ s.op = "ddl" /\ \A n \in s.needs : n \in Whole /\ Since(n) = 0
  <1>1. /\ ProxyIndexes[1] = Index("proxy_accesses", "idx_owner", {"owner"}, "none")
        /\ ProxyIndexes[2] = Index("proxy_accesses", "idx_fingerprint", {"secret_fingerprint"}, "none")
    BY DEF ProxyIndexes
  <1>2. Known(1, "proxy_accesses", "table")  BY TableKnown DEF AllTables
  <1>3. Known(1, "proxy_accesses", "owner")  BY FirstKnown DEF FirstNames
  <1>4. Known(1, "proxy_accesses", "secret_fingerprint")  BY FirstKnown DEF FirstNames
  <1>5. Good(1, ProxyIndexes[1])  BY <1>1, <1>2, <1>3, IndexGood
  <1>6. Good(1, ProxyIndexes[2])  BY <1>1, <1>2, <1>4, IndexGood
  <1>7. Good(1, s)  BY <1>5, <1>6
  <1>8. s.op = "ddl"
    <2>1. \A t, i, cols, what : Index(t, i, cols, what).op = "ddl"  BY DEF Index, Stmt
    <2> QED BY <2>1, <1>1
  <1>9. \A n : Since(n) \in 0..40  BY SinceRange DEF CurrentVersion
  <1>10. Steady(s) /\ \A n \in s.needs : n \in Whole /\ Since(n) < 1  BY <1>7 DEF Good, Met
  <1> QED BY <1>8, <1>9, <1>10

\* v9 as a whole
LEMMA NineRest ==
  ASSUME stage = 9
  PROVE  /\ Len(Chain[9]) = 9 /\ Len(Statements(9)) = 9 /\ Len(Rest) = 12
         /\ Rest[1] = UnlessHas("proxy_accesses", "CHECK_revoke_failed")
         /\ Rest[10] = ProxyIndexes[1] /\ Rest[11] = ProxyIndexes[2]
         /\ Rest[12] = SetVersion
  <1> DEFINE M == MigrateProxiesV9  P == ProxyIndexes  V == <<SetVersion>>  T == P \o V  R == M \o T
  <1>1. Chain[9] = M  BY DEF Chain
  <1>2. Statements(9) = M /\ AfterCall(9) = P  BY <1>1 DEF Statements, CurrentVersion, AfterCall
  <1>3. Rest = R  BY <1>2 DEF Rest, CurrentVersion
  <1>4. HasLen(M, 9)  BY NineBody
  <1>5. M[1] = UnlessHas("proxy_accesses", "CHECK_revoke_failed")  BY NineBody
  <1>6. HasLen(P, 2)  BY Has2 DEF ProxyIndexes
  <1>7. HasLen(V, 1) /\ V[1] = SetVersion  BY Has1
  <1>8. Joined(T, P, V) /\ Joined(R, M, T)  BY DEF Joined
  <1> HIDE DEF M, P, V, T, R
  <1>9. HasLen(T, 3) /\ T[1] = P[1] /\ T[2] = P[2] /\ T[3] = V[1]  BY <1>6, <1>7, <1>8, JoinedAt
  <1>10. /\ HasLen(R, 12) /\ R[1] = M[1] /\ R[10] = T[1] /\ R[11] = T[2] /\ R[12] = T[3]
    BY <1>4, <1>8, <1>9, JoinedAt
  <1>11. Len(R) = 12 /\ Len(M) = 9  BY <1>4, <1>10, LenIs
  <1> QED BY <1>1, <1>2, <1>3, <1>5, <1>7, <1>9, <1>10, <1>11, Zenon DEF P

\* v9 has nine statements before its indexes.
LEMMA NineLong == Len(MigrateProxiesV9) = 9
  BY NineBody, LenIs

-----------------------------------------------------------------------------
(* The validations and indexes.sql *)

\* A statement of the last stage finds the names it needs in a complete database.
EndGood(s) == Good(41, s) /\ s.op \in {"ddl", "check", "write"} /\ (s.op = "ddl" => s.table = "none")

\* An index of indexes.sql finds its columns in a complete database.
LEMMA IndexEnd ==
  ASSUME NEW t, NEW i, NEW cols, NEW what, i \notin {"table", "scheduled_at"}, Known(41, t, "table"),
         \A c \in cols : Known(41, t, c)
  PROVE  EndGood(Index(t, i, cols, what)) /\ Index(t, i, cols, what).op = "ddl"
  <1> DEFINE s == Index(t, i, cols, what)
  <1>1. s.op = "ddl" /\ s.table = "none"  BY DEF Index, Stmt
  <1>2. Good(41, s)  BY IndexGood
  <1> HIDE DEF s
  <1> QED BY <1>1, <1>2 DEF EndGood, s

\* So does a validation,
LEMMA CheckEnd ==
  ASSUME NEW t, NEW what, NEW cols, Known(41, t, "table"), \A c \in cols : Known(41, t, c)
  PROVE  EndGood(Check(t, what, cols))
  <1> DEFINE s == Check(t, what, cols)
  <1>1. s.op = "check"  BY DEF Check, Stmt
  <1>2. Good(41, s)  BY CheckGood
  <1> HIDE DEF s
  <1> QED BY <1>1, <1>2 DEF EndGood, s

\* and the write that fills in spider_x.
LEMMA WriteEnd ==
  ASSUME NEW t, NEW d, NEW cols, d # "table", Known(41, t, "table"), \A c \in cols : Known(41, t, c)
  PROVE  EndGood(Write(t, d, cols))
  <1> DEFINE s == Write(t, d, cols)
  <1>1. s.op = "write"  BY DEF Write, Stmt
  <1>2. Good(41, s)  BY WriteGood, SMTT(30)
  <1> HIDE DEF s
  <1> QED BY <1>1, <1>2 DEF EndGood, s

\* indexes.sql, statement by statement
LEMMA IndexesAt ==
  /\ Indexes[1] = Index("users", "idx_role", {"role"}, "none")
  /\ Indexes[2] = Index("users", "idx_active_role", {"blocked_at"}, "none")
  /\ Indexes[3] = Index("access_requests", "idx_pending_created", {"status"}, "none")
  /\ Indexes[4] = Index("access_requests", "idx_one_pending", {"status"}, "none")
  /\ Indexes[5] = Index("vpn_keys", "idx_owner", {"owner"}, "none")
  /\ Indexes[6] = Index("vpn_keys", "idx_type_status", {}, "none")
  /\ Indexes[7] = Index("vpn_keys", "idx_status_type", {}, "none")
  /\ Indexes[8] = Index("vpn_keys", "idx_uuid", {"uuid"}, "none")
  /\ Indexes[9] = Index("vpn_keys", "idx_email_label", {"label"}, "none")
  /\ Indexes[10] = Index("vpn_keys", "idx_public_key", {}, "none")
  /\ Indexes[11] = Index("vpn_keys", "idx_short_id", {}, "none")
  /\ Indexes[12] = Index("vpn_keys", "idx_owner_type_status", {"owner"}, "none")
  /\ Indexes[13] = Index("vpn_keys", "idx_client_ip_reserved", {"client_ip"}, "same_ip")
  /\ Indexes[14] = Index("vpn_keys", "idx_expires_at", {"expires_at"}, "none")
  /\ Indexes[15] = Index("vpn_keys", "idx_bundle_id", {"bundle_id"}, "none")
  /\ Indexes[16] = Index("vpn_keys", "idx_relay", {"relay"}, "none")
  /\ Indexes[17] = Index("key_bundles", "idx_user", {"user"}, "none")
  /\ Indexes[18] = Index("key_bundles", "idx_status", {"status"}, "none")
  /\ Indexes[19] = Index("key_bundles", "idx_display_no", {"display_no"}, "none")
  /\ Indexes[20] = Index("trial_key_requests", "idx_user", {"user"}, "none")
  /\ Indexes[21] = Index("trial_key_requests", "idx_one_pending", {"status"}, "two_pending_trials")
  /\ Indexes[22] = Index("proxy_accesses", "idx_owner", {"owner"}, "none")
  /\ Indexes[23] = Index("proxy_accesses", "idx_fingerprint", {"secret_fingerprint"}, "none")
  /\ Indexes[24] = Index("proxy_accesses", "idx_one_live", {"owner"}, "two_live_proxies")
  /\ Indexes[25] = Index("vpn_key_traffic_stats", "idx_success", {}, "none")
  /\ Indexes[26] = Index("deleted_key_traffic_archive", "idx_type", {}, "none")
  /\ Indexes[27] = Index("deleted_key_traffic_archive", "idx_owner", {}, "none")
  /\ Indexes[28] = Index("traffic_hourly", "idx_hour", {}, "none")
  /\ Indexes[29] = Index("announcement_batches", "idx_status", {"status"}, "none")
  /\ Indexes[30] = Index("announcement_batches", "idx_scheduled", {"scheduled_at"}, "none")
  /\ Indexes[31] = Index("announcement_deliveries", "idx_status", {}, "none")
  BY ZenonT(40) DEF Indexes

\* From here to Index31: the statements of indexes.sql find what they need.
LEMMA Index1 == EndGood(Indexes[1]) /\ Indexes[1].op = "ddl"
  <1>1. Indexes[1] = Index("users", "idx_role", {"role"}, "none")  BY IndexesAt
  <1>2. Known(41, "users", "table")  BY TableKnown DEF AllTables
  <1>3. Known(41, "users", "role")  BY FirstKnown DEF FirstNames
  <1> QED BY <1>1, <1>2, <1>3, IndexEnd

LEMMA Index2 == EndGood(Indexes[2]) /\ Indexes[2].op = "ddl"
  <1>1. Indexes[2] = Index("users", "idx_active_role", {"blocked_at"}, "none")  BY IndexesAt
  <1>2. Known(41, "users", "table")  BY TableKnown DEF AllTables
  <1>3. Known(41, "users", "blocked_at")  BY FirstKnown DEF FirstNames
  <1> QED BY <1>1, <1>2, <1>3, IndexEnd

LEMMA Index3 == EndGood(Indexes[3]) /\ Indexes[3].op = "ddl"
  <1>1. Indexes[3] = Index("access_requests", "idx_pending_created", {"status"}, "none")  BY IndexesAt
  <1>2. Known(41, "access_requests", "table")  BY TableKnown DEF AllTables
  <1>3. Known(41, "access_requests", "status")  BY FirstKnown DEF FirstNames
  <1> QED BY <1>1, <1>2, <1>3, IndexEnd

LEMMA Index4 == EndGood(Indexes[4]) /\ Indexes[4].op = "ddl"
  <1>1. Indexes[4] = Index("access_requests", "idx_one_pending", {"status"}, "none")  BY IndexesAt
  <1>2. Known(41, "access_requests", "table")  BY TableKnown DEF AllTables
  <1>3. Known(41, "access_requests", "status")  BY FirstKnown DEF FirstNames
  <1> QED BY <1>1, <1>2, <1>3, IndexEnd

LEMMA Index5 == EndGood(Indexes[5]) /\ Indexes[5].op = "ddl"
  <1>1. Indexes[5] = Index("vpn_keys", "idx_owner", {"owner"}, "none")  BY IndexesAt
  <1>2. Known(41, "vpn_keys", "table")  BY TableKnown DEF AllTables
  <1>3. Known(41, "vpn_keys", "owner")  BY FirstKnown DEF FirstNames
  <1> QED BY <1>1, <1>2, <1>3, IndexEnd

LEMMA Index6 == EndGood(Indexes[6]) /\ Indexes[6].op = "ddl"
  <1>1. Indexes[6] = Index("vpn_keys", "idx_type_status", {}, "none")  BY IndexesAt
  <1>2. Known(41, "vpn_keys", "table")  BY TableKnown DEF AllTables
  <1> QED BY <1>1, <1>2, IndexEnd

LEMMA Index7 == EndGood(Indexes[7]) /\ Indexes[7].op = "ddl"
  <1>1. Indexes[7] = Index("vpn_keys", "idx_status_type", {}, "none")  BY IndexesAt
  <1>2. Known(41, "vpn_keys", "table")  BY TableKnown DEF AllTables
  <1> QED BY <1>1, <1>2, IndexEnd

LEMMA Index8 == EndGood(Indexes[8]) /\ Indexes[8].op = "ddl"
  <1>1. Indexes[8] = Index("vpn_keys", "idx_uuid", {"uuid"}, "none")  BY IndexesAt
  <1>2. Known(41, "vpn_keys", "table")  BY TableKnown DEF AllTables
  <1>3. Known(41, "vpn_keys", "uuid")  BY FirstKnown DEF FirstNames
  <1> QED BY <1>1, <1>2, <1>3, IndexEnd

LEMMA Index9 == EndGood(Indexes[9]) /\ Indexes[9].op = "ddl"
  <1>1. Indexes[9] = Index("vpn_keys", "idx_email_label", {"label"}, "none")  BY IndexesAt
  <1>2. Known(41, "vpn_keys", "table")  BY TableKnown DEF AllTables
  <1>3. Known(41, "vpn_keys", "label")  BY FirstKnown DEF FirstNames
  <1> QED BY <1>1, <1>2, <1>3, IndexEnd

LEMMA Index10 == EndGood(Indexes[10]) /\ Indexes[10].op = "ddl"
  <1>1. Indexes[10] = Index("vpn_keys", "idx_public_key", {}, "none")  BY IndexesAt
  <1>2. Known(41, "vpn_keys", "table")  BY TableKnown DEF AllTables
  <1> QED BY <1>1, <1>2, IndexEnd

LEMMA Index11 == EndGood(Indexes[11]) /\ Indexes[11].op = "ddl"
  <1>1. Indexes[11] = Index("vpn_keys", "idx_short_id", {}, "none")  BY IndexesAt
  <1>2. Known(41, "vpn_keys", "table")  BY TableKnown DEF AllTables
  <1> QED BY <1>1, <1>2, IndexEnd

LEMMA Index12 == EndGood(Indexes[12]) /\ Indexes[12].op = "ddl"
  <1>1. Indexes[12] = Index("vpn_keys", "idx_owner_type_status", {"owner"}, "none")  BY IndexesAt
  <1>2. Known(41, "vpn_keys", "table")  BY TableKnown DEF AllTables
  <1>3. Known(41, "vpn_keys", "owner")  BY FirstKnown DEF FirstNames
  <1> QED BY <1>1, <1>2, <1>3, IndexEnd

LEMMA Index13 == EndGood(Indexes[13]) /\ Indexes[13].op = "ddl"
  <1>1. Indexes[13] = Index("vpn_keys", "idx_client_ip_reserved", {"client_ip"}, "same_ip")  BY IndexesAt
  <1>2. Known(41, "vpn_keys", "table")  BY TableKnown DEF AllTables
  <1>3. Known(41, "vpn_keys", "client_ip")  BY FirstKnown DEF FirstNames
  <1> QED BY <1>1, <1>2, <1>3, IndexEnd

LEMMA Index14 == EndGood(Indexes[14]) /\ Indexes[14].op = "ddl"
  <1>1. Indexes[14] = Index("vpn_keys", "idx_expires_at", {"expires_at"}, "none")  BY IndexesAt
  <1>2. Known(41, "vpn_keys", "table")  BY TableKnown DEF AllTables
  <1>3. Known(41, "vpn_keys", "expires_at")  BY LateKnown DEF LateNames
  <1> QED BY <1>1, <1>2, <1>3, IndexEnd

LEMMA Index15 == EndGood(Indexes[15]) /\ Indexes[15].op = "ddl"
  <1>1. Indexes[15] = Index("vpn_keys", "idx_bundle_id", {"bundle_id"}, "none")  BY IndexesAt
  <1>2. Known(41, "vpn_keys", "table")  BY TableKnown DEF AllTables
  <1>3. Known(41, "vpn_keys", "bundle_id")  BY LateKnown, SMTT(30) DEF LateNames
  <1> QED BY <1>1, <1>2, <1>3, IndexEnd

LEMMA Index16 == EndGood(Indexes[16]) /\ Indexes[16].op = "ddl"
  <1>1. Indexes[16] = Index("vpn_keys", "idx_relay", {"relay"}, "none")  BY IndexesAt
  <1>2. Known(41, "vpn_keys", "table")  BY TableKnown DEF AllTables
  <1>3. Known(41, "vpn_keys", "relay")  BY LateKnown DEF LateNames
  <1> QED BY <1>1, <1>2, <1>3, IndexEnd

LEMMA Index17 == EndGood(Indexes[17]) /\ Indexes[17].op = "ddl"
  <1>1. Indexes[17] = Index("key_bundles", "idx_user", {"user"}, "none")  BY IndexesAt
  <1>2. Known(41, "key_bundles", "table")  BY TableKnown DEF AllTables
  <1>3. Known(41, "key_bundles", "user")  BY FirstKnown DEF FirstNames
  <1> QED BY <1>1, <1>2, <1>3, IndexEnd

LEMMA Index18 == EndGood(Indexes[18]) /\ Indexes[18].op = "ddl"
  <1>1. Indexes[18] = Index("key_bundles", "idx_status", {"status"}, "none")  BY IndexesAt
  <1>2. Known(41, "key_bundles", "table")  BY TableKnown DEF AllTables
  <1>3. Known(41, "key_bundles", "status")  BY FirstKnown DEF FirstNames
  <1> QED BY <1>1, <1>2, <1>3, IndexEnd

LEMMA Index19 == EndGood(Indexes[19]) /\ Indexes[19].op = "ddl"
  <1>1. Indexes[19] = Index("key_bundles", "idx_display_no", {"display_no"}, "none")  BY IndexesAt
  <1>2. Known(41, "key_bundles", "table")  BY TableKnown DEF AllTables
  <1>3. Known(41, "key_bundles", "display_no")  BY LateKnown, SMTT(30) DEF LateNames
  <1> QED BY <1>1, <1>2, <1>3, IndexEnd

LEMMA Index20 == EndGood(Indexes[20]) /\ Indexes[20].op = "ddl"
  <1>1. Indexes[20] = Index("trial_key_requests", "idx_user", {"user"}, "none")  BY IndexesAt
  <1>2. Known(41, "trial_key_requests", "table")  BY TableKnown DEF AllTables
  <1>3. Known(41, "trial_key_requests", "user")  BY FirstKnown DEF FirstNames
  <1> QED BY <1>1, <1>2, <1>3, IndexEnd

LEMMA Index21 == EndGood(Indexes[21]) /\ Indexes[21].op = "ddl"
  <1>1. Indexes[21] = Index("trial_key_requests", "idx_one_pending", {"status"}, "two_pending_trials")
      BY IndexesAt
  <1>2. Known(41, "trial_key_requests", "table")  BY TableKnown DEF AllTables
  <1>3. Known(41, "trial_key_requests", "status")  BY FirstKnown DEF FirstNames
  <1> QED BY <1>1, <1>2, <1>3, IndexEnd

LEMMA Index22 == EndGood(Indexes[22]) /\ Indexes[22].op = "ddl"
  <1>1. Indexes[22] = Index("proxy_accesses", "idx_owner", {"owner"}, "none")  BY IndexesAt
  <1>2. Known(41, "proxy_accesses", "table")  BY TableKnown DEF AllTables
  <1>3. Known(41, "proxy_accesses", "owner")  BY FirstKnown DEF FirstNames
  <1> QED BY <1>1, <1>2, <1>3, IndexEnd

LEMMA Index23 == EndGood(Indexes[23]) /\ Indexes[23].op = "ddl"
  <1>1. Indexes[23] = Index("proxy_accesses", "idx_fingerprint", {"secret_fingerprint"}, "none")
      BY IndexesAt
  <1>2. Known(41, "proxy_accesses", "table")  BY TableKnown DEF AllTables
  <1>3. Known(41, "proxy_accesses", "secret_fingerprint")  BY FirstKnown DEF FirstNames
  <1> QED BY <1>1, <1>2, <1>3, IndexEnd

LEMMA Index24 == EndGood(Indexes[24]) /\ Indexes[24].op = "ddl"
  <1>1. Indexes[24] = Index("proxy_accesses", "idx_one_live", {"owner"}, "two_live_proxies")  BY IndexesAt
  <1>2. Known(41, "proxy_accesses", "table")  BY TableKnown DEF AllTables
  <1>3. Known(41, "proxy_accesses", "owner")  BY FirstKnown DEF FirstNames
  <1> QED BY <1>1, <1>2, <1>3, IndexEnd

LEMMA Index25 == EndGood(Indexes[25]) /\ Indexes[25].op = "ddl"
  <1>1. Indexes[25] = Index("vpn_key_traffic_stats", "idx_success", {}, "none")  BY IndexesAt
  <1>2. Known(41, "vpn_key_traffic_stats", "table")  BY TableKnown DEF AllTables
  <1> QED BY <1>1, <1>2, IndexEnd

LEMMA Index26 == EndGood(Indexes[26]) /\ Indexes[26].op = "ddl"
  <1>1. Indexes[26] = Index("deleted_key_traffic_archive", "idx_type", {}, "none")  BY IndexesAt
  <1>2. Known(41, "deleted_key_traffic_archive", "table")  BY TableKnown DEF AllTables
  <1> QED BY <1>1, <1>2, IndexEnd

LEMMA Index27 == EndGood(Indexes[27]) /\ Indexes[27].op = "ddl"
  <1>1. Indexes[27] = Index("deleted_key_traffic_archive", "idx_owner", {}, "none")  BY IndexesAt
  <1>2. Known(41, "deleted_key_traffic_archive", "table")  BY TableKnown DEF AllTables
  <1> QED BY <1>1, <1>2, IndexEnd

LEMMA Index28 == EndGood(Indexes[28]) /\ Indexes[28].op = "ddl"
  <1>1. Indexes[28] = Index("traffic_hourly", "idx_hour", {}, "none")  BY IndexesAt
  <1>2. Known(41, "traffic_hourly", "table")  BY TableKnown DEF AllTables
  <1> QED BY <1>1, <1>2, IndexEnd

LEMMA Index29 == EndGood(Indexes[29]) /\ Indexes[29].op = "ddl"
  <1>1. Indexes[29] = Index("announcement_batches", "idx_status", {"status"}, "none")  BY IndexesAt
  <1>2. Known(41, "announcement_batches", "table")  BY TableKnown DEF AllTables
  <1>3. Known(41, "announcement_batches", "status")  BY FirstKnown DEF FirstNames
  <1> QED BY <1>1, <1>2, <1>3, IndexEnd

LEMMA Index30 == EndGood(Indexes[30]) /\ Indexes[30].op = "ddl"
  <1>1. Indexes[30] = Index("announcement_batches", "idx_scheduled", {"scheduled_at"}, "none")  BY IndexesAt
  <1>2. Known(41, "announcement_batches", "table")  BY TableKnown DEF AllTables
  <1>3. Known(41, "announcement_batches", "scheduled_at")  BY LateKnown DEF LateNames
  <1> QED BY <1>1, <1>2, <1>3, IndexEnd

LEMMA Index31 == EndGood(Indexes[31]) /\ Indexes[31].op = "ddl"
  <1>1. Indexes[31] = Index("announcement_deliveries", "idx_status", {}, "none")  BY IndexesAt
  <1>2. Known(41, "announcement_deliveries", "table")  BY TableKnown DEF AllTables
  <1> QED BY <1>1, <1>2, IndexEnd

\* Every statement of indexes.sql finds what it needs.
LEMMA IndexesGood == \A k \in 1..31 : EndGood(Indexes[k]) /\ Indexes[k].op = "ddl"
  <1> SUFFICES ASSUME NEW k \in 1..31 PROVE EndGood(Indexes[k]) /\ Indexes[k].op = "ddl"
    OBVIOUS
  <1>1. CASE k = 1  BY <1>1, Index1
  <1>2. CASE k = 2  BY <1>2, Index2
  <1>3. CASE k = 3  BY <1>3, Index3
  <1>4. CASE k = 4  BY <1>4, Index4
  <1>5. CASE k = 5  BY <1>5, Index5
  <1>6. CASE k = 6  BY <1>6, Index6
  <1>7. CASE k = 7  BY <1>7, Index7
  <1>8. CASE k = 8  BY <1>8, Index8
  <1>9. CASE k = 9  BY <1>9, Index9
  <1>10. CASE k = 10  BY <1>10, Index10
  <1>11. CASE k = 11  BY <1>11, Index11
  <1>12. CASE k = 12  BY <1>12, Index12
  <1>13. CASE k = 13  BY <1>13, Index13
  <1>14. CASE k = 14  BY <1>14, Index14
  <1>15. CASE k = 15  BY <1>15, Index15
  <1>16. CASE k = 16  BY <1>16, Index16
  <1>17. CASE k = 17  BY <1>17, Index17
  <1>18. CASE k = 18  BY <1>18, Index18
  <1>19. CASE k = 19  BY <1>19, Index19
  <1>20. CASE k = 20  BY <1>20, Index20
  <1>21. CASE k = 21  BY <1>21, Index21
  <1>22. CASE k = 22  BY <1>22, Index22
  <1>23. CASE k = 23  BY <1>23, Index23
  <1>24. CASE k = 24  BY <1>24, Index24
  <1>25. CASE k = 25  BY <1>25, Index25
  <1>26. CASE k = 26  BY <1>26, Index26
  <1>27. CASE k = 27  BY <1>27, Index27
  <1>28. CASE k = 28  BY <1>28, Index28
  <1>29. CASE k = 29  BY <1>29, Index29
  <1>30. CASE k = 30  BY <1>30, Index30
  <1>31. CASE k = 31  BY <1>31, Index31
  <1> QED
      BY <1>1, <1>2, <1>3, <1>4, <1>5, <1>6, <1>7, <1>8, <1>9, <1>10, <1>11, <1>12, <1>13, <1>14, <1>15,
         <1>16,
         <1>17, <1>18, <1>19, <1>20, <1>21, <1>22, <1>23, <1>24, <1>25, <1>26, <1>27, <1>28, <1>29, <1>30,
                 <1>31

\* As many statements as indexes.sql has
LEMMA Seq31 ==
  ASSUME NEW a1, NEW a2, NEW a3, NEW a4, NEW a5, NEW a6, NEW a7, NEW a8, NEW a9, NEW a10, NEW a11, NEW a12,
          NEW a13, NEW a14, NEW a15, NEW a16, NEW a17, NEW a18, NEW a19, NEW a20, NEW a21, NEW a22,
          NEW a23, NEW a24, NEW a25, NEW a26, NEW a27, NEW a28, NEW a29, NEW a30, NEW a31
  PROVE  HasLen(<<a1, a2, a3, a4, a5, a6, a7, a8, a9, a10, a11, a12, a13, a14, a15, a16, a17, a18, a19,
          a20, a21, a22, a23, a24, a25, a26, a27, a28, a29, a30, a31>>, 31)
  <1> DEFINE S == {a1, a2, a3, a4, a5, a6, a7, a8, a9, a10, a11, a12, a13, a14, a15, a16, a17, a18, a19,
             a20, a21, a22, a23, a24, a25, a26, a27, a28, a29, a30, a31}
  <1>1. a1 \in S /\ a2 \in S /\ a3 \in S /\ a4 \in S /\ a5 \in S /\ a6 \in S /\ a7 \in S /\ a8 \in S
          /\ a9 \in S /\ a10 \in S /\ a11 \in S /\ a12 \in S /\ a13 \in S /\ a14 \in S /\ a15 \in S
          /\ a16 \in S /\ a17 \in S /\ a18 \in S /\ a19 \in S /\ a20 \in S /\ a21 \in S /\ a22 \in S
          /\ a23 \in S /\ a24 \in S /\ a25 \in S /\ a26 \in S /\ a27 \in S /\ a28 \in S /\ a29 \in S
          /\ a30 \in S /\ a31 \in S
    OBVIOUS
  <1> HIDE DEF S
  <1>2. <<a1, a2, a3, a4, a5, a6, a7, a8, a9, a10, a11, a12, a13, a14, a15, a16, a17, a18, a19, a20, a21,
          a22, a23, a24, a25, a26, a27, a28, a29, a30, a31>> \in Seq(S)
    BY <1>1
  <1>3. Len(<<a1, a2, a3, a4, a5, a6, a7, a8, a9, a10, a11, a12, a13, a14, a15, a16, a17, a18, a19, a20,
          a21, a22, a23, a24, a25, a26, a27, a28, a29, a30, a31>>) = 31
    OBVIOUS
  <1> QED BY <1>2, <1>3 DEF IsSeq, HasLen

\* indexes.sql has 31 statements.
LEMMA IndexesLen == HasLen(Indexes, 31)
  BY Seq31 DEF Indexes

\* The validations of the references find the columns they read.
LEMMA ReferencesGood == HasLen(ValidateReferences, 4) /\ \A k \in 1..4 : EndGood(ValidateReferences[k])
  <1> DEFINE a == Check("vpn_keys", "orphan", {"owner"})  b == Check("key_bundles", "orphan", {"user"})
             c == Check("proxy_accesses", "orphan", {"owner"})
             d == Check("vpn_key_traffic_stats", "orphan", {})
  <1>1. EndGood(a)
    <2>1. Known(41, "vpn_keys", "table")  BY TableKnown DEF AllTables
    <2>2. Known(41, "vpn_keys", "owner")  BY FirstKnown DEF FirstNames
    <2> QED BY <2>1, <2>2, CheckEnd
  <1>2. EndGood(b)
    <2>1. Known(41, "key_bundles", "table")  BY TableKnown DEF AllTables
    <2>2. Known(41, "key_bundles", "user")  BY FirstKnown DEF FirstNames
    <2> QED BY <2>1, <2>2, CheckEnd
  <1>3. EndGood(c)
    <2>1. Known(41, "proxy_accesses", "table")  BY TableKnown DEF AllTables
    <2>2. Known(41, "proxy_accesses", "owner")  BY FirstKnown DEF FirstNames
    <2> QED BY <2>1, <2>2, CheckEnd
  <1>4. EndGood(d)
    <2>1. Known(41, "vpn_key_traffic_stats", "table")  BY TableKnown DEF AllTables
    <2> QED BY <2>1, CheckEnd
  <1>5. ValidateReferences = <<a, b, c, d>>  BY DEF ValidateReferences
  <1> HIDE DEF a, b, c, d
  <1>6. HasLen(<<a, b, c, d>>, 4)  BY Has4
  <1>7. \A k \in 1..4 : EndGood(<<a, b, c, d>>[k])
    <2>1. <<a, b, c, d>>[1] = a /\ <<a, b, c, d>>[2] = b /\ <<a, b, c, d>>[3] = c /\ <<a, b, c, d>>[4] = d
      BY Has4
    <2> QED BY <2>1, <1>1, <1>2, <1>3, <1>4
  <1> QED BY <1>5, <1>6, <1>7, Zenon

\* So do those of the enumerations,
LEMMA EnumsGood == HasLen(ValidateEnums, 4) /\ \A k \in 1..4 : EndGood(ValidateEnums[k])
  <1> DEFINE a == Check("users", "enum", {"role"})  b == Check("vpn_keys", "enum", {"transport"})
             c == Check("key_bundles", "enum", {"kind"})
             d == Check("announcement_batches", "enum", {"status"})
  <1>1. EndGood(a)
    <2>1. Known(41, "users", "table")  BY TableKnown DEF AllTables
    <2>2. Known(41, "users", "role")  BY FirstKnown DEF FirstNames
    <2> QED BY <2>1, <2>2, CheckEnd
  <1>2. EndGood(b)
    <2>1. Known(41, "vpn_keys", "table")  BY TableKnown DEF AllTables
    <2>2. Known(41, "vpn_keys", "transport")  BY LateKnown DEF LateNames
    <2> QED BY <2>1, <2>2, CheckEnd
  <1>3. EndGood(c)
    <2>1. Known(41, "key_bundles", "table")  BY TableKnown DEF AllTables
    <2>2. Known(41, "key_bundles", "kind")  BY LateKnown DEF LateNames
    <2> QED BY <2>1, <2>2, CheckEnd
  <1>4. EndGood(d)
    <2>1. Known(41, "announcement_batches", "table")  BY TableKnown DEF AllTables
    <2>2. Known(41, "announcement_batches", "status")  BY FirstKnown DEF FirstNames
    <2> QED BY <2>1, <2>2, CheckEnd
  <1>5. ValidateEnums = <<a, b, c, d>>  BY DEF ValidateEnums
  <1> HIDE DEF a, b, c, d
  <1>6. HasLen(<<a, b, c, d>>, 4)  BY Has4
  <1>7. \A k \in 1..4 : EndGood(<<a, b, c, d>>[k])
    <2>1. <<a, b, c, d>>[1] = a /\ <<a, b, c, d>>[2] = b /\ <<a, b, c, d>>[3] = c /\ <<a, b, c, d>>[4] = d
      BY Has4
    <2> QED BY <2>1, <1>1, <1>2, <1>3, <1>4
  <1> QED BY <1>5, <1>6, <1>7, Zenon

\* and the write that fills in spider_x.
LEMMA BackfillGood == EndGood(SpiderXBackfill)
  <1>1. Known(41, "vpn_keys", "table")  BY TableKnown DEF AllTables
  <1>2. Known(41, "vpn_keys", "spider_x")  BY LateKnown DEF LateNames
  <1> QED BY <1>1, <1>2, WriteEnd DEF SpiderXBackfill

\* Where the statements of the last stage are
LEMMA LastShape ==
  ASSUME NEW V, NEW E, NEW I, NEW Z, NEW X, NEW Y, NEW R, HasLen(V, 4), HasLen(E, 4), HasLen(I, 31),
          HasLen(Z, 2),
         Joined(X, V, E), Joined(Y, X, I), Joined(R, Y, Z)
  PROVE  /\ HasLen(R, 41)
         /\ \A k \in 1..4 : R[k] = V[k]
         /\ \A k \in 5..8 : R[k] = E[k - 4]
         /\ \A k \in 9..39 : R[k] = I[k - 8]
         /\ R[40] = Z[1] /\ R[41] = Z[2]
  <1>1. /\ HasLen(X, 8) /\ \A k \in 1..4 : X[k] = V[k]
        /\ \A k \in 5..8 : X[k] = E[k - 4]
    BY JoinedAt
  <1>2. HasLen(Y, 39) /\ (\A k \in 1..8 : Y[k] = X[k]) /\ \A k \in 9..39 : Y[k] = I[k - 8]
    BY <1>1, JoinedAt
  <1>3. HasLen(R, 41) /\ (\A k \in 1..39 : R[k] = Y[k]) /\ \A k \in 40..41 : R[k] = Z[k - 39]
    BY <1>2, JoinedAt
  <1>4. \A k \in 1..4 : R[k] = V[k]  BY <1>1, <1>2, <1>3
  <1>5. \A k \in 5..8 : R[k] = E[k - 4]  BY <1>1, <1>2, <1>3
  <1>6. \A k \in 9..39 : R[k] = I[k - 8]  BY <1>2, <1>3
  <1>7. R[40] = Z[1] /\ R[41] = Z[2]  BY <1>3
  <1> QED BY <1>3, <1>4, <1>5, <1>6, <1>7

\* Each part of the last stage at its places
LEMMA LastParts ==
  ASSUME stage = LastStage
  PROVE  /\ Len(Rest) = 41
         /\ \A k \in 1..4 : Rest[k] = ValidateReferences[k]
         /\ \A k \in 5..8 : Rest[k] = ValidateEnums[k - 4]
         /\ \A k \in 9..39 : Rest[k] = Indexes[k - 8]
         /\ Rest[40] = SpiderXBackfill /\ Rest[41] = Commit
  <1> DEFINE V == ValidateReferences  E == ValidateEnums  I == Indexes  Z == <<SpiderXBackfill, Commit>>
             X == V \o E  Y == X \o I  R == Y \o Z
  <1>1. stage = 41 /\ stage \notin 1..CurrentVersion /\ ~(stage <= CurrentVersion)
    BY DEF LastStage, CurrentVersion
  <1>2. Statements(stage) = R  BY <1>1 DEF Statements
  <1>3. Rest = R \o << >>  BY <1>1, <1>2 DEF Rest
  <1>4. Joined(X, V, E) /\ Joined(Y, X, I) /\ Joined(R, Y, Z)  BY DEF Joined
  <1>5. HasLen(V, 4) /\ HasLen(E, 4) /\ HasLen(I, 31)  BY ReferencesGood, EnumsGood, IndexesLen
  <1>6. HasLen(Z, 2) /\ Z[1] = SpiderXBackfill /\ Z[2] = Commit  BY Has2
  <1> HIDE DEF V, E, I, Z, X, Y, R
  <1>7. /\ HasLen(R, 41)
        /\ \A k \in 1..4 : R[k] = V[k]
        /\ \A k \in 5..8 : R[k] = E[k - 4]
        /\ \A k \in 9..39 : R[k] = I[k - 8]
        /\ R[40] = Z[1] /\ R[41] = Z[2]
    BY <1>4, <1>5, <1>6, LastShape
  <1>8. Rest = R
    <2>1. PICK S : R \in Seq(S)  BY <1>7 DEF HasLen, IsSeq
    <2> QED BY <1>3, <2>1
  <1>9. Len(Rest) = 41  BY <1>7, <1>8, LenIs, Zenon
  <1>10. /\ \A k \in 1..4 : Rest[k] = V[k]
         /\ \A k \in 5..8 : Rest[k] = E[k - 4]
         /\ \A k \in 9..39 : Rest[k] = I[k - 8]
         /\ Rest[40] = SpiderXBackfill /\ Rest[41] = Commit
    BY <1>6, <1>7, <1>8, Zenon
  <1> QED BY <1>9, <1>10, Zenon DEF V, E, I

\* Every statement of the last stage finds what it needs.
LEMMA LastStatements ==
  ASSUME stage = LastStage
  PROVE  \A i \in 1..40 : EndGood(Rest[i])
  <1> SUFFICES ASSUME NEW i \in 1..40 PROVE EndGood(Rest[i])
    OBVIOUS
  <1>1. CASE i \in 1..4  BY <1>1, LastParts, ReferencesGood
  <1>2. CASE i \in 5..8
    <2>1. i - 4 \in 1..4  BY <1>2
    <2>2. Rest[i] = ValidateEnums[i - 4]  BY <1>2, LastParts
    <2> QED BY <2>1, <2>2, EnumsGood
  <1>3. CASE i \in 9..39
    <2>1. i - 8 \in 1..31  BY <1>3
    <2>2. Rest[i] = Indexes[i - 8]  BY <1>3, LastParts
    <2> QED BY <2>1, <2>2, IndexesGood
  <1>4. CASE i = 40  BY <1>4, LastParts, BackfillGood
  <1> QED BY <1>1, <1>2, <1>3, <1>4

\* The last stage is its forty statements and COMMIT.
LEMMA LastRest ==
  ASSUME stage = LastStage
  PROVE  /\ Len(Rest) = 41
         /\ \A i \in 1..40 : /\ Steady(Rest[i]) /\ Rest[i].op \in {"ddl", "check", "write"}
                             /\ Rest[i].op = "ddl" => Rest[i].table = "none"
                             /\ Rest[i].needs \subseteq Whole
         /\ Rest[41] = Commit
  <1>1. \A i \in 1..40 : EndGood(Rest[i])  BY LastStatements
  <1> QED BY <1>1, LastParts DEF EndGood, Good, Met

\* The indexes of phase 3 are among the statements of the last stage.
LEMMA IndexesLast ==
  ASSUME stage = LastStage
  PROVE  \A i \in DOMAIN Indexes : \E j \in 1..40 : Rest[j] = Indexes[i] /\ Rest[j].op = "ddl"
  <1>1. DOMAIN Indexes = 1..31
    <2>1. IsSeq(Indexes) /\ Len(Indexes) = 31  BY IndexesLen DEF HasLen
    <2>2. DOMAIN Indexes = 1..Len(Indexes)  BY <2>1, SeqLen, SMTT(30)
    <2> QED BY <2>1, <2>2
  <1> SUFFICES ASSUME NEW i \in 1..31 PROVE \E j \in 1..40 : Rest[j] = Indexes[i] /\ Rest[j].op = "ddl"
    BY <1>1, ZenonT(40)
  <1> DEFINE j == i + 8
  <1>2. j \in 9..39 /\ j - 8 = i /\ j \in 1..40  OBVIOUS
  <1> HIDE DEF j
  <1>3. Rest[j] = Indexes[i]  BY <1>2, LastParts
  <1>4. Indexes[i].op = "ddl"  BY IndexesGood
  <1> QED BY <1>2, <1>3, <1>4

-----------------------------------------------------------------------------
(* The statements of a rebuild *)

\* A sequence given by a function
LEMMA HasFun ==
  ASSUME NEW n \in Nat, NEW f, f = [i \in 1..n |-> f[i]]
  PROVE  HasLen(f, n)
  <1> DEFINE S == { f[i] : i \in 1..n }
  <1>1. f \in [1..n -> S]  OBVIOUS
  <1> HIDE DEF S
  <1>2. f \in Seq(S) /\ Len(f) = n  BY <1>1
  <1> QED BY <1>2 DEF HasLen, IsSeq

\* The parts of a rebuild in R: two statements, n more, four, n more and a last one
Shaped(R, n, A, I, B, J, C) ==
  /\ HasLen(R, 2 * n + 7) /\ R[1] = A[1] /\ R[2] = A[2]
  /\ \A k \in 3..(n + 2) : R[k] = I[k - 2]
  /\ R[n + 3] = B[1] /\ R[n + 4] = B[2] /\ R[n + 5] = B[3] /\ R[n + 6] = B[4]
  /\ \A k \in (n + 7)..(2 * n + 6) : R[k] = J[k - (n + 6)]
  /\ R[2 * n + 7] = C[1]

\* RebuildBody has this shape,
LEMMA BodyShape ==
  ASSUME NEW n \in Nat, NEW A, NEW I, NEW B, NEW J, NEW C, HasLen(A, 2), HasLen(I, n), HasLen(B, 4),
          HasLen(J, n),
         HasLen(C, 1), NEW X, NEW Y, NEW Z, NEW R, Joined(X, A, I), Joined(Y, X, B), Joined(Z, Y, J),
                 Joined(R, Z, C)
  PROVE  Shaped(R, n, A, I, B, J, C)
  <1>1. HasLen(X, n + 2) /\ (\A k \in 1..2 : X[k] = A[k]) /\ \A k \in 3..(n + 2) : X[k] = I[k - 2]
    <2>1. HasLen(X, 2 + n) /\ (\A k \in 1..2 : X[k] = A[k]) /\ \A k \in (2 + 1)..(2 + n) : X[k] = I[k - 2]
      BY JoinedAt
    <2>2. 2 + n = n + 2 /\ 2 + 1 = 3  OBVIOUS
    <2> QED BY <2>1, <2>2
  <1>2. /\ HasLen(Y, n + 6) /\ (\A k \in 1..(n + 2) : Y[k] = X[k])
        /\ \A k \in (n + 3)..(n + 6) : Y[k] = B[k - (n + 2)]
    <2> DEFINE m == n + 2
    <2>0. m \in Nat  OBVIOUS
    <2>3. HasLen(X, m)  BY <1>1
    <2> HIDE DEF m
    <2>1. HasLen(Y, m + 4) /\ (\A k \in 1..m : Y[k] = X[k]) /\ \A k \in (m + 1)..(m + 4) : Y[k] = B[k - m]
      BY <2>0, <2>3, JoinedAt
    <2>2. m + 4 = n + 6 /\ m + 1 = n + 3  BY DEF m
    <2> QED BY <2>1, <2>2, Zenon DEF m
  <1>3. /\ HasLen(Z, 2 * n + 6) /\ (\A k \in 1..(n + 6) : Z[k] = Y[k])
        /\ \A k \in (n + 7)..(2 * n + 6) : Z[k] = J[k - (n + 6)]
    <2> DEFINE m == n + 6
    <2>0. m \in Nat  OBVIOUS
    <2>3. HasLen(Y, m)  BY <1>2
    <2> HIDE DEF m
    <2>1. HasLen(Z, m + n) /\ (\A k \in 1..m : Z[k] = Y[k]) /\ \A k \in (m + 1)..(m + n) : Z[k] = J[k - m]
      BY <2>0, <2>3, JoinedAt
    <2>2. m + n = 2 * n + 6 /\ m + 1 = n + 7  BY DEF m
    <2> QED BY <2>1, <2>2, Zenon DEF m
  <1>4. HasLen(R, 2 * n + 7) /\ (\A k \in 1..(2 * n + 6) : R[k] = Z[k]) /\ R[2 * n + 7] = C[1]
    <2> DEFINE m == 2 * n + 6
    <2>0. m \in Nat  OBVIOUS
    <2>3. HasLen(Z, m)  BY <1>3
    <2> HIDE DEF m
    <2>1. HasLen(R, m + 1) /\ (\A k \in 1..m : R[k] = Z[k]) /\ \A k \in (m + 1)..(m + 1) : R[k] = C[k - m]
      BY <2>0, <2>3, JoinedAt
    <2>4. R[m + 1] = C[1]  BY <2>0, <2>1
    <2>2. m + 1 = 2 * n + 7  BY DEF m
    <2> QED BY <2>1, <2>2, <2>4, Zenon DEF m
  <1>5. R[1] = A[1] /\ R[2] = A[2]  BY <1>1, <1>2, <1>3, <1>4
  <1>6. \A k \in 3..(n + 2) : R[k] = I[k - 2]  BY <1>1, <1>2, <1>3, <1>4
  <1>7. R[n + 3] = B[1] /\ R[n + 4] = B[2] /\ R[n + 5] = B[3] /\ R[n + 6] = B[4]  BY <1>2, <1>3, <1>4
  <1>8. \A k \in (n + 7)..(2 * n + 6) : R[k] = J[k - (n + 6)]  BY <1>3, <1>4
  <1> QED BY <1>4, <1>5, <1>6, <1>7, <1>8 DEF Shaped

\* The statements of RebuildBody, one by one
IsBody(R, t, new, cols, copied, indexes) == R = RebuildBody(t, new, cols, copied, indexes)

BodyAt(R, n, t, new, cols, copied, indexes) ==
  /\ HasLen(R, 2 * n + 7) /\ R[1] = Begin /\ R[2] = DropIfExists(new)
  /\ \A k \in 3..(n + 2) : R[k] = DropIndex(t, indexes[k - 2])
  /\ R[n + 3] = CreateNew(new, cols) /\ R[n + 4] = Copy(t, new, copied) /\ R[n + 5] = Drop(t)
  /\ R[n + 6] = Rename(new, t)
  /\ \A k \in (n + 7)..(2 * n + 6) : R[k] = Index(t, indexes[k - (n + 6)], {}, "none")
  /\ R[2 * n + 7] = Commit

\* and these are its statements.
LEMMA BodyIs ==
  ASSUME NEW n \in Nat, NEW t, NEW new, NEW cols, NEW copied, NEW indexes, DOMAIN indexes = 1..n,
         NEW R, IsBody(R, t, new, cols, copied, indexes)
  PROVE  BodyAt(R, n, t, new, cols, copied, indexes)
  <1> DEFINE a == DropIfExists(new)  b == CreateNew(new, cols)  c == Copy(t, new, copied)
             d == Drop(t)  e == Rename(new, t)
             A == <<Begin, a>>  I == [i \in DOMAIN indexes |-> DropIndex(t, indexes[i])]
             B == <<b, c, d, e>>  J == [i \in DOMAIN indexes |-> Index(t, indexes[i], {}, "none")]
             C == <<Commit>>
             X == A \o I  Y == X \o B  Z == Y \o J  Q == Z \o C
  <1>1. R = Q  BY DEF RebuildBody, IsBody
  <1>2. Joined(X, A, I) /\ Joined(Y, X, B) /\ Joined(Z, Y, J) /\ Joined(Q, Z, C)  BY DEF Joined
  <1> HIDE DEF X, Y, Z, Q
  <1>3. \A i \in 1..n : I[i] = DropIndex(t, indexes[i])  OBVIOUS
  <1>4. \A i \in 1..n : J[i] = Index(t, indexes[i], {}, "none")  OBVIOUS
  <1>5. HasLen(I, n)
    <2>1. I = [i \in 1..n |-> I[i]]  OBVIOUS
    <2> HIDE DEF I
    <2> QED BY <2>1, HasFun
  <1>6. HasLen(J, n)
    <2>1. J = [i \in 1..n |-> J[i]]  OBVIOUS
    <2> HIDE DEF J
    <2> QED BY <2>1, HasFun
  <1> HIDE DEF a, b, c, d, e, I, J
  <1>7. HasLen(A, 2) /\ A[1] = Begin /\ A[2] = a  BY Has2
  <1>8. HasLen(B, 4) /\ B[1] = b /\ B[2] = c /\ B[3] = d /\ B[4] = e  BY Has4
  <1>9. HasLen(C, 1) /\ C[1] = Commit  BY Has1
  <1> HIDE DEF A, B, C
  <1>14. Shaped(Q, n, A, I, B, J, C)
    BY <1>2, <1>5, <1>6, <1>7, <1>8, <1>9, BodyShape
  <1>10. /\ HasLen(Q, 2 * n + 7) /\ Q[1] = A[1] /\ Q[2] = A[2]
         /\ \A k \in 3..(n + 2) : Q[k] = I[k - 2]
         /\ Q[n + 3] = B[1] /\ Q[n + 4] = B[2] /\ Q[n + 5] = B[3] /\ Q[n + 6] = B[4]
         /\ \A k \in (n + 7)..(2 * n + 6) : Q[k] = J[k - (n + 6)]
         /\ Q[2 * n + 7] = C[1]
    BY <1>14 DEF Shaped
  <1>11. \A k \in 3..(n + 2) : Q[k] = DropIndex(t, indexes[k - 2])
    <2> TAKE k \in 3..(n + 2)
    <2>1. k - 2 \in 1..n  OBVIOUS
    <2>2. Q[k] = I[k - 2]  BY <1>10
    <2> QED BY <2>1, <2>2, <1>3, Zenon
  <1>12. \A k \in (n + 7)..(2 * n + 6) : Q[k] = Index(t, indexes[k - (n + 6)], {}, "none")
    <2> TAKE k \in (n + 7)..(2 * n + 6)
    <2>1. k - (n + 6) \in 1..n  OBVIOUS
    <2>2. Q[k] = J[k - (n + 6)]  BY <1>10
    <2> QED BY <2>1, <2>2, <1>4, Zenon
  <1>13. /\ Q[1] = Begin /\ Q[2] = a /\ Q[n + 3] = b /\ Q[n + 4] = c /\ Q[n + 5] = d /\ Q[n + 6] = e
         /\ Q[2 * n + 7] = Commit
    BY <1>7, <1>8, <1>9, <1>10, Zenon
  <1> QED BY <1>1, <1>10, <1>11, <1>12, <1>13, Zenon DEF a, b, c, d, e, BodyAt

\* The indexes that a rebuild drops first and the columns that it copies
Dropped(s) ==
  CASE s = 16 -> <<"idx_status", "idx_scheduled">>
    [] s = 17 -> <<"idx_role", "idx_active_role">>
    [] s = 29 -> <<"idx_owner", "idx_type_status", "idx_status_type",
                   "idx_owner_type_status", "idx_uuid", "idx_email_label", "idx_public_key",
                   "idx_short_id", "idx_client_ip_reserved", "idx_expires_at">>
    [] s = 36 -> <<"idx_user", "idx_one_pending">>

Copied(s) ==
  CASE s = 16 -> {"status", "updated_at"}
    [] s = 17 -> {"role", "blocked_at", "trial_quota_reset_at", "note"}
    [] s = 29 -> KeyCols28
    [] s = 36 -> {"user", "status"}

BodyOf(s) == RebuildBody(Rebuilt(s).table, Rebuilt(s).copy, Rebuilt(s).cols, Copied(s), Dropped(s))

\* The bodies of the four rebuilds are RebuildBody of Rebuilt.
LEMMA BodiesAre ==
  /\ MigrateV16 = <<UnlessHas("announcement_batches", "scheduled_at")>>
                    \o ((<<Commit, Pragma(FALSE)>> \o BodyOf(16)) \o <<Pragma(TRUE)>>)
  /\ MigrateV17 = (<<Commit, Pragma(FALSE)>> \o BodyOf(17)) \o <<Pragma(TRUE)>>
  /\ WidenKeyTypes = <<UnlessHas("vpn_keys", "CHECK_hysteria2")>>
                       \o ((<<Commit, Pragma(FALSE)>> \o BodyOf(29)) \o <<Pragma(TRUE)>>)
  /\ WidenTrialTypes = <<UnlessHas("trial_key_requests", "CHECK_hysteria2"), Commit>> \o BodyOf(36)
  <1>1. BodyOf(16) = RebuildBody("announcement_batches", "announcement_batches_new", BatchCols,
                                 {"status", "updated_at"}, <<"idx_status", "idx_scheduled">>)
    BY RebuiltAt DEF BodyOf, Copied, Dropped
  <1>2. BodyOf(17) = RebuildBody("users", "users_new", UserCols17,
                                 {"role", "blocked_at", "trial_quota_reset_at", "note"},
                                 <<"idx_role", "idx_active_role">>)
    BY RebuiltAt DEF BodyOf, Copied, Dropped
  <1>3. BodyOf(29) = RebuildBody("vpn_keys", "vpn_keys_new", KeyCols28 \cup {"CHECK_hysteria2"}, KeyCols28,
                         <<"idx_owner", "idx_type_status", "idx_status_type",
                          "idx_owner_type_status", "idx_uuid", "idx_email_label", "idx_public_key",
                          "idx_short_id", "idx_client_ip_reserved", "idx_expires_at">>)
    BY RebuiltAt DEF BodyOf, Copied, Dropped
  <1>4. BodyOf(36) = RebuildBody("trial_key_requests", "trial_key_requests_new", TrialCols,
                                 {"user", "status"}, <<"idx_user", "idx_one_pending">>)
    BY RebuiltAt DEF BodyOf, Copied, Dropped
  <1> QED BY <1>1, <1>2, <1>3, <1>4, Zenon
       DEF MigrateV16, MigrateV17, WidenKeyTypes, WidenTrialTypes, RebuildUnenforced

\* The indexes that a rebuild drops belong to its table and are no names of a new database.
LEMMA DroppedIs ==
  ASSUME NEW s \in Rebuilds
  PROVE  DOMAIN Dropped(s) = 1..Rebuilt(s).n /\ \A i \in 1..Rebuilt(s).n : Dropped(s)[i] \in IndexNames
  <1>1. CASE s = 16
    <2> DEFINE D == <<"idx_status", "idx_scheduled">>
    <2>1. Dropped(16) = D  BY DEF Dropped
    <2>2. \A i \in 1..2 : D[i] \in IndexNames  BY DEF IndexNames
    <2>3. DOMAIN D = 1..2  OBVIOUS
    <2> HIDE DEF D
    <2> QED BY <1>1, <2>1, <2>2, <2>3, RebuiltAt
  <1>2. CASE s = 17
    <2> DEFINE D == <<"idx_role", "idx_active_role">>
    <2>1. Dropped(17) = D  BY DEF Dropped
    <2>2. \A i \in 1..2 : D[i] \in IndexNames  BY DEF IndexNames
    <2>3. DOMAIN D = 1..2  OBVIOUS
    <2> HIDE DEF D
    <2> QED BY <1>2, <2>1, <2>2, <2>3, RebuiltAt
  <1>3. CASE s = 29
    <2> DEFINE D == <<"idx_owner", "idx_type_status", "idx_status_type",
                   "idx_owner_type_status", "idx_uuid", "idx_email_label", "idx_public_key",
                   "idx_short_id", "idx_client_ip_reserved", "idx_expires_at">>
    <2>1. Dropped(29) = D  BY DEF Dropped
    <2>2. \A i \in 1..10 : D[i] \in IndexNames  BY DEF IndexNames
    <2>3. DOMAIN D = 1..10  OBVIOUS
    <2> HIDE DEF D
    <2> QED BY <1>3, <2>1, <2>2, <2>3, RebuiltAt
  <1>4. CASE s = 36
    <2> DEFINE D == <<"idx_user", "idx_one_pending">>
    <2>1. Dropped(36) = D  BY DEF Dropped
    <2>2. \A i \in 1..2 : D[i] \in IndexNames  BY DEF IndexNames
    <2>3. DOMAIN D = 1..2  OBVIOUS
    <2> HIDE DEF D
    <2> QED BY <1>4, <2>1, <2>2, <2>3, RebuiltAt
  <1> QED BY <1>1, <1>2, <1>3, <1>4, RebuildsAre

\* A rebuild copies only columns of earlier versions.
LEMMA CopiedIs ==
  ASSUME NEW s \in Rebuilds
  PROVE  Copied(s) \subseteq Rebuilt(s).cols /\ \A c \in Copied(s) : Known(s, Rebuilt(s).table, c)
  <1>1. CASE s = 16
    <2>1. Copied(16) = {"status", "updated_at"} /\ Copied(16) \subseteq BatchCols  BY DEF Copied, BatchCols
    <2>2. Known(16, "announcement_batches", "status")  BY FirstKnown DEF FirstNames
    <2>3. Known(16, "announcement_batches", "updated_at")  BY FirstKnown DEF FirstNames
    <2> QED BY <1>1, <2>1, <2>2, <2>3, RebuiltAt
  <1>2. CASE s = 17
    <2>1. Copied(17) = {"role", "blocked_at", "trial_quota_reset_at", "note"}  BY DEF Copied
    <2>2. Copied(17) \subseteq UserCols17  BY <2>1 DEF UserCols17
    <2>3. Known(17, "users", "role")  BY FirstKnown DEF FirstNames
    <2>4. Known(17, "users", "blocked_at")  BY FirstKnown DEF FirstNames
    <2>5. Known(17, "users", "trial_quota_reset_at")  BY LateKnown DEF LateNames
    <2>6. Known(17, "users", "note")  BY LateKnown DEF LateNames
    <2>7. \A c \in Copied(17) : Known(17, "users", c)  BY <2>1, <2>3, <2>4, <2>5, <2>6
    <2> QED BY <1>2, <2>2, <2>7, RebuiltAt
  <1>3. CASE s = 29
    <2>1. Copied(29) = KeyCols28  BY DEF Copied
    <2>2. Known(29, "vpn_keys", "owner")  BY FirstKnown DEF FirstNames
    <2>3. Known(29, "vpn_keys", "uuid")  BY FirstKnown DEF FirstNames
    <2>4. Known(29, "vpn_keys", "label")  BY FirstKnown DEF FirstNames
    <2>5. Known(29, "vpn_keys", "client_ip")  BY FirstKnown DEF FirstNames
    <2>6. Known(29, "vpn_keys", "expires_at")  BY LateKnown DEF LateNames
    <2>7. Known(29, "vpn_keys", "notified_days")  BY LateKnown, SMTT(30) DEF LateNames
    <2>8. Known(29, "vpn_keys", "transport")
      <3>1. <<23, "vpn_keys", "transport">> \in LateNames  BY DEF LateNames
      <3> QED BY <3>1, LateKnown
    <2>9. Known(29, "vpn_keys", "xhttp_profile")  BY LateKnown DEF LateNames
    <2>10. \A c \in KeyCols28 : Known(29, "vpn_keys", c)
      BY <2>2, <2>3, <2>4, <2>5, <2>6, <2>7, <2>8, <2>9 DEF KeyCols28, KeyCols15
    <2> QED BY <1>3, <2>1, <2>10, RebuiltAt
  <1>4. CASE s = 36
    <2>1. Copied(36) = {"user", "status"} /\ Copied(36) \subseteq TrialCols  BY DEF Copied, TrialCols
    <2>2. Known(36, "trial_key_requests", "user")  BY FirstKnown DEF FirstNames
    <2>3. Known(36, "trial_key_requests", "status")  BY FirstKnown DEF FirstNames
    <2> QED BY <1>4, <2>1, <2>2, <2>3, RebuiltAt
  <1> QED BY <1>1, <1>2, <1>3, <1>4, RebuildsAre

\* How many statements a rebuild has
LEMMA BodyLen == \A s \in Rebuilds : HasLen(BodyOf(s), 2 * Rebuilt(s).n + 7)
  <1> SUFFICES ASSUME NEW s \in Rebuilds PROVE HasLen(BodyOf(s), 2 * Rebuilt(s).n + 7)
    OBVIOUS
  <1> DEFINE n == Rebuilt(s).n  R == BodyOf(s)
  <1>1. n \in Nat  BY RebuiltN
  <1>2. DOMAIN Dropped(s) = 1..n  BY DroppedIs
  <1> DEFINE t == Rebuilt(s).table  c == Rebuilt(s).copy  cols == Rebuilt(s).cols  cp == Copied(s)
             d == Dropped(s)
  <1>3. IsBody(R, t, c, cols, cp, d)  BY DEF BodyOf, IsBody
  <1>5. DOMAIN d = 1..n  BY <1>2
  <1> HIDE DEF n, R, t, c, cols, cp, d
  <1>6. BodyAt(R, n, t, c, cols, cp, d)  BY <1>1, <1>3, <1>5, BodyIs
  <1>4. HasLen(R, 2 * n + 7)  BY <1>6 DEF BodyAt
  <1> QED BY <1>4 DEF n, R

\* The rebuild with the enforcement off around it
EnforceOff == Pragma(FALSE)
EnforceOn == Pragma(TRUE)
Unenforced(U, B) == U = (<<Commit, EnforceOff>> \o B) \o <<EnforceOn>>

\* The statements of a rebuild with the enforcement off
LEMMA UnenforcedIs ==
  ASSUME NEW m \in Nat, NEW B, HasLen(B, m), NEW U, Unenforced(U, B)
  PROVE  /\ HasLen(U, m + 3) /\ U[1] = Commit /\ U[2] = EnforceOff
         /\ \A k \in 3..(m + 2) : U[k] = B[k - 2]
         /\ U[m + 3] = EnforceOn
  <1> DEFINE a == EnforceOff  c == EnforceOn  A == <<Commit, a>>  C == <<c>>  X == A \o B  Q == X \o C
  <1>1. U = Q /\ Joined(X, A, B) /\ Joined(Q, X, C)  BY DEF Joined, Unenforced
  <1> HIDE DEF X, Q
  <1>2. HasLen(A, 2) /\ A[1] = Commit /\ A[2] = a  BY Has2
  <1>3. HasLen(C, 1) /\ C[1] = c  BY Has1
  <1> HIDE DEF a, c, A, C
  <1>4. HasLen(X, 2 + m) /\ (\A k \in 1..2 : X[k] = A[k]) /\ \A k \in (2 + 1)..(2 + m) : X[k] = B[k - 2]
    BY <1>1, <1>2, JoinedAt
  <1> DEFINE l == 2 + m
  <1>5. l \in Nat /\ HasLen(X, l)  BY <1>4
  <1> HIDE DEF l
  <1>6. HasLen(Q, l + 1) /\ (\A k \in 1..l : Q[k] = X[k]) /\ \A k \in (l + 1)..(l + 1) : Q[k] = C[k - l]
    BY <1>1, <1>3, <1>5, JoinedAt
  <1>7. Q[l + 1] = C[1]  BY <1>5, <1>6
  <1>8. l + 1 = m + 3 /\ l = 2 + m  BY DEF l
  <1>9. HasLen(Q, m + 3) /\ Q[m + 3] = C[1]  BY <1>6, <1>7, <1>8
  <1>10. Q[1] = A[1] /\ Q[2] = A[2]  BY <1>4, <1>6, <1>8
  <1>11. \A k \in 3..(m + 2) : Q[k] = B[k - 2]  BY <1>4, <1>6, <1>8
  <1>12. Q[1] = Commit /\ Q[2] = a /\ Q[m + 3] = c  BY <1>2, <1>3, <1>9, <1>10, Zenon
  <1> QED BY <1>1, <1>9, <1>11, <1>12, Zenon DEF a, c

\* What runs a stage: its statements, what follows the call and the version
LEMMA RestIs ==
  ASSUME stage \in 1..CurrentVersion
  PROVE  /\ Rest = Chain[stage] \o (AfterCall(stage) \o <<SetVersion>>) /\ Statements(stage) = Chain[stage]
         /\ stage \notin {9, 29} => Rest = Chain[stage] \o <<SetVersion>>
  <1>1. Statements(stage) = Chain[stage]  BY DEF Statements, CurrentVersion
  <1>2. Rest = Chain[stage] \o (AfterCall(stage) \o <<SetVersion>>)  BY <1>1 DEF Rest
  <1>3. stage \notin {9, 29} => AfterCall(stage) = << >>  BY DEF AfterCall
  <1> QED BY <1>1, <1>2, <1>3, AfterNothing

\* A stage is its migration, what follows the call, and the version.
LEMMA StageRest ==
  ASSUME stage \in 1..CurrentVersion, stage \notin {9, 29}, NEW m \in Nat, NEW C, C = Chain[stage],
          HasLen(C, m)
  PROVE  /\ HasLen(Rest, m + 1) /\ Statements(stage) = C
         /\ \A k \in 1..m : Rest[k] = C[k]
         /\ Rest[m + 1] = SetVersion
  <1> DEFINE T == <<SetVersion>>  R == C \o T
  <1>1. Rest = R /\ Statements(stage) = C  BY RestIs
  <1>2. Joined(R, C, T)  BY DEF Joined
  <1>3. HasLen(T, 1) /\ T[1] = SetVersion  BY Has1
  <1> HIDE DEF T, R
  <1>4. HasLen(R, m + 1) /\ (\A k \in 1..m : R[k] = C[k]) /\ \A k \in (m + 1)..(m + 1) : R[k] = T[k - m]
    BY <1>2, <1>3, JoinedAt
  <1>5. R[m + 1] = T[1]  BY <1>4
  <1> QED BY <1>1, <1>3, <1>4, <1>5, Zenon

\* v16, v17, v29 and v36, statement by statement
StageAt(s, R, h, m) ==
  /\ \A k \in (h + 1)..(h + m) : R[k] = BodyOf(s)[k - h]
  /\ s # 36 => R[h - 1] = Commit /\ R[h] = EnforceOff /\ R[h + m + 1] = EnforceOn

\* A rebuild stays in its places when statements follow it.
LEMMA StageMoved ==
  ASSUME NEW s, NEW h \in Nat, NEW m \in Nat, NEW n \in Nat, NEW C, NEW R,
         StageAt(s, C, h, m), \A k \in 1..n : R[k] = C[k], 2 <= h, h + m <= n, s # 36 => h + m + 1 <= n
  PROVE  StageAt(s, R, h, m)
  <1>1. \A k \in (h + 1)..(h + m) : R[k] = C[k]  OBVIOUS
  <1>2. \A k \in (h + 1)..(h + m) : R[k] = BodyOf(s)[k - h]  BY <1>1 DEF StageAt
  <1>3. s # 36 => R[h - 1] = C[h - 1] /\ R[h] = C[h] /\ R[h + m + 1] = C[h + m + 1]  OBVIOUS
  <1>4. s # 36 => R[h - 1] = Commit /\ R[h] = EnforceOff /\ R[h + m + 1] = EnforceOn
    BY <1>3, Zenon DEF StageAt
  <1> QED BY <1>2, <1>4, Zenon DEF StageAt

\* The four migrations,
LEMMA Chain16 ==
  /\ HasLen(Chain[16], 15) /\ Chain[16][1] = UnlessHas("announcement_batches", "scheduled_at")
  /\ StageAt(16, Chain[16], 3, 11)
  <1> DEFINE u == UnlessHas("announcement_batches", "scheduled_at")  H == <<u>>
             B == BodyOf(16)  U == (<<Commit, EnforceOff>> \o B) \o <<EnforceOn>>  M == H \o U
  <1>1. Chain[16] = MigrateV16  BY DEF Chain
  <1>2. Chain[16] = M  BY <1>1, BodiesAre DEF EnforceOff, EnforceOn
  <1>4. HasLen(B, 11)
    <2>1. HasLen(B, 2 * Rebuilt(16).n + 7)  BY BodyLen DEF Rebuilds
    <2> QED BY <2>1, RebuiltAt
  <1>15. Unenforced(U, B)  BY DEF Unenforced
  <1> HIDE DEF B, U
  <1>5. /\ HasLen(U, 14) /\ U[1] = Commit /\ U[2] = EnforceOff
        /\ \A k \in 3..13 : U[k] = B[k - 2]
        /\ U[14] = EnforceOn
    BY <1>4, <1>15, UnenforcedIs
  <1>6. Joined(M, H, U)  BY DEF Joined
  <1>7. HasLen(H, 1) /\ H[1] = u  BY Has1
  <1> HIDE DEF u, H, M
  <1>8. HasLen(M, 15) /\ M[1] = H[1] /\ \A k \in 2..15 : M[k] = U[k - 1]
    <2>1. HasLen(M, 1 + 14) /\ (\A k \in 1..1 : M[k] = H[k]) /\ \A k \in (1 + 1)..(1 + 14) : M[k] = U[k - 1]
      BY <1>5, <1>6, <1>7, JoinedAt
    <2> QED BY <2>1
  <1>12. \A k \in 4..14 : M[k] = B[k - 3]  BY <1>5, <1>8
  <1>13. M[2] = Commit /\ M[3] = EnforceOff /\ M[15] = EnforceOn  BY <1>5, <1>8
  <1>14. StageAt(16, M, 3, 11)
    <2>1. 3 + 1 = 4 /\ 3 + 11 = 14 /\ 3 - 1 = 2 /\ 3 + 11 + 1 = 15  OBVIOUS
    <2> QED BY <1>12, <1>13, <2>1, Zenon DEF StageAt, B
  <1> QED BY <1>2, <1>7, <1>8, <1>14, Zenon DEF u

LEMMA Chain17 == HasLen(Chain[17], 14) /\ StageAt(17, Chain[17], 2, 11)
  <1> DEFINE B == BodyOf(17)  U == (<<Commit, EnforceOff>> \o B) \o <<EnforceOn>>
  <1>1. Chain[17] = MigrateV17  BY DEF Chain
  <1>2. Chain[17] = U  BY <1>1, BodiesAre DEF EnforceOff, EnforceOn
  <1>4. HasLen(B, 11)
    <2>1. HasLen(B, 2 * Rebuilt(17).n + 7)  BY BodyLen DEF Rebuilds
    <2> QED BY <2>1, RebuiltAt
  <1>5. Unenforced(U, B)  BY DEF Unenforced
  <1> HIDE DEF B, U
  <1>8. /\ HasLen(U, 14) /\ U[1] = Commit /\ U[2] = EnforceOff
        /\ \A k \in 3..13 : U[k] = B[k - 2]
        /\ U[14] = EnforceOn
    BY <1>4, <1>5, UnenforcedIs
  <1>14. StageAt(17, U, 2, 11)
    <2>1. 2 + 1 = 3 /\ 2 + 11 = 13 /\ 2 - 1 = 1 /\ 2 + 11 + 1 = 14  OBVIOUS
    <2> QED BY <1>8, <2>1, Zenon DEF StageAt, B
  <1> QED BY <1>2, <1>8, <1>14, Zenon

LEMMA Chain29 ==
  /\ HasLen(Chain[29], 31) /\ Chain[29][1] = UnlessHas("vpn_keys", "CHECK_hysteria2")
  /\ StageAt(29, Chain[29], 3, 27)
  <1> DEFINE u == UnlessHas("vpn_keys", "CHECK_hysteria2")  H == <<u>>
             B == BodyOf(29)  U == (<<Commit, EnforceOff>> \o B) \o <<EnforceOn>>  M == H \o U
  <1>1. Chain[29] = WidenKeyTypes  BY DEF Chain
  <1>2. Chain[29] = M  BY <1>1, BodiesAre DEF EnforceOff, EnforceOn
  <1>4. HasLen(B, 27)
    <2>1. HasLen(B, 2 * Rebuilt(29).n + 7)  BY BodyLen DEF Rebuilds
    <2> QED BY <2>1, RebuiltAt
  <1>15. Unenforced(U, B)  BY DEF Unenforced
  <1> HIDE DEF B, U
  <1>5. /\ HasLen(U, 30) /\ U[1] = Commit /\ U[2] = EnforceOff
        /\ \A k \in 3..29 : U[k] = B[k - 2]
        /\ U[30] = EnforceOn
    BY <1>4, <1>15, UnenforcedIs
  <1>6. Joined(M, H, U)  BY DEF Joined
  <1>7. HasLen(H, 1) /\ H[1] = u  BY Has1
  <1> HIDE DEF u, H, M
  <1>8. HasLen(M, 31) /\ M[1] = H[1] /\ \A k \in 2..31 : M[k] = U[k - 1]
    <2>1. HasLen(M, 1 + 30) /\ (\A k \in 1..1 : M[k] = H[k]) /\ \A k \in (1 + 1)..(1 + 30) : M[k] = U[k - 1]
      BY <1>5, <1>6, <1>7, JoinedAt
    <2> QED BY <2>1
  <1>12. \A k \in 4..30 : M[k] = B[k - 3]  BY <1>5, <1>8
  <1>13. M[2] = Commit /\ M[3] = EnforceOff /\ M[31] = EnforceOn  BY <1>5, <1>8
  <1>14. StageAt(29, M, 3, 27)
    <2>1. 3 + 1 = 4 /\ 3 + 27 = 30 /\ 3 - 1 = 2 /\ 3 + 27 + 1 = 31  OBVIOUS
    <2> QED BY <1>12, <1>13, <2>1, Zenon DEF StageAt, B
  <1> QED BY <1>2, <1>7, <1>8, <1>14, Zenon DEF u

LEMMA Chain36 ==
  /\ HasLen(Chain[36], 13) /\ Chain[36][1] = UnlessHas("trial_key_requests", "CHECK_hysteria2")
  /\ Chain[36][2] = Commit /\ StageAt(36, Chain[36], 2, 11)
  <1> DEFINE u == UnlessHas("trial_key_requests", "CHECK_hysteria2")  H == <<u, Commit>>
             B == BodyOf(36)  M == H \o B
  <1>1. Chain[36] = WidenTrialTypes  BY DEF Chain
  <1>2. Chain[36] = M  BY <1>1, BodiesAre
  <1>4. HasLen(B, 11)
    <2>1. HasLen(B, 2 * Rebuilt(36).n + 7)  BY BodyLen DEF Rebuilds
    <2> QED BY <2>1, RebuiltAt
  <1>6. Joined(M, H, B)  BY DEF Joined
  <1>5. HasLen(H, 2) /\ H[1] = u /\ H[2] = Commit  BY Has2
  <1> HIDE DEF u, H, B, M
  <1>8. HasLen(M, 13) /\ M[1] = H[1] /\ M[2] = H[2] /\ \A k \in 3..13 : M[k] = B[k - 2]
    <2>1. HasLen(M, 2 + 11) /\ (\A k \in 1..2 : M[k] = H[k]) /\ \A k \in (2 + 1)..(2 + 11) : M[k] = B[k - 2]
      BY <1>4, <1>5, <1>6, JoinedAt
    <2> QED BY <2>1
  <1>14. StageAt(36, M, 2, 11)
    <2>1. 2 + 1 = 3 /\ 2 + 11 = 13  OBVIOUS
    <2> QED BY <1>8, <2>1, Zenon DEF StageAt, B
  <1> QED BY <1>2, <1>5, <1>8, <1>14, Zenon DEF u

\* and the stages that run them.
LEMMA Rest16 ==
  ASSUME stage = 16
  PROVE  /\ Len(Rest) = 16 /\ Len(Statements(16)) = 15
         /\ Rest[1] = UnlessHas("announcement_batches", "scheduled_at")
         /\ StageAt(16, Rest, 3, 11) /\ Rest[16] = SetVersion
  <1> DEFINE C == Chain[16]
  <1>1. HasLen(C, 15) /\ StageAt(16, C, 3, 11)  BY Chain16
  <1>2. C[1] = UnlessHas("announcement_batches", "scheduled_at")  BY Chain16
  <1>3. stage \in 1..CurrentVersion /\ stage \notin {9, 29} /\ C = Chain[stage] /\ 15 \in Nat
      BY DEF CurrentVersion
  <1> HIDE DEF C
  <1>4. /\ HasLen(Rest, 15 + 1) /\ Statements(stage) = C
        /\ \A k \in 1..15 : Rest[k] = C[k]
        /\ Rest[15 + 1] = SetVersion
    BY <1>1, <1>3, StageRest
  <1>5. HasLen(Rest, 16) /\ Rest[16] = SetVersion /\ Statements(16) = C  BY <1>4
  <1>6. Rest[1] = C[1] /\ Rest[2] = C[2]  BY <1>4
  <1>7. StageAt(16, Rest, 3, 11)  BY <1>1, <1>4, StageMoved
  <1>8. Len(Rest) = 16 /\ Len(C) = 15  BY <1>1, <1>5, LenIs
  <1> QED BY <1>2, <1>5, <1>6, <1>7, <1>8, Zenon

LEMMA Rest17 ==
  ASSUME stage = 17
  PROVE  /\ Len(Rest) = 15 /\ Len(Statements(17)) = 14
         /\ StageAt(17, Rest, 2, 11) /\ Rest[15] = SetVersion
  <1> DEFINE C == Chain[17]
  <1>1. HasLen(C, 14) /\ StageAt(17, C, 2, 11)  BY Chain17
  <1>3. stage \in 1..CurrentVersion /\ stage \notin {9, 29} /\ C = Chain[stage] /\ 14 \in Nat
      BY DEF CurrentVersion
  <1> HIDE DEF C
  <1>4. /\ HasLen(Rest, 14 + 1) /\ Statements(stage) = C
        /\ \A k \in 1..14 : Rest[k] = C[k]
        /\ Rest[14 + 1] = SetVersion
    BY <1>1, <1>3, StageRest
  <1>5. HasLen(Rest, 15) /\ Rest[15] = SetVersion /\ Statements(17) = C  BY <1>4
  <1>6. Rest[1] = C[1] /\ Rest[2] = C[2]  BY <1>4
  <1>7. StageAt(17, Rest, 2, 11)  BY <1>1, <1>4, StageMoved
  <1>8. Len(Rest) = 15 /\ Len(C) = 14  BY <1>1, <1>5, LenIs
  <1> QED BY <1>5, <1>6, <1>7, <1>8, Zenon

LEMMA Rest29 ==
  ASSUME stage = 29
  PROVE  /\ Len(Rest) = 33 /\ Len(Statements(29)) = 31
         /\ Rest[1] = UnlessHas("vpn_keys", "CHECK_hysteria2")
         /\ StageAt(29, Rest, 3, 27)
         /\ Rest[32] = Write("protocol_modules", "hysteria2", {}) /\ Rest[33] = SetVersion
  <1> DEFINE w == Write("protocol_modules", "hysteria2", {})
             M == Chain[29]  S == <<w>>  V == <<SetVersion>>  T == S \o V  R == M \o T
  <1>1. HasLen(M, 31) /\ StageAt(29, M, 3, 27)  BY Chain29
  <1>2. M[1] = UnlessHas("vpn_keys", "CHECK_hysteria2")  BY Chain29
  <1>3. Rest = R /\ Statements(29) = M
    <2>1. stage \in 1..CurrentVersion  BY DEF CurrentVersion
    <2>2. AfterCall(29) = S  BY DEF AfterCall, SeedHysteria
    <2> QED BY <2>1, <2>2, RestIs
  <1>6. Joined(R, M, T) /\ Joined(T, S, V)  BY DEF Joined
  <1>7. HasLen(V, 1) /\ V[1] = SetVersion /\ HasLen(S, 1) /\ S[1] = w  BY Has1
  <1> HIDE DEF w, M, S, V, T, R
  <1>16. HasLen(T, 2) /\ T[1] = w /\ T[2] = SetVersion
    <2>1. HasLen(T, 1 + 1) /\ (\A k \in 1..1 : T[k] = S[k]) /\ \A k \in (1 + 1)..(1 + 1) : T[k] = V[k - 1]
      BY <1>6, <1>7, JoinedAt
    <2>2. HasLen(T, 2) /\ T[1] = S[1] /\ T[2] = V[1]  BY <2>1
    <2> QED BY <2>2, <1>7, Zenon
  <1>9. HasLen(R, 33) /\ (\A k \in 1..31 : R[k] = M[k]) /\ R[32] = T[1] /\ R[33] = T[2]
    <2>1. HasLen(R, 31 + 2) /\ (\A k \in 1..31 : R[k] = M[k])
            /\ \A k \in (31 + 1)..(31 + 2) : R[k] = T[k - 31]
      BY <1>1, <1>6, <1>16, JoinedAt
    <2> QED BY <2>1
  <1>10. Len(R) = 33 /\ Len(M) = 31  BY <1>1, <1>9, LenIs
  <1>11. R[1] = M[1] /\ R[32] = w /\ R[33] = SetVersion  BY <1>9, <1>16
  <1>12. \A k \in 1..31 : R[k] = M[k]  BY <1>9
  <1>14. StageAt(29, R, 3, 27)  BY <1>1, <1>12, StageMoved
  <1> QED BY <1>2, <1>3, <1>10, <1>11, <1>14, Zenon DEF w

LEMMA Rest36 ==
  ASSUME stage = 36
  PROVE  /\ Len(Rest) = 14 /\ Len(Statements(36)) = 13
         /\ Rest[1] = UnlessHas("trial_key_requests", "CHECK_hysteria2") /\ Rest[2] = Commit
         /\ StageAt(36, Rest, 2, 11) /\ Rest[14] = SetVersion
  <1> DEFINE C == Chain[36]
  <1>1. HasLen(C, 13) /\ StageAt(36, C, 2, 11)  BY Chain36
  <1>2. C[1] = UnlessHas("trial_key_requests", "CHECK_hysteria2") /\ C[2] = Commit  BY Chain36
  <1>3. stage \in 1..CurrentVersion /\ stage \notin {9, 29} /\ C = Chain[stage] /\ 13 \in Nat
      BY DEF CurrentVersion
  <1> HIDE DEF C
  <1>4. /\ HasLen(Rest, 13 + 1) /\ Statements(stage) = C
        /\ \A k \in 1..13 : Rest[k] = C[k]
        /\ Rest[13 + 1] = SetVersion
    BY <1>1, <1>3, StageRest
  <1>5. HasLen(Rest, 14) /\ Rest[14] = SetVersion /\ Statements(36) = C  BY <1>4
  <1>6. Rest[1] = C[1] /\ Rest[2] = C[2]  BY <1>4
  <1>7. StageAt(36, Rest, 2, 11)  BY <1>1, <1>4, StageMoved
  <1>8. Len(Rest) = 14 /\ Len(C) = 13  BY <1>1, <1>5, LenIs
  <1> QED BY <1>2, <1>5, <1>6, <1>7, <1>8, Zenon

-----------------------------------------------------------------------------
(* The statement at a place of a rebuild *)

\* The last place: pragma, what follows the rebuild, the version
LastPlace(s) == 2 * Rebuilt(s).n + 7 + (IF s = 36 THEN 0 ELSE 1) + (IF s = 29 THEN 1 ELSE 0)

\* The four last places
LEMMA LastPlaceIs == LastPlace(16) = 12 /\ LastPlace(17) = 12 /\ LastPlace(29) = 29 /\ LastPlace(36) = 11
  BY RebuiltAt DEF LastPlace

\* Where a stage ends, and where its rebuild is skipped to
LEMMA RebuildLength ==
  ASSUME stage \in Rebuilds
  PROVE  Len(Rest) = Rebuilt(stage).begin + LastPlace(stage)
  <1>1. CASE stage = 16
    <2>1. 16 = Rebuilt(16).begin + LastPlace(16)  BY RebuiltAt, LastPlaceIs
    <2>2. Len(Rest) = 16  BY <1>1, Rest16
    <2> QED BY <1>1, <2>1, <2>2, Zenon
  <1>2. CASE stage = 17
    <2>1. 15 = Rebuilt(17).begin + LastPlace(17)  BY RebuiltAt, LastPlaceIs
    <2>2. Len(Rest) = 15  BY <1>2, Rest17
    <2> QED BY <1>2, <2>1, <2>2, Zenon
  <1>3. CASE stage = 29
    <2>1. 33 = Rebuilt(29).begin + LastPlace(29)  BY RebuiltAt, LastPlaceIs
    <2>2. Len(Rest) = 33  BY <1>3, Rest29
    <2> QED BY <1>3, <2>1, <2>2, Zenon
  <1>4. CASE stage = 36
    <2>1. 14 = Rebuilt(36).begin + LastPlace(36)  BY RebuiltAt, LastPlaceIs
    <2>2. Len(Rest) = 14  BY <1>4, Rest36
    <2> QED BY <1>4, <2>1, <2>2, Zenon
  <1> QED BY <1>1, <1>2, <1>3, <1>4, RebuildsAre

SkipPlace(s) == LastPlace(s) - (IF s = 29 THEN 1 ELSE 0)

\* Where the guard of a rebuild leads: past it
LEMMA RebuildSkipped ==
  ASSUME stage \in Rebuilds
  PROVE  Len(Statements(stage)) \in Nat
          /\ Len(Statements(stage)) + 1 = Rebuilt(stage).begin + SkipPlace(stage)
  <1>1. CASE stage = 16
    <2> DEFINE l == Len(Statements(16))
    <2>1. 16 = Rebuilt(16).begin + SkipPlace(16)  BY RebuiltAt, LastPlaceIs DEF SkipPlace
    <2>2. l = 15  BY <1>1, Rest16
    <2> HIDE DEF l
    <2>3. l \in Nat /\ l + 1 = 16  BY <2>2
    <2> QED BY <1>1, <2>1, <2>3, Zenon DEF l
  <1>2. CASE stage = 17
    <2> DEFINE l == Len(Statements(17))
    <2>1. 15 = Rebuilt(17).begin + SkipPlace(17)  BY RebuiltAt, LastPlaceIs DEF SkipPlace
    <2>2. l = 14  BY <1>2, Rest17
    <2> HIDE DEF l
    <2>3. l \in Nat /\ l + 1 = 15  BY <2>2
    <2> QED BY <1>2, <2>1, <2>3, Zenon DEF l
  <1>3. CASE stage = 29
    <2> DEFINE l == Len(Statements(29))
    <2>1. 32 = Rebuilt(29).begin + SkipPlace(29)  BY RebuiltAt, LastPlaceIs DEF SkipPlace
    <2>2. l = 31  BY <1>3, Rest29
    <2> HIDE DEF l
    <2>3. l \in Nat /\ l + 1 = 32  BY <2>2
    <2> QED BY <1>3, <2>1, <2>3, Zenon DEF l
  <1>4. CASE stage = 36
    <2> DEFINE l == Len(Statements(36))
    <2>1. 14 = Rebuilt(36).begin + SkipPlace(36)  BY RebuiltAt, LastPlaceIs DEF SkipPlace
    <2>2. l = 13  BY <1>4, Rest36
    <2> HIDE DEF l
    <2>3. l \in Nat /\ l + 1 = 14  BY <2>2
    <2> QED BY <1>4, <2>1, <2>3, Zenon DEF l
  <1> QED BY <1>1, <1>2, <1>3, <1>4, RebuildsAre

\* The statements of the stage are those of its rebuild, from the place of BEGIN on.
LEMMA StageIs ==
  ASSUME stage \in Rebuilds
  PROVE  /\ StageAt(stage, Rest, Rebuilt(stage).begin - 1, 2 * Rebuilt(stage).n + 7)
         /\ stage = 36 => Rest[2] = Commit
  <1>1. CASE stage = 16
    <2>1. Rebuilt(16).begin - 1 = 3 /\ 2 * Rebuilt(16).n + 7 = 11  BY RebuiltAt
    <2> QED BY <1>1, <2>1, Rest16
  <1>2. CASE stage = 17
    <2>1. Rebuilt(17).begin - 1 = 2 /\ 2 * Rebuilt(17).n + 7 = 11  BY RebuiltAt
    <2> QED BY <1>2, <2>1, Rest17
  <1>3. CASE stage = 29
    <2>1. Rebuilt(29).begin - 1 = 3 /\ 2 * Rebuilt(29).n + 7 = 27  BY RebuiltAt
    <2> QED BY <1>3, <2>1, Rest29
  <1>4. CASE stage = 36
    <2>1. Rebuilt(36).begin - 1 = 2 /\ 2 * Rebuilt(36).n + 7 = 11  BY RebuiltAt
    <2> QED BY <1>4, <2>1, Rest36
  <1> QED BY <1>1, <1>2, <1>3, <1>4, RebuildsAre

\* For the arithmetic of places
LEMMA BeginInt == \A s \in Rebuilds : Rebuilt(s).begin \in Nat /\ Rebuilt(s).n \in Nat
  BY RebuiltBegin, RebuiltN

\* The statement at a place is the one of the body.
LEMMA BodyPlace ==
  ASSUME stage \in Rebuilds, at \in Int, NEW p \in 0..(2 * Rebuilt(stage).n + 6), Place = p
  PROVE  Rest[at] = BodyOf(stage)[p + 1]
  <1> DEFINE n == Rebuilt(stage).n  b == Rebuilt(stage).begin  h == b - 1  m == 2 * n + 7
  <1>1. StageAt(stage, Rest, h, m)  BY StageIs
  <1>2. \A k \in (h + 1)..(h + m) : Rest[k] = BodyOf(stage)[k - h]  BY <1>1 DEF StageAt
  <1>3. b \in Nat /\ n \in Nat  BY BeginInt
  <1>4. at - b = p /\ p \in 0..(2 * n + 6)  BY DEF Place
  <1> HIDE DEF n, b
  <1>5. at \in (h + 1)..(h + m) /\ at - h = p + 1  BY <1>3, <1>4
  <1> HIDE DEF h, m
  <1>6. Rest[at] = BodyOf(stage)[at - h]  BY <1>2, <1>5
  <1> QED BY <1>5, <1>6, Zenon

\* The statements of the body by their places
LEMMA BodyParts ==
  ASSUME NEW s \in Rebuilds
  PROVE  BodyAt(BodyOf(s), Rebuilt(s).n, Rebuilt(s).table, Rebuilt(s).copy, Rebuilt(s).cols, Copied(s),
          Dropped(s))
  <1> DEFINE R == BodyOf(s)  t == Rebuilt(s).table  c == Rebuilt(s).copy  cols == Rebuilt(s).cols
             cp == Copied(s)  d == Dropped(s)  n == Rebuilt(s).n
  <1>1. IsBody(R, t, c, cols, cp, d)  BY DEF BodyOf, IsBody
  <1>2. n \in Nat  BY BeginInt
  <1>3. DOMAIN d = 1..n  BY DroppedIs
  <1> HIDE DEF R, t, c, cols, cp, d, n
  <1>4. BodyAt(R, n, t, c, cols, cp, d)  BY <1>1, <1>2, <1>3, BodyIs
  <1> QED BY <1>4 DEF R, t, c, cols, cp, d, n

\* From here to PlaceCommit: the statement at each place of a rebuild.
LEMMA PlaceBegin ==
  ASSUME stage \in Rebuilds, at \in Int, Place = 0
  PROVE  Rest[at] = Begin
  <1>1. 0 \in 0..(2 * Rebuilt(stage).n + 6) /\ 0 + 1 = 1  BY BeginInt
  <1>2. Rest[at] = BodyOf(stage)[0 + 1]  BY <1>1, BodyPlace
  <1> QED BY <1>1, <1>2, BodyParts DEF BodyAt

LEMMA PlaceDropOld ==
  ASSUME stage \in Rebuilds, at \in Int, Place = 1
  PROVE  Rest[at] = DropIfExists(Rebuilt(stage).copy)
  <1>1. 1 \in 0..(2 * Rebuilt(stage).n + 6) /\ 1 + 1 = 2  BY BeginInt
  <1>2. Rest[at] = BodyOf(stage)[1 + 1]  BY <1>1, BodyPlace
  <1> QED BY <1>1, <1>2, BodyParts DEF BodyAt

\* A dropped index is no name of a new database.
LEMMA RemovesIs ==
  ASSUME NEW t, NEW i \in IndexNames, NEW st, st = DropIndex(t, i)
  PROVE  Removes(st) /\ st.needs = {}
  <1>1. st.op = "dropindex" /\ st.flag = FALSE /\ st.names = Of(t, {i}) /\ st.needs = {}
    BY DEF DropIndex, Stmt
  <1>2. st.names \cap Whole = {}  BY <1>1, OfIs, NoIndexWhole
  <1> QED BY <1>1, <1>2 DEF Removes

\* A created index adds nothing but its name.
LEMMA AddsIs ==
  ASSUME NEW t, NEW i \in IndexNames, NEW st, st = Index(t, i, {}, "none")
  PROVE  Adds(st) /\ st.needs = {<<t, "table">>}
  <1>1. /\ st.op = "ddl" /\ st.flag = TRUE /\ st.table = "none" /\ st.names = Of(t, {i})
        /\ st.needs = Of(t, {} \cup {"table"})
    BY DEF Index, Stmt
  <1>2. Side(st.names)  BY <1>1, OfIs DEF Side, IndexNames
  <1>3. st.needs = {<<t, "table">>}  BY <1>1 DEF Of
  <1> QED BY <1>1, <1>2, <1>3 DEF Adds

LEMMA PlaceDropIndex ==
  ASSUME stage \in Rebuilds, at \in Int, Place \in 2..(Rebuilt(stage).n + 1)
  PROVE  Removes(Rest[at]) /\ Rest[at].needs = {}
  <1> DEFINE n == Rebuilt(stage).n  p == Place
  <1>1. n \in Nat  BY BeginInt
  <1>2. \A i \in 1..n : Dropped(stage)[i] \in IndexNames  BY DroppedIs
  <1>3. \A k \in 3..(n + 2) : BodyOf(stage)[k] = DropIndex(Rebuilt(stage).table, Dropped(stage)[k - 2])
    BY BodyParts DEF BodyAt
  <1>4. p \in 0..(2 * n + 6) => Rest[at] = BodyOf(stage)[p + 1]  BY BodyPlace
  <1>5. p \in 2..(n + 1)  OBVIOUS
  <1> HIDE DEF n, p
  <1>6. p \in 0..(2 * n + 6) /\ p + 1 \in 3..(n + 2) /\ (p + 1) - 2 \in 1..n  BY <1>1, <1>5
  <1>7. Rest[at] = DropIndex(Rebuilt(stage).table, Dropped(stage)[(p + 1) - 2])  BY <1>3, <1>4, <1>6, Zenon
  <1>8. Dropped(stage)[(p + 1) - 2] \in IndexNames  BY <1>2, <1>6
  <1> QED BY <1>7, <1>8, RemovesIs

LEMMA PlaceCreate ==
  ASSUME stage \in Rebuilds, at \in Int, Place = Rebuilt(stage).n + 2
  PROVE  Rest[at] = CreateNew(Rebuilt(stage).copy, Rebuilt(stage).cols)
  <1> DEFINE n == Rebuilt(stage).n
  <1>1. n \in Nat  BY BeginInt
  <1>2. BodyOf(stage)[n + 3] = CreateNew(Rebuilt(stage).copy, Rebuilt(stage).cols)  BY BodyParts DEF BodyAt
  <1>3. n + 2 \in 0..(2 * n + 6) => Rest[at] = BodyOf(stage)[(n + 2) + 1]  BY BodyPlace
  <1> HIDE DEF n
  <1>4. n + 2 \in 0..(2 * n + 6) /\ (n + 2) + 1 = n + 3  BY <1>1
  <1> QED BY <1>2, <1>3, <1>4, Zenon

LEMMA PlaceCopy ==
  ASSUME stage \in Rebuilds, at \in Int, Place = Rebuilt(stage).n + 3
  PROVE  Rest[at] = Copy(Rebuilt(stage).table, Rebuilt(stage).copy, Copied(stage))
  <1> DEFINE n == Rebuilt(stage).n
  <1>1. n \in Nat  BY BeginInt
  <1>2. BodyOf(stage)[n + 4] = Copy(Rebuilt(stage).table, Rebuilt(stage).copy, Copied(stage))
      BY BodyParts DEF BodyAt
  <1>3. n + 3 \in 0..(2 * n + 6) => Rest[at] = BodyOf(stage)[(n + 3) + 1]  BY BodyPlace
  <1> HIDE DEF n
  <1>4. n + 3 \in 0..(2 * n + 6) /\ (n + 3) + 1 = n + 4  BY <1>1
  <1> QED BY <1>2, <1>3, <1>4, Zenon

LEMMA PlaceDrop ==
  ASSUME stage \in Rebuilds, at \in Int, Place = Rebuilt(stage).n + 4
  PROVE  Rest[at] = Drop(Rebuilt(stage).table)
  <1> DEFINE n == Rebuilt(stage).n
  <1>1. n \in Nat  BY BeginInt
  <1>2. BodyOf(stage)[n + 5] = Drop(Rebuilt(stage).table)  BY BodyParts DEF BodyAt
  <1>3. n + 4 \in 0..(2 * n + 6) => Rest[at] = BodyOf(stage)[(n + 4) + 1]  BY BodyPlace
  <1> HIDE DEF n
  <1>4. n + 4 \in 0..(2 * n + 6) /\ (n + 4) + 1 = n + 5  BY <1>1
  <1> QED BY <1>2, <1>3, <1>4, Zenon

LEMMA PlaceRename ==
  ASSUME stage \in Rebuilds, at \in Int, Place = Rebuilt(stage).n + 5
  PROVE  Rest[at] = Rename(Rebuilt(stage).copy, Rebuilt(stage).table)
  <1> DEFINE n == Rebuilt(stage).n
  <1>1. n \in Nat  BY BeginInt
  <1>2. BodyOf(stage)[n + 6] = Rename(Rebuilt(stage).copy, Rebuilt(stage).table)  BY BodyParts DEF BodyAt
  <1>3. n + 5 \in 0..(2 * n + 6) => Rest[at] = BodyOf(stage)[(n + 5) + 1]  BY BodyPlace
  <1> HIDE DEF n
  <1>4. n + 5 \in 0..(2 * n + 6) /\ (n + 5) + 1 = n + 6  BY <1>1
  <1> QED BY <1>2, <1>3, <1>4, Zenon

LEMMA PlaceIndex ==
  ASSUME stage \in Rebuilds, at \in Int, Place \in (Rebuilt(stage).n + 6)..(2 * Rebuilt(stage).n + 5)
  PROVE  Adds(Rest[at]) /\ Rest[at].needs = {<<Rebuilt(stage).table, "table">>}
  <1> DEFINE n == Rebuilt(stage).n  p == Place
  <1>1. n \in Nat  BY BeginInt
  <1>2. \A i \in 1..n : Dropped(stage)[i] \in IndexNames  BY DroppedIs
  <1>3. \A k \in (n + 7)..(2 * n + 6) :
          BodyOf(stage)[k] = Index(Rebuilt(stage).table, Dropped(stage)[k - (n + 6)], {}, "none")
    BY BodyParts DEF BodyAt
  <1>4. p \in 0..(2 * n + 6) => Rest[at] = BodyOf(stage)[p + 1]  BY BodyPlace
  <1>5. p \in (n + 6)..(2 * n + 5)  OBVIOUS
  <1> HIDE DEF n, p
  <1>6. p \in 0..(2 * n + 6) /\ p + 1 \in (n + 7)..(2 * n + 6) /\ (p + 1) - (n + 6) \in 1..n  BY <1>1, <1>5
  <1>7. Rest[at] = Index(Rebuilt(stage).table, Dropped(stage)[(p + 1) - (n + 6)], {}, "none")
    BY <1>3, <1>4, <1>6, Zenon
  <1>8. Dropped(stage)[(p + 1) - (n + 6)] \in IndexNames  BY <1>2, <1>6
  <1> QED BY <1>7, <1>8, AddsIs

LEMMA PlaceCommit ==
  ASSUME stage \in Rebuilds, at \in Int, Place = 2 * Rebuilt(stage).n + 6
  PROVE  Rest[at] = Commit
  <1> DEFINE n == Rebuilt(stage).n
  <1>1. n \in Nat  BY BeginInt
  <1>2. BodyOf(stage)[2 * n + 7] = Commit  BY BodyParts DEF BodyAt
  <1>3. 2 * n + 6 \in 0..(2 * n + 6) => Rest[at] = BodyOf(stage)[(2 * n + 6) + 1]  BY BodyPlace
  <1> HIDE DEF n
  <1>4. 2 * n + 6 \in 0..(2 * n + 6) /\ (2 * n + 6) + 1 = 2 * n + 7  BY <1>1
  <1> QED BY <1>2, <1>3, <1>4, Zenon

\* The statements before and after
LEMMA PlaceAround ==
  ASSUME stage \in Rebuilds, stage # 36, at \in Int
  PROVE  /\ Place = -2 => Rest[at] = Commit
         /\ Place = -1 => Rest[at] = EnforceOff
         /\ Place = 2 * Rebuilt(stage).n + 7 => Rest[at] = EnforceOn
  <1> DEFINE n == Rebuilt(stage).n  b == Rebuilt(stage).begin  h == b - 1  m == 2 * n + 7
  <1>1. StageAt(stage, Rest, h, m)  BY StageIs
  <1>2. Rest[h - 1] = Commit /\ Rest[h] = EnforceOff /\ Rest[h + m + 1] = EnforceOn  BY <1>1 DEF StageAt
  <1>3. b \in Nat /\ n \in Nat  BY BeginInt
  <1>4. Place = at - b  BY DEF Place
  <1> HIDE DEF n, b
  <1>5. (Place = -2 => at = h - 1) /\ (Place = -1 => at = h) /\ (Place = 2 * n + 7 => at = h + m + 1)
    BY <1>3, <1>4
  <1> HIDE DEF h, m
  <1>6. (Place = -2 => Rest[at] = Commit) /\ (Place = -1 => Rest[at] = EnforceOff)
        /\ (Place = 2 * n + 7 => Rest[at] = EnforceOn)
    BY <1>2, <1>5, Zenon
  <1> QED BY <1>6 DEF n

\* v36 has no PRAGMA: it commits before BEGIN and runs with the enforcement on.
LEMMA PlaceTrials ==
  ASSUME stage = 36, at \in Int, Place = -1
  PROVE  Rest[at] = Commit
  <1>1. at = 2  BY RebuiltAt DEF Place
  <1> QED BY <1>1, Rest36

\* The row of the new protocol module, which v29 writes after its rebuild
LEMMA SeedIs ==
  ASSUME NEW st, st = Write("protocol_modules", "hysteria2", {})
  PROVE  Writes(st) /\ st.needs \subseteq WholeTables
  <1>1. Known(29, "protocol_modules", "table")  BY TableKnown DEF AllTables
  <1>2. st.op = "write" /\ st.flag = FALSE /\ st.names = Of("data", {"hysteria2"})
        /\ st.needs = Of("protocol_modules", {} \cup {"table"})
    BY DEF Write, Stmt
  <1>3. Side(st.names)  BY <1>2, OfIs DEF Side
  <1>4. st.needs = {<<"protocol_modules", "table">>}  BY <1>2 DEF Of
  <1>5. <<"protocol_modules", "table">> \in WholeTables
    <2>1. <<"protocol_modules", "table">>[1] = "protocol_modules"  OBVIOUS
    <2> QED BY <1>1, <2>1, WholeHasTable DEF Known
  <1> QED BY <1>2, <1>3, <1>4, <1>5 DEF Writes

\* Where it is
LEMMA PlaceSeed ==
  ASSUME stage = 29, at \in Int, Place = 2 * Rebuilt(29).n + 8
  PROVE  Writes(Rest[at]) /\ Rest[at].needs \subseteq WholeTables
  <1>1. at = 32  BY RebuiltAt DEF Place
  <1>2. Rest[at] = Write("protocol_modules", "hysteria2", {})  BY <1>1, Rest29
  <1> QED BY <1>2, SeedIs

\* The last statement sets the version.
LEMMA PlaceVersion ==
  ASSUME stage \in Rebuilds, at \in Int, Place = LastPlace(stage)
  PROVE  Rest[at] = SetVersion /\ at = Len(Rest)
  <1>1. CASE stage = 16
    <2>1. at = 16  BY <1>1, RebuiltAt, LastPlaceIs DEF Place
    <2> QED BY <1>1, <2>1, Rest16
  <1>2. CASE stage = 17
    <2>1. at = 15  BY <1>2, RebuiltAt, LastPlaceIs DEF Place
    <2> QED BY <1>2, <2>1, Rest17
  <1>3. CASE stage = 29
    <2>1. at = 33  BY <1>3, RebuiltAt, LastPlaceIs DEF Place
    <2> QED BY <1>3, <2>1, Rest29
  <1>4. CASE stage = 36
    <2>1. at = 14  BY <1>4, RebuiltAt, LastPlaceIs DEF Place
    <2> QED BY <1>4, <2>1, Rest36
  <1> QED BY <1>1, <1>2, <1>3, <1>4, RebuildsAre

-----------------------------------------------------------------------------
(* What the migrations leave behind *)

\* A statement that brings a table of a new database brings its first columns, and the column
\* the guard of v16 asks for comes with its CHECK.
TableWhole(N) ==
  /\ \A n \in Whole : Since(n) = 0 /\ <<n[1], "table">> \in N => n \in N
  /\ <<"announcement_batches", "scheduled_at">> \in N => <<"announcement_batches", "CHECK_scheduled">> \in N

Renamed(t) == IF t = "users_new" THEN "users"
              ELSE IF t = "vpn_keys_new" THEN "vpn_keys"
              ELSE IF t = "trial_key_requests_new" THEN "trial_key_requests"
              ELSE "announcement_batches"

Left(s) == IF s.op = "new" THEN { <<Renamed(n[1]), n[2]>> : n \in s.names }
           ELSE IF s.op \in {"ddl", "write"} THEN s.names ELSE {}

\* Leaves by statement
LEMMA LeavesIs == \A w : Leaves(w) = UNION { Left(Chain[w][i]) : i \in DOMAIN Chain[w] }
  BY Zenon DEF Leaves, Left, Renamed

\* A name that a version leaves behind comes from one of its statements.
LEMMA LeavesHas == \A w, x : x \in Leaves(w) <=> \E i \in DOMAIN Chain[w] : x \in Left(Chain[w][i])
  BY LeavesIs

\* A table that a steady statement creates has all the columns it has from its creation.
LEMMA LeftSteady ==
  ASSUME NEW s, Steady(s) \/ s.op \notin {"new", "ddl", "write"}
  PROVE  /\ \A n \in Whole : Since(n) = 0 /\ <<n[1], "table">> \in Left(s) => n \in Left(s)
         /\ <<"announcement_batches", "scheduled_at">> \notin Left(s)
  <1>1. CASE Creates(s)
    <2>1. Left(s) = s.names  BY <1>1 DEF Left, Creates
    <2>2. \A n \in s.names : n[1] = s.table /\ n # <<"announcement_batches", "scheduled_at">>
        BY <1>1 DEF Creates
    <2>3. ASSUME NEW n \in Whole, Since(n) = 0, <<n[1], "table">> \in s.names PROVE n \in s.names
      <3>1. <<n[1], "table">>[1] = n[1]  OBVIOUS
      <3>2. n[1] = s.table  BY <2>2, <2>3, <3>1
      <3> QED BY <3>2, <2>3, <1>1 DEF Creates
    <2> QED BY <2>1, <2>2, <2>3
  <1>2. CASE Adds(s) \/ Writes(s)
    <2>1. Left(s) = s.names /\ Side(s.names)  BY <1>2 DEF Left, Adds, Writes
    <2>2. \A n \in s.names : n[2] # "table" /\ n # <<"announcement_batches", "scheduled_at">>
        BY <2>1 DEF Side
    <2>3. \A n : <<n[1], "table">>[2] = "table"  OBVIOUS
    <2> QED BY <2>1, <2>2, <2>3
  <1>3. CASE s.op \notin {"new", "ddl", "write"}
    <2>1. Left(s) = {}  BY <1>3 DEF Left
    <2> QED BY <2>1
  <1>4. CASE Checks(s) \/ Removes(s)
    <2>1. s.op \notin {"new", "ddl", "write"}  BY <1>4 DEF Checks, Removes
    <2> QED BY <2>1, <1>3
  <1> QED BY <1>1, <1>2, <1>3, <1>4 DEF Steady

\* So do steady statements together.
LEMMA SteadyLeaves ==
  ASSUME NEW w, \A i \in DOMAIN Chain[w] : Steady(Chain[w][i]) \/ Chain[w][i].op \notin {"new", "ddl",
          "write"}
  PROVE  TableWhole(Leaves(w))
  <1>1. \A n \in Whole : Since(n) = 0 /\ <<n[1], "table">> \in Leaves(w) => n \in Leaves(w)
    <2> TAKE n \in Whole
    <2> HAVE Since(n) = 0 /\ <<n[1], "table">> \in Leaves(w)
    <2>1. PICK i \in DOMAIN Chain[w] : <<n[1], "table">> \in Left(Chain[w][i])  BY LeavesHas
    <2>2. n \in Left(Chain[w][i])  BY <2>1, LeftSteady
    <2> QED BY <2>2, LeavesHas
  <1>2. <<"announcement_batches", "scheduled_at">> \notin Leaves(w)  BY LeftSteady, LeavesHas
  <1> QED BY <1>1, <1>2 DEF TableWhole

\* A migration without a rebuild leaves whole tables,
LEMMA PlainLeaves == \A w \in Plain : TableWhole(Leaves(w))
  <1> SUFFICES ASSUME NEW w \in Plain PROVE TableWhole(Leaves(w))
    OBVIOUS
  <1>1. SoundKinds(Chain[w])  BY PlainSound DEF Sound
  <1>2. \A i \in DOMAIN Chain[w] : Steady(Chain[w][i]) \/ Chain[w][i].op = "unless"
    BY <1>1 DEF SoundKinds, Leaps
  <1>3. \A i \in DOMAIN Chain[w] : Steady(Chain[w][i]) \/ Chain[w][i].op \notin {"new", "ddl", "write"}
    BY <1>2
  <1> QED BY <1>3, SteadyLeaves

\* and the columns of its version.
LEMMA PlainSince == \A n \in Whole : Since(n) \in Plain => n \in Leaves(Since(n))
  <1> SUFFICES ASSUME NEW n \in Whole, NEW w \in Plain, Since(n) = w PROVE n \in Leaves(w)
    OBVIOUS
  <1>1. SoundGains(w, Chain[w])  BY PlainSound DEF Sound
  <1>2. PICK i \in DOMAIN Chain[w] : Gains(Chain[w][i], n)  BY <1>1 DEF SoundGains
  <1>3. n \in Left(Chain[w][i])  BY <1>2 DEF Gains, Left
  <1> QED BY <1>3, LeavesHas

\* The first version
LEMMA BaseNamesWhole == TableWhole(BaseNames)
  <1>1. \A n : n \in BaseNames <=>
          \/ n = <<"users", n[2]>> /\ n[2] \in {"table", "role", "blocked_at"}
          \/ n = <<"access_requests", n[2]>> /\ n[2] \in {"table", "status"}
          \/ n = <<"vpn_keys", n[2]>> /\ n[2] \in {"table", "owner", "uuid", "label", "client_ip"}
          \/ n = <<"proxy_entries", n[2]>> /\ n[2] \in {"table"}
    BY OfIs DEF BaseNames
  <1>2. <<"announcement_batches", "scheduled_at">> \notin BaseNames
    <2>1. <<"announcement_batches", "scheduled_at">>[1] = "announcement_batches"  OBVIOUS
    <2>2. \A n \in BaseNames : n[1] # "announcement_batches"  BY <1>1
    <2> QED BY <2>1, <2>2
  <1>3. ASSUME NEW n \in Whole, Since(n) = 0, <<n[1], "table">> \in BaseNames PROVE n \in BaseNames
    <2>0. n = <<n[1], n[2]>>  BY WholePairs
    <2>1. n[1] \in {"users", "access_requests", "vpn_keys", "proxy_entries"}
      <3>1. \A m \in BaseNames : m[1] \in {"users", "access_requests", "vpn_keys", "proxy_entries"}  BY <1>1
      <3>2. <<n[1], "table">>[1] = n[1]  OBVIOUS
      <3> QED BY <3>1, <3>2, <1>3
    <2>2. CASE n[1] = "users"
      <3>1. n \in Tables[1].names  BY <2>2, WholeColumns, TableNames
      <3>2. n[2] \in {"table", "role", "CHECK_moderator", "blocked_at", "trial_quota_reset_at", "note",
                      "language", "expiry_notifications"}
        BY <3>1, Table1
      <3>3. n[2] \in {"table", "role", "blocked_at"}  BY <2>2, <3>2, <1>3 DEF Since
      <3> QED BY <2>0, <2>2, <3>3, <1>1
    <2>3. CASE n[1] = "access_requests"
      <3>1. n \in Tables[2].names  BY <2>3, WholeColumns, TableNames
      <3>2. n[2] \in {"table", "status"}  BY <3>1, Table2
      <3> QED BY <2>0, <2>3, <3>2, <1>1
    <2>4. CASE n[1] = "vpn_keys"
      <3>1. n \in Tables[3].names  BY <2>4, WholeColumns, TableNames
      <3>2. n[2] \in {"table", "owner", "uuid", "label", "client_ip", "expires_at", "notified_days",
                      "transport", "xhttp_profile", "CHECK_hysteria2", "spider_x", "bundle_id", "relay"}
        BY <3>1, Table3
      <3>3. n[2] \in {"table", "owner", "uuid", "label", "client_ip"}  BY <2>4, <3>2, <1>3 DEF Since
      <3> QED BY <2>0, <2>4, <3>3, <1>1
    <2>5. CASE n[1] = "proxy_entries"
      <3>1. n \in Tables[7].names  BY <2>5, WholeColumns, TableNames
      <3>2. n[2] \in {"table"}  BY <3>1, Table7
      <3> QED BY <2>0, <2>5, <3>2, <1>1
    <2> QED BY <2>1, <2>2, <2>3, <2>4, <2>5
  <1> QED BY <1>2, <1>3 DEF TableWhole

\* A statement that leaves nothing behind, or nothing but an index or an old table's columns
Quiet(s) == Steady(s) \/ s.op \notin {"new", "ddl", "write"}

\* Which statements are quiet
LEMMA QuietOps ==
  /\ Quiet(Commit) /\ Quiet(Begin) /\ Quiet(EnforceOn) /\ Quiet(EnforceOff)
  /\ \A t, c : Quiet(UnlessHas(t, c))
  /\ \A t, c : Quiet(DropIndex(t, c))
  /\ \A t, u : Quiet(Rename(t, u))
  /\ \A t : Quiet(Drop(t)) /\ Quiet(DropIfExists(t))
  /\ \A t, u, cols : Quiet(Copy(t, u, cols))
  <1>1. Commit.op = "commit" /\ Begin.op = "begin"  BY DEF Commit, Begin, Stmt
  <1>2. EnforceOn.op = "pragma" /\ EnforceOff.op = "pragma"  BY DEF EnforceOn, EnforceOff, Pragma, Stmt
  <1>3. \A t, c : UnlessHas(t, c).op = "unless" /\ DropIndex(t, c).op = "dropindex"
    BY DEF UnlessHas, DropIndex, Stmt
  <1>4. \A t, u : Rename(t, u).op = "rename"  BY DEF Rename, Stmt
  <1>5. \A t : Drop(t).op = "drop" /\ DropIfExists(t).op = "drop"  BY DEF Drop, DropIfExists, Stmt
  <1>6. \A t, u, cols : Copy(t, u, cols).op = "copy"  BY DEF Copy, Stmt
  <1> QED BY <1>1, <1>2, <1>3, <1>4, <1>5, <1>6 DEF Quiet

\* v9
LEMMA NineQuiet == \A i \in DOMAIN Chain[9] : Quiet(Chain[9][i])
  <1> DEFINE a == UnlessHas("proxy_accesses", "CHECK_revoke_failed")
             b == DropIndex("proxy_accesses", "idx_owner")
             c == DropIndex("proxy_accesses", "idx_fingerprint")
             d == Rename("proxy_accesses", "proxy_accesses_v8")
             e == Create("proxy_accesses", ProxyCols)
             f == Copy("proxy_accesses_v8", "proxy_accesses", {"owner"})
             g == Drop("proxy_accesses_v8")
             A == <<a, b, c, d>>  B == <<e>>  D == <<f, g>>  P == ProxyIndexes
             X == A \o B  Y == X \o P  Z == Y \o D
  <1>1. Chain[9] = Z
    <2>1. Chain[9] = MigrateProxiesV9  BY DEF Chain
    <2>2. MigrateProxiesV9 = Z  BY DEF MigrateProxiesV9
    <2> QED BY <2>1, <2>2, Zenon
  <1>2. Quiet(a) /\ Quiet(b) /\ Quiet(c) /\ Quiet(d) /\ Quiet(f) /\ Quiet(g)  BY QuietOps
  <1>3. Quiet(e)
    <2>1. Good(1, Create("proxy_accesses", ProxyCols))  BY ChainCreates
    <2> QED BY <2>1, SMTT(30) DEF Good, Quiet
  <1>4. Quiet(P[1]) /\ Quiet(P[2])  BY NineIndexes DEF Quiet
  <1>10. Joined(X, A, B) /\ Joined(Y, X, P) /\ Joined(Z, Y, D)  BY DEF Joined
  <1> HIDE DEF a, b, c, d, e, f, g
  <1>5. HasLen(A, 4) /\ A[1] = a /\ A[2] = b /\ A[3] = c /\ A[4] = d  BY Has4
  <1>6. HasLen(B, 1) /\ B[1] = e  BY Has1
  <1>7. HasLen(D, 2) /\ D[1] = f /\ D[2] = g  BY Has2
  <1>8. HasLen(P, 2)  BY Has2 DEF ProxyIndexes
  <1> HIDE DEF A, B, D, P, X, Y, Z
  <1>11. \A i \in 1..4 : Quiet(A[i])
    <2>1. \A i \in 1..4 : i = 1 \/ i = 2 \/ i = 3 \/ i = 4  OBVIOUS
    <2> QED BY <2>1, <1>2, <1>5, Zenon
  <1>12. HasLen(X, 5) /\ (\A k \in 1..4 : X[k] = A[k]) /\ X[5] = B[1]
    <2>1. /\ HasLen(X, 4 + 1) /\ \A k \in 1..4 : X[k] = A[k]
          /\ \A k \in (4 + 1)..(4 + 1) : X[k] = B[k - 4]
      BY <1>5, <1>6, <1>10, JoinedAt
    <2> QED BY <2>1
  <1>13. HasLen(Y, 7) /\ (\A k \in 1..5 : Y[k] = X[k]) /\ Y[6] = P[1] /\ Y[7] = P[2]
    <2>1. /\ HasLen(Y, 5 + 2) /\ \A k \in 1..5 : Y[k] = X[k]
          /\ \A k \in (5 + 1)..(5 + 2) : Y[k] = P[k - 5]
      BY <1>8, <1>10, <1>12, JoinedAt
    <2> QED BY <2>1
  <1>14. HasLen(Z, 9) /\ (\A k \in 1..7 : Z[k] = Y[k]) /\ Z[8] = D[1] /\ Z[9] = D[2]
    <2>1. /\ HasLen(Z, 7 + 2) /\ \A k \in 1..7 : Z[k] = Y[k]
          /\ \A k \in (7 + 1)..(7 + 2) : Z[k] = D[k - 7]
      BY <1>7, <1>10, <1>13, JoinedAt
    <2> QED BY <2>1
  <1>15. \A i \in 1..4 : Z[i] = A[i]  BY <1>12, <1>13, <1>14
  <1>16. Z[5] = e /\ Z[6] = P[1] /\ Z[7] = P[2] /\ Z[8] = f /\ Z[9] = g  BY <1>6, <1>7, <1>12, <1>13, <1>14
  <1>17. \A i \in 1..9 : Quiet(Z[i])
    <2>1. \A i \in 1..9 : i \in 1..4 \/ i = 5 \/ i = 6 \/ i = 7 \/ i = 8 \/ i = 9  OBVIOUS
    <2> QED BY <2>1, <1>2, <1>3, <1>4, <1>11, <1>15, <1>16, Zenon
  <1>18. DOMAIN Z = 1..9
    <2>1. IsSeq(Z) /\ Len(Z) = 9  BY <1>14 DEF HasLen
    <2>2. PICK S : Z \in Seq(S)  BY <2>1 DEF IsSeq
    <2> QED BY <2>1, <2>2
  <1> QED BY <1>1, <1>17, <1>18, Zenon

\* v16, v17, v29 and v36: the copy under the name of the table, its indexes and nothing else
Parts(s, q) ==
  /\ \A i \in DOMAIN q : Quiet(q[i]) \/ q[i] = CreateNew(Rebuilt(s).copy, Rebuilt(s).cols)
  /\ \E i \in DOMAIN q : q[i] = CreateNew(Rebuilt(s).copy, Rebuilt(s).cols)

\* In a rebuild all but the creation of the copy is quiet.
LEMMA BodyQuiet ==
  ASSUME NEW s \in Rebuilds, NEW k \in 1..(2 * Rebuilt(s).n + 7), k # Rebuilt(s).n + 3
  PROVE  Quiet(BodyOf(s)[k])
  <1> DEFINE n == Rebuilt(s).n  B == BodyOf(s)  t == Rebuilt(s).table  u == Rebuilt(s).copy  D == Dropped(s)
  <1>1. n \in Nat  BY BeginInt
  <1>2. \A i \in 1..n : D[i] \in IndexNames  BY DroppedIs
  <1>3. B[1] = Begin /\ B[2] = DropIfExists(u)  BY BodyParts DEF BodyAt
  <1>4. \A j \in 3..(n + 2) : B[j] = DropIndex(t, D[j - 2])  BY BodyParts DEF BodyAt
  <1>5. B[n + 4] = Copy(t, u, Copied(s)) /\ B[n + 5] = Drop(t) /\ B[n + 6] = Rename(u, t)
    BY BodyParts DEF BodyAt
  <1>6. \A j \in (n + 7)..(2 * n + 6) : B[j] = Index(t, D[j - (n + 6)], {}, "none")  BY BodyParts DEF BodyAt
  <1>7. B[2 * n + 7] = Commit  BY BodyParts DEF BodyAt
  <1>8. k \in 1..(2 * n + 7) /\ k # n + 3  OBVIOUS
  <1> SUFFICES Quiet(B[k])
    OBVIOUS
  <1> HIDE DEF n, B, t, u, D
  <1>9. CASE k = 1 \/ k = 2 \/ k = 2 * n + 7
    BY <1>3, <1>7, <1>9, QuietOps
  <1>10. CASE k \in 3..(n + 2)
    BY <1>4, <1>10, QuietOps
  <1>11. CASE k = n + 4 \/ k = n + 5 \/ k = n + 6
    BY <1>5, <1>11, QuietOps
  <1>12. CASE k \in (n + 7)..(2 * n + 6)
    <2>1. k - (n + 6) \in 1..n  BY <1>1, <1>12
    <2>2. D[k - (n + 6)] \in IndexNames  BY <1>2, <2>1
    <2>3. B[k] = Index(t, D[k - (n + 6)], {}, "none")  BY <1>6, <1>12
    <2> DEFINE st == B[k]
    <2>4. Adds(st)  BY <2>2, <2>3, AddsIs
    <2> QED BY <2>4 DEF Quiet, Steady
  <1>13. k = 1 \/ k = 2 \/ k = 2 * n + 7 \/ k \in 3..(n + 2) \/ k = n + 4 \/ k = n + 5 \/ k = n + 6
         \/ k \in (n + 7)..(2 * n + 6)
    BY <1>1, <1>8
  <1> QED BY <1>9, <1>10, <1>11, <1>12, <1>13

\* A stage that rebuilds a table is quiet but for the copy, the columns and the indexes.
LEMMA StageParts ==
  ASSUME NEW s \in Rebuilds, NEW q, NEW h \in Nat, NEW l \in Nat, HasLen(q, l), NEW m \in Nat,
         m = 2 * Rebuilt(s).n + 7, StageAt(s, q, h, m), h + m <= l,
         \A i \in 1..l : i \in (h + 1)..(h + m) \/ Quiet(q[i])
  PROVE  Parts(s, q)
  <1> DEFINE n == Rebuilt(s).n  B == BodyOf(s)  C == CreateNew(Rebuilt(s).copy, Rebuilt(s).cols)
  <1>1. n \in Nat  BY BeginInt
  <1>2. \A k \in (h + 1)..(h + m) : q[k] = B[k - h]  BY DEF StageAt
  <1>3. B[n + 3] = C  BY BodyParts DEF BodyAt
  <1>4. \A k \in 1..(2 * n + 7) : k # n + 3 => Quiet(B[k])  BY BodyQuiet
  <1>5. DOMAIN q = 1..l
    <2>1. IsSeq(q) /\ Len(q) = l  BY DEF HasLen
    <2>2. PICK S : q \in Seq(S)  BY <2>1 DEF IsSeq
    <2> QED BY <2>1, <2>2
  <1>6. m = 2 * n + 7  OBVIOUS
  <1> HIDE DEF n, B, C
  <1>7. ASSUME NEW i \in 1..l PROVE Quiet(q[i]) \/ q[i] = C
    <2>1. CASE i \in (h + 1)..(h + m)
      <3>1. q[i] = B[i - h]  BY <1>2, <2>1
      <3>2. i - h \in 1..(2 * n + 7)  BY <1>1, <1>6, <2>1
      <3> QED BY <1>3, <1>4, <3>1, <3>2
    <2> QED BY <2>1
  <1>8. \E i \in 1..l : q[i] = C
    <2>1. h + (n + 3) \in (h + 1)..(h + m) /\ h + (n + 3) \in 1..l /\ (h + (n + 3)) - h = n + 3
        BY <1>1, <1>6
    <2>2. q[h + (n + 3)] = B[n + 3]  BY <1>2, <2>1
    <2> QED BY <1>3, <2>1, <2>2
  <1> QED BY <1>5, <1>7, <1>8 DEF Parts, C

\* So are the four.
LEMMA PartsAll == \A s \in Rebuilds : Parts(s, Chain[s])
  <1>1. Parts(16, Chain[16])
    <2> DEFINE q == Chain[16]
    <2>1. HasLen(q, 15) /\ StageAt(16, q, 3, 11)  BY Chain16
    <2>8. q[1] = UnlessHas("announcement_batches", "scheduled_at")  BY Chain16
    <2> HIDE DEF q
    <2>2. q[2] = Commit /\ q[3] = EnforceOff /\ q[15] = EnforceOn
      <3>1. 3 - 1 = 2 /\ 3 + 11 + 1 = 15 /\ 16 # 36  OBVIOUS
      <3> QED BY <2>1, <3>1, Zenon DEF StageAt
    <2>3. Quiet(q[1]) /\ Quiet(q[2]) /\ Quiet(q[3]) /\ Quiet(q[15])  BY <2>2, <2>8, QuietOps
    <2>4. \A i \in 1..15 : i \in (3 + 1)..(3 + 11) \/ i = 1 \/ i = 2 \/ i = 3 \/ i = 15  OBVIOUS
    <2>5. \A i \in 1..15 : i \in (3 + 1)..(3 + 11) \/ Quiet(q[i])  BY <2>3, <2>4
    <2>6. 11 = 2 * Rebuilt(16).n + 7 /\ 16 \in Rebuilds  BY RebuiltAt, RebuildsAre
    <2>9. 3 \in Nat /\ 15 \in Nat /\ 11 \in Nat /\ 3 + 11 <= 15  OBVIOUS
    <2>7. Parts(16, q)  BY <2>1, <2>5, <2>6, <2>9, StageParts, Zenon
    <2> QED BY <2>7 DEF q
  <1>2. Parts(17, Chain[17])
    <2> DEFINE q == Chain[17]
    <2>1. HasLen(q, 14) /\ StageAt(17, q, 2, 11)  BY Chain17
    <2> HIDE DEF q
    <2>2. q[1] = Commit /\ q[2] = EnforceOff /\ q[14] = EnforceOn
      <3>1. 2 - 1 = 1 /\ 2 + 11 + 1 = 14 /\ 17 # 36  OBVIOUS
      <3> QED BY <2>1, <3>1, Zenon DEF StageAt
    <2>3. Quiet(q[1]) /\ Quiet(q[2]) /\ Quiet(q[14])  BY <2>1, <2>2, QuietOps
    <2>4. \A i \in 1..14 : i \in (2 + 1)..(2 + 11) \/ i = 1 \/ i = 2 \/ i = 14  OBVIOUS
    <2>5. \A i \in 1..14 : i \in (2 + 1)..(2 + 11) \/ Quiet(q[i])  BY <2>3, <2>4
    <2>6. 11 = 2 * Rebuilt(17).n + 7 /\ 17 \in Rebuilds  BY RebuiltAt, RebuildsAre
    <2>7. Parts(17, q)  BY <2>1, <2>5, <2>6, StageParts
    <2> QED BY <2>7 DEF q
  <1>3. Parts(29, Chain[29])
    <2> DEFINE q == Chain[29]
    <2>1. HasLen(q, 31) /\ q[1] = UnlessHas("vpn_keys", "CHECK_hysteria2") /\ StageAt(29, q, 3, 27)
        BY Chain29
    <2> HIDE DEF q
    <2>2. q[2] = Commit /\ q[3] = EnforceOff /\ q[31] = EnforceOn
      <3>1. 3 - 1 = 2 /\ 3 + 27 + 1 = 31 /\ 29 # 36  OBVIOUS
      <3> QED BY <2>1, <3>1, Zenon DEF StageAt
    <2>3. Quiet(q[1]) /\ Quiet(q[2]) /\ Quiet(q[3]) /\ Quiet(q[31])  BY <2>1, <2>2, QuietOps
    <2>4. \A i \in 1..31 : i \in (3 + 1)..(3 + 27) \/ i = 1 \/ i = 2 \/ i = 3 \/ i = 31  OBVIOUS
    <2>5. \A i \in 1..31 : i \in (3 + 1)..(3 + 27) \/ Quiet(q[i])  BY <2>3, <2>4
    <2>6. 27 = 2 * Rebuilt(29).n + 7 /\ 29 \in Rebuilds  BY RebuiltAt, RebuildsAre
    <2>7. Parts(29, q)  BY <2>1, <2>5, <2>6, StageParts
    <2> QED BY <2>7 DEF q
  <1>4. Parts(36, Chain[36])
    <2> DEFINE q == Chain[36]
    <2>1. /\ HasLen(q, 13) /\ q[1] = UnlessHas("trial_key_requests", "CHECK_hysteria2") /\ q[2] = Commit
          /\ StageAt(36, q, 2, 11)
      BY Chain36
    <2> HIDE DEF q
    <2>3. Quiet(q[1]) /\ Quiet(q[2])  BY <2>1, QuietOps
    <2>4. \A i \in 1..13 : i \in (2 + 1)..(2 + 11) \/ i = 1 \/ i = 2  OBVIOUS
    <2>5. \A i \in 1..13 : i \in (2 + 1)..(2 + 11) \/ Quiet(q[i])  BY <2>3, <2>4
    <2>6. 11 = 2 * Rebuilt(36).n + 7 /\ 36 \in Rebuilds  BY RebuiltAt, RebuildsAre
    <2>7. Parts(36, q)  BY <2>1, <2>5, <2>6, StageParts
    <2> QED BY <2>7 DEF q
  <1> QED BY <1>1, <1>2, <1>3, <1>4, RebuildsAre

\* The copy is left under the name of the table.
LEMMA LeftNew ==
  ASSUME NEW s \in Rebuilds, NEW st, st = CreateNew(Rebuilt(s).copy, Rebuilt(s).cols), NEW n
  PROVE  n \in Left(st) <=> n = <<Rebuilt(s).table, n[2]>> /\ n[2] \in Rebuilt(s).cols \cup {"table"}
  <1> DEFINE t == Rebuilt(s).table  u == Rebuilt(s).copy  cols == Rebuilt(s).cols \cup {"table"}
  <1>1. Renamed(u) = t
    <2>1. s = 16 \/ s = 17 \/ s = 29 \/ s = 36  BY RebuildsAre
    <2> QED BY <2>1, RebuiltAt DEF Renamed
  <1>2. st.op = "new" /\ st.names = Of(u, cols)  BY DEF CreateNew, Stmt
  <1>3. Left(st) = { <<Renamed(m[1]), m[2]>> : m \in st.names }  BY <1>2 DEF Left
  <1> HIDE DEF t, u, cols
  <1>4. \A m \in st.names : m[1] = u /\ m[2] \in cols  BY <1>2 DEF Of
  <1>5. ASSUME n \in Left(st) PROVE n = <<t, n[2]>> /\ n[2] \in cols
    <2>1. PICK m \in st.names : n = <<Renamed(m[1]), m[2]>>  BY <1>3, <1>5
    <2> QED BY <1>1, <1>4, <2>1
  <1>6. ASSUME n = <<t, n[2]>>, n[2] \in cols PROVE n \in Left(st)
    <2>1. <<u, n[2]>> \in st.names  BY <1>2, <1>6 DEF Of
    <2>2. <<Renamed(u), n[2]>> \in Left(st)  BY <1>3, <2>1
    <2> QED BY <1>1, <1>6, <2>2
  <1> QED BY <1>5, <1>6 DEF t, cols

\* A rebuild leaves its table whole.
LEMMA RebuildLeaves ==
  ASSUME NEW s \in Rebuilds
  PROVE  TableWhole(Leaves(s)) /\ \A x \in Whole : Since(x) = s => x \in Leaves(s)
  <1> DEFINE t == Rebuilt(s).table
             cols == Rebuilt(s).cols  C == CreateNew(Rebuilt(s).copy, Rebuilt(s).cols)
             q == Chain[s]
  <1>1. Parts(s, q)  BY PartsAll
  <1>2. \A i \in DOMAIN q : Quiet(q[i]) \/ q[i] = C  BY <1>1 DEF Parts
  <1>3. PICK j \in DOMAIN q : q[j] = C  BY <1>1 DEF Parts
  <1>4. \A n : n \in Left(C) <=> n = <<t, n[2]>> /\ n[2] \in cols \cup {"table"}  BY LeftNew
  <1>5. \A n : n \in Left(C) => n \in Leaves(s)  BY <1>3, LeavesHas
  <1>6. \A n : n \in Leaves(s) <=> \E i \in DOMAIN q : n \in Left(q[i])  BY LeavesHas
  <1>7. 0 < s  BY RebuildsAre
  <1>8. \A x \in Whole : x[1] = t /\ Since(x) < s => x[2] \in cols \cup {"table"}  BY ColumnsCopied
  <1>9. \A x \in Whole : Since(x) = s => x[1] = t /\ x[2] \in cols  BY ColumnsRebuilt
  <1>10. t = "announcement_batches" => "CHECK_scheduled" \in cols  BY ScheduledCopied
  <1> HIDE DEF t, cols, C, q
  <1>11. ASSUME NEW n \in Whole, Since(n) = 0, <<n[1], "table">> \in Leaves(s) PROVE n \in Leaves(s)
    <2>1. PICK i \in DOMAIN q : <<n[1], "table">> \in Left(q[i])  BY <1>6, <1>11
    <2>2. CASE Quiet(q[i])
      <3>1. n \in Left(q[i])  BY <1>11, <2>1, <2>2, LeftSteady DEF Quiet
      <3> QED BY <1>6, <3>1
    <2>3. CASE q[i] = C
      <3>1. <<n[1], "table">> \in Left(C)  BY <2>1, <2>3
      <3>2. <<n[1], "table">>[1] = n[1]  OBVIOUS
      <3>3. n[1] = t  BY <1>4, <3>1, <3>2
      <3>4. n[2] \in cols \cup {"table"}  BY <1>7, <1>8, <1>11, <3>3
      <3>5. n = <<n[1], n[2]>>  BY WholePairs
      <3> QED BY <1>4, <1>5, <3>3, <3>4, <3>5
    <2> QED BY <1>2, <2>2, <2>3
  <1>12. ASSUME <<"announcement_batches", "scheduled_at">> \in Leaves(s)
         PROVE  <<"announcement_batches", "CHECK_scheduled">> \in Leaves(s)
    <2>1. PICK i \in DOMAIN q : <<"announcement_batches", "scheduled_at">> \in Left(q[i])  BY <1>6, <1>12
    <2>2. CASE Quiet(q[i])
      <3> QED BY <2>1, <2>2, LeftSteady DEF Quiet
    <2>3. CASE q[i] = C
      <3>1. <<"announcement_batches", "scheduled_at">>[1] = "announcement_batches"
            /\ <<"announcement_batches", "CHECK_scheduled">>[2] = "CHECK_scheduled"
        OBVIOUS
      <3>2. t = "announcement_batches"  BY <1>4, <2>1, <2>3, <3>1
      <3>3. "CHECK_scheduled" \in cols \cup {"table"}  BY <1>10, <3>2
      <3>4. <<"announcement_batches", "CHECK_scheduled">> \in Left(C)  BY <1>4, <3>1, <3>2, <3>3
      <3> QED BY <1>5, <3>4
    <2> QED BY <1>2, <2>2, <2>3
  <1>13. ASSUME NEW x \in Whole, Since(x) = s PROVE x \in Leaves(s)
    <2>1. x[1] = t /\ x[2] \in cols \cup {"table"}  BY <1>9, <1>13
    <2>2. x = <<x[1], x[2]>>  BY WholePairs
    <2> QED BY <1>4, <1>5, <2>1, <2>2
  <1> QED BY <1>11, <1>12, <1>13 DEF TableWhole

\* Every version leaves whole tables, and the columns of its own.
LEMMA LeavesWhole == \A w \in 1..CurrentVersion : TableWhole(Leaves(w))
  <1> TAKE w \in 1..CurrentVersion
  <1>1. CASE w \in Plain
    BY <1>1, PlainLeaves
  <1>2. CASE w \in Rebuilds
    BY <1>2, RebuildLeaves
  <1>3. CASE w = 9
    BY <1>3, NineQuiet, SteadyLeaves DEF Quiet
  <1> QED BY <1>1, <1>2, <1>3 DEF Plain

\* A column is left behind by the version that adds it.
LEMMA LeavesSince == \A n \in Whole : Since(n) # 0 => n \in Leaves(Since(n))
  <1> SUFFICES ASSUME NEW n \in Whole, Since(n) # 0 PROVE n \in Leaves(Since(n))
    OBVIOUS
  <1> DEFINE w == Since(n)
  <1>1. w \in 0..CurrentVersion  BY SinceRange
  <1>2. w # 9  BY NeverNine
  <1> HIDE DEF w
  <1>3. w \in 1..CurrentVersion  BY <1>1 DEF CurrentVersion, w
  <1>4. w \in Plain \/ w \in Rebuilds  BY <1>2, <1>3 DEF Plain
  <1>5. CASE w \in Plain
    BY <1>5, PlainSince DEF w
  <1>6. CASE w \in Rebuilds
    BY <1>6, RebuildLeaves DEF w
  <1> QED BY <1>4, <1>5, <1>6 DEF w

-----------------------------------------------------------------------------
(* Statements on a database *)

\* The name of a table
LEMMA OfTable == \A t : Of(t, {"table"}) = {<<t, "table">>}
  BY DEF Of

\* A steady statement keeps the tables, the rows and the completeness.
LEMMA SteadyRuns ==
  ASSUME NEW db, Fits(db), WholeTables \subseteq db.has, NEW s, Steady(s), NEW e
  PROVE  /\ Fits(Ran(db, e, s)) /\ WholeTables \subseteq Ran(db, e, s).has
         /\ Ran(db, e, s).rows = db.rows /\ Ran(db, e, s).ver = db.ver
         /\ db.has \cap Whole \subseteq Ran(db, e, s).has
         /\ s.op # "dropindex" => db.has \subseteq Ran(db, e, s).has
         /\ s.op = "dropindex" => Ran(db, e, s).has \subseteq db.has
         /\ s.op = "ddl" /\ s.table = "none" => s.names \subseteq Ran(db, e, s).has
  <1> DEFINE d == Ran(db, e, s)
  <1>0. ASSUME NEW h, WholeTables \subseteq h, db.has \cap Whole \subseteq h,
               \A n \in h : n[2] = "table" \/ n = <<"announcement_batches", "scheduled_at">> => n \in db.has
        PROVE  Fits([db EXCEPT !.has = h])
    <2> DEFINE f == [db EXCEPT !.has = h]
    <2>1. DOMAIN f = DOMAIN db /\ f.ver = db.ver /\ f.rows = db.rows /\ f.has = h
      BY DEF Fits
    <2> HIDE DEF f
    <2>2. \A n \in Whole : Since(n) <= f.ver /\ <<n[1], "table">> \in f.has => n \in f.has
      <3> TAKE n \in Whole
      <3> HAVE Since(n) <= f.ver /\ <<n[1], "table">> \in f.has
      <3>1. <<n[1], "table">> \in db.has  BY <2>1, <1>0
      <3> QED BY <3>1, <2>1, <1>0 DEF Fits
    <2>4. <<"announcement_batches", "scheduled_at">> \in f.has
          => <<"announcement_batches", "CHECK_scheduled">> \in f.has
      BY <2>1, <1>0, ScheduledWhole DEF Fits
    <2> QED BY <2>1, <2>2, <2>4 DEF Fits
  <1>1. CASE Creates(s)
    <2>1. NoStatement(db, s)  BY <1>1, OfTable DEF Creates, NoStatement
    <2>2. d = db  BY <2>1, <1>1 DEF Ran, Creates
    <2> QED BY <2>2, <1>1 DEF Creates
  <1>2. CASE Adds(s)
    <2>1. CASE NoStatement(db, s)
      <3>1. d = db  BY <2>1, <1>2 DEF Ran, Adds
      <3>2. s.names \subseteq db.has  BY <2>1, <1>2 DEF NoStatement, Adds
      <3> QED BY <3>1, <3>2, <1>2 DEF Adds
    <2>2. CASE ~NoStatement(db, s)
      <3>1. d = [db EXCEPT !.has = db.has \cup s.names]  BY <2>2, <1>2 DEF Ran, Adds
      <3>2. d.has = db.has \cup s.names /\ d.rows = db.rows /\ d.ver = db.ver  BY <3>1 DEF Fits
      <3>3. Fits(d)  BY <3>1, <1>0, <1>2 DEF Adds, Side
      <3> QED BY <3>2, <3>3, <1>2 DEF Adds
    <2> QED BY <2>1, <2>2
  <1>3. CASE Writes(s)
    <2>1. d = [db EXCEPT !.has = db.has \cup s.names]  BY <1>3 DEF Ran, Writes
    <2>2. d.has = db.has \cup s.names /\ d.rows = db.rows /\ d.ver = db.ver  BY <2>1 DEF Fits
    <2>3. Fits(d)  BY <2>1, <1>0, <1>3 DEF Writes, Side
    <2> QED BY <2>2, <2>3, <1>3 DEF Writes
  <1>4. CASE Checks(s)
    <2>1. d = db  BY <1>4 DEF Ran, Checks
    <2> QED BY <2>1, <1>4 DEF Checks
  <1>5. CASE Removes(s)
    <2>1. d = [db EXCEPT !.has = db.has \ s.names]  BY <1>5 DEF Ran, Removes
    <2>2. d.has = db.has \ s.names /\ d.rows = db.rows /\ d.ver = db.ver  BY <2>1 DEF Fits
    <2>3. WholeTables \subseteq d.has /\ db.has \cap Whole \subseteq d.has
      BY <2>2, <1>5, WholeTablesWhole DEF Removes
    <2>4. Fits(d)  BY <2>1, <2>2, <2>3, <1>0
    <2> QED BY <2>2, <2>3, <2>4, <1>5 DEF Removes
  <1> QED BY <1>1, <1>2, <1>3, <1>4, <1>5 DEF Steady

\* What Fits says of a database that has all the tables
LEMMA ColumnsThere ==
  ASSUME NEW db, Fits(db), WholeTables \subseteq db.has, NEW n \in Whole, Since(n) <= db.ver
  PROVE  n \in db.has
  BY WholeHasTable DEF Fits

-----------------------------------------------------------------------------
(* Steps *)

\* What every statement leaves alone
LEMMA ExecuteFrame ==
  ASSUME Execute
  PROVE  /\ UNCHANGED <<stage, bot, trouble, bootCrashes, legacy>> /\ LegacyRows' = LegacyRows
         /\ mwork' = Ran(mwork, fk, Rest[at]) /\ bot = "booting" /\ ~Skipped
         /\ at' = Jump(Rest[at])
  BY DEF Execute, LegacyRows

\* A statement leaves a good committed database if it leaves a good one on the connection, or
\* is inside a transaction that it does not end.
LEMMA DiskKept ==
  ASSUME MigrationsInv, Execute,
         \/ Fits(mwork') /\ LegacyRows \subseteq mwork'.rows
         \/ inTx /\ Rest[at].op # "commit"
  PROVE  /\ Fits(mdisk)' /\ (LegacyRows \subseteq mdisk.rows)'
         /\ inTx' \in BOOLEAN /\ (~inTx' => mdisk' = mwork')
         /\ inTx' = (Rest[at].op # "commit" /\ (inTx \/ (Opens(Rest[at]) /\ stage # 0)))
  <1> DEFINE s == Rest[at]
  <1>1. mwork' = Ran(mwork, fk, s) /\ LegacyRows' = LegacyRows  BY ExecuteFrame
  <1>2. inTx \in BOOLEAN  BY ExecuteFrame DEF MigrationsInv
  <1>3. inTx' = (s.op # "commit" /\ (inTx \/ (Opens(s) /\ stage # 0)))
    BY <1>2 DEF Execute, Opens
  <1>4. /\ s.op = "commit" \/ ~(inTx \/ (Opens(s) /\ stage # 0)) => mdisk' = mwork'
        /\ ~(s.op = "commit" \/ ~(inTx \/ (Opens(s) /\ stage # 0))) => mdisk' = mdisk
    BY <1>1 DEF Execute
  <1>5. Fits(mdisk) /\ LegacyRows \subseteq mdisk.rows  BY DEF MigrationsInv
  <1>6. (mdisk' = mwork' /\ Fits(mwork') /\ LegacyRows \subseteq mwork'.rows) \/ mdisk' = mdisk
    BY <1>4
  <1>7. Fits(mdisk') /\ LegacyRows \subseteq mdisk'.rows
    BY <1>5, <1>6
  <1>8. Fits(mdisk)' <=> Fits(mdisk')  BY DEF Fits
  <1> QED BY <1>1, <1>3, <1>4, <1>7, <1>8

-----------------------------------------------------------------------------
(* A steady statement *)

\* What a steady statement makes of a database with every table and row
LEMMA SteadyStep ==
  ASSUME MigrationsInv, Execute, Steady(Rest[at]), WholeTables \subseteq mwork.has,
         LegacyRows \subseteq mwork.rows
  PROVE  /\ Fits(mwork)' /\ WholeTables \subseteq mwork'.has /\ LegacyRows' \subseteq mwork'.rows
         /\ mwork'.rows = mwork.rows /\ mwork'.ver = mwork.ver
         /\ mwork.has \cap Whole \subseteq mwork'.has
         /\ Rest[at].op # "dropindex" => mwork.has \subseteq mwork'.has
         /\ Rest[at].op = "ddl" /\ Rest[at].table = "none" => Rest[at].names \subseteq mwork'.has
         /\ Fits(mdisk)' /\ (LegacyRows \subseteq mdisk.rows)'
         /\ inTx' \in BOOLEAN /\ (~inTx' => mdisk' = mwork') /\ (inTx => inTx')
         /\ at' = at + 1 /\ fk' = fk /\ ~Skipped'
  <1> DEFINE s == Rest[at]
  <1>1. mwork' = Ran(mwork, fk, s) /\ LegacyRows' = LegacyRows /\ bot = "booting" /\ at' = Jump(s)
          /\ ~Skipped
        /\ stage' = stage
    BY ExecuteFrame
  <1>2. Fits(mwork)  BY <1>1 DEF MigrationsInv
  <1>3. /\ Fits(mwork') /\ WholeTables \subseteq mwork'.has
        /\ mwork'.rows = mwork.rows /\ mwork'.ver = mwork.ver
        /\ mwork.has \cap Whole \subseteq mwork'.has
        /\ Rest[at].op # "dropindex" => mwork.has \subseteq mwork'.has
        /\ Rest[at].op = "ddl" /\ Rest[at].table = "none" => Rest[at].names \subseteq mwork'.has
    BY <1>1, <1>2, SteadyRuns
  <1>4. s.op \in {"ddl", "write", "check", "dropindex"}
    BY DEF Steady, Creates, Adds, Writes, Checks, Removes
  <1>5. at' = at + 1  BY <1>1, <1>4 DEF Jump
  <1>6. fk' = fk  BY <1>4 DEF Execute
  <1>7. /\ Fits(mdisk)' /\ (LegacyRows \subseteq mdisk.rows)'
        /\ inTx' \in BOOLEAN /\ (~inTx' => mdisk' = mwork')
        /\ inTx' = (s.op # "commit" /\ (inTx \/ (Opens(s) /\ stage # 0)))
    BY <1>1, <1>3, DiskKept
  <1>8. ~Skipped'  BY <1>1, <1>3 DEF Skipped
  <1>9. Fits(mwork)' <=> Fits(mwork')  BY DEF Fits
  <1> QED BY <1>1, <1>3, <1>4, <1>5, <1>6, <1>7, <1>8, <1>9


-----------------------------------------------------------------------------
(* The end of a step *)

\* The statements depend on nothing but the stage.
LEMMA RestSame == stage' = stage => Rest' = Rest
  BY DEF Rest

\* The next statement of the stage is one of its statements.
LEMMA PositionKept ==
  ASSUME stage' = stage, stage \in 0..LastStage, at' \in 1..(Len(Rest) + 1),
         stage # 0 => mwork'.ver >= stage - 1,
         stage \in 1..CurrentVersion /\ ~Skipped' => at' <= Len(Rest)
  PROVE  PositionInv'
  <1>1. Rest' = Rest  BY RestSame
  <1> QED BY <1>1 DEF PositionInv

\* A step outside a rebuild that leaves every table and every row
LEMMA StepKept ==
  ASSUME MigrationsInv, Execute, ~Rebuilding',
         Fits(mwork'), WholeTables \subseteq mwork'.has \/ stage = 0, LegacyRows \subseteq mwork'.rows,
         fk' = TRUE, PositionInv', ProgressInv'
  PROVE  MigrationsInv'
  <1>1. UNCHANGED <<stage, bot, trouble, bootCrashes, legacy>> /\ LegacyRows' = LegacyRows
          /\ bot = "booting"
    BY ExecuteFrame
  <1>2. RebuildInv'  BY DEF RebuildInv
  <1>3. TablesInv'  BY <1>1 DEF TablesInv
  <1>4. /\ Fits(mdisk)' /\ (LegacyRows \subseteq mdisk.rows)'
        /\ inTx' \in BOOLEAN /\ (~inTx' => mdisk' = mwork')
    BY DiskKept
  <1>5. Fits(mwork)'  BY DEF Fits
  <1>6. legacy' \in FirstVersions /\ bot' = "booting"  BY <1>1 DEF MigrationsInv
  <1> QED BY <1>2, <1>3, <1>4, <1>5, <1>6 DEF MigrationsInv

\* The statement that sets the version
LEMMA SetVersionIs ==
  SetVersion.op = "version" /\ SetVersion.flag = FALSE /\ SetVersion.needs = {}
  BY DEF SetVersion, Stmt

\* The end of a migration: the columns and CHECKs of its version are there.
LEMMA VersionStep ==
  ASSUME MigrationsInv, Execute, stage \in 1..CurrentVersion, at \in Int, at = Len(Rest),
          Rest[at] = SetVersion,
         WholeTables \subseteq mwork.has, LegacyRows \subseteq mwork.rows, fk = TRUE, mwork.ver = stage - 1,
         \A n \in Whole : Since(n) = stage => n \in mwork.has
  PROVE  MigrationsInv'
  <1>1. /\ stage' = stage /\ mwork' = Ran(mwork, fk, SetVersion) /\ bot = "booting" /\ ~Skipped
        /\ at' = Jump(SetVersion) /\ Rest' = Rest
    BY ExecuteFrame, RestSame
  <1>2. Fits(mwork)  BY <1>1 DEF MigrationsInv
  <1>3. mwork' = [mwork EXCEPT !.ver = stage]  BY <1>1, SetVersionIs DEF Ran
  <1>4. mwork'.ver = stage /\ mwork'.has = mwork.has /\ mwork'.rows = mwork.rows
          /\ DOMAIN mwork' = DOMAIN mwork
    BY <1>3, <1>2 DEF Fits
  <1>5. Fits(mwork')
    <2>1. ASSUME NEW n \in Whole, Since(n) <= stage
          PROVE  n \in mwork.has
      <3>1. Since(n) \in Int /\ stage \in Int  BY SinceInt, VersionInt
      <3>2. CASE Since(n) = stage  BY <3>2
      <3>3. CASE Since(n) # stage
        <4>1. Since(n) <= mwork.ver  BY <3>1, <3>3, <2>1
        <4> QED BY <4>1, <1>2, ColumnsThere
      <3> QED BY <3>2, <3>3
    <2>2. mwork'.ver \in 0..CurrentVersion  BY <1>4 DEF CurrentVersion
    <2> QED BY <2>1, <2>2, <1>4, <1>2 DEF Fits
  <1>6. at' = at + 1 /\ fk' = TRUE  BY <1>1, SetVersionIs DEF Jump, Execute
  <1>7. Skipped'
    <2>1. stage \in Int  BY DEF CurrentVersion
    <2> QED BY <1>1, <1>4, <2>1 DEF Skipped
  <1>8. PositionInv'
    <2>1. at \in 1..(Len(Rest) + 1)  BY <1>1 DEF MigrationsInv, PositionInv
    <2>2. at' \in 1..(Len(Rest) + 1)  BY <2>1, <1>6
    <2>3. mwork'.ver >= stage - 1 /\ stage \in 0..LastStage  BY <1>4 DEF LastStage, CurrentVersion
    <2> QED BY <1>1, <1>7, <2>2, <2>3, PositionKept
  <1>9. ProgressInv' /\ ~Rebuilding'  BY <1>7 DEF ProgressInv, Rebuilding
  <1> QED BY <1>4, <1>5, <1>6, <1>8, <1>9, StepKept

\* A steady statement outside the rebuilds
LEMMA SteadyKept ==
  ASSUME MigrationsInv, Execute, Steady(Rest[at]), ~Rebuilding, stage # 0,
         at \in 1..Len(Rest), stage \in 1..CurrentVersion => at < Len(Rest), ProgressInv'
  PROVE  MigrationsInv'
  <1>1. /\ stage' = stage /\ bot = "booting" /\ ~Skipped /\ Rest' = Rest
    BY ExecuteFrame, RestSame
  <1>2. WholeTables \subseteq mwork.has /\ LegacyRows \subseteq mwork.rows /\ fk = TRUE
    BY <1>1 DEF MigrationsInv, TablesInv
  <1>3. /\ Fits(mwork)' /\ WholeTables \subseteq mwork'.has /\ LegacyRows' \subseteq mwork'.rows
        /\ mwork'.ver = mwork.ver /\ at' = at + 1 /\ fk' = fk /\ ~Skipped'
    BY <1>2, SteadyStep
  <1>4. Fits(mwork') /\ LegacyRows' = LegacyRows  BY <1>3, ExecuteFrame DEF Fits
  <1>5. PositionInv'
    <2>1. stage \in 0..LastStage /\ mwork.ver >= stage - 1  BY <1>1 DEF MigrationsInv, PositionInv
    <2>2. at' \in 1..(Len(Rest) + 1) /\ (stage \in 1..CurrentVersion => at' <= Len(Rest))
      BY <1>3
    <2> QED BY <1>1, <1>3, <2>1, <2>2, PositionKept
  <1>6. ~Rebuilding'  BY <1>1, <1>3 DEF Rebuilding
  <1> QED BY <1>2, <1>3, <1>4, <1>5, <1>6, StepKept

-----------------------------------------------------------------------------
(* A migration without a rebuild *)

\* Neither a rebuild nor the first or the last stage
LEMMA PlainStage ==
  ASSUME stage \in Plain
  PROVE  /\ stage \in 1..CurrentVersion /\ stage \notin Rebuilds \cup {9} /\ stage # 0 /\ stage # LastStage
         /\ ~Rebuilding
  BY DEF Plain, Rebuilding, LastStage, CurrentVersion

\* A start in a migration without a rebuild
LEMMA PlainNow ==
  ASSUME MigrationsInv, bot = "booting", ~Skipped, stage \in Plain
  PROVE  /\ WholeTables \subseteq mwork.has /\ LegacyRows \subseteq mwork.rows /\ fk = TRUE
         /\ \A i \in 1..(at - 1) : Rest[i].op = "ddl" /\ Rest[i].table = "none"
                                  => Rest[i].names \cap Whole \subseteq mwork.has
         /\ at \in 1..Len(Rest)
         /\ mwork.ver = stage - 1 /\ mwork.ver \in 0..CurrentVersion /\ stage \in 1..CurrentVersion
  <1>2. Fits(mwork) /\ fk \in BOOLEAN /\ PositionInv /\ TablesInv /\ ProgressInv  BY DEF MigrationsInv
  <1>3. WholeTables \subseteq mwork.has /\ LegacyRows \subseteq mwork.rows /\ fk = TRUE
    BY <1>2, PlainStage DEF TablesInv
  <1>6. \A i \in 1..(at - 1) : Rest[i].op = "ddl" /\ Rest[i].table = "none"
                             => Rest[i].names \cap Whole \subseteq mwork.has
    BY <1>2, PlainStage DEF ProgressInv
  <1>7. at \in 1..Len(Rest)  BY <1>2, PlainStage, PlainRest DEF PositionInv
  <1>8. mwork.ver = stage - 1 /\ mwork.ver \in 0..CurrentVersion /\ stage \in 1..CurrentVersion
    <2>1. mwork.ver \in 0..CurrentVersion  BY <1>2 DEF Fits
    <2>2. stage \in 1..CurrentVersion /\ stage # 0  BY PlainStage
    <2>3. mwork.ver >= stage - 1  BY <1>2, <2>2 DEF PositionInv
    <2>4. ~(mwork.ver >= stage)  BY <2>2 DEF Skipped
    <2> QED BY <2>1, <2>2, <2>3, <2>4 DEF CurrentVersion
  <1> QED BY <1>3, <1>6, <1>7, <1>8


\* SQLite accepts the statement.
LEMMA PlainAccepted ==
  ASSUME MigrationsInv, bot = "booting", ~Skipped, stage \in Plain
  PROVE  ~Rejected(mwork, Rest[at])
  <1> DEFINE s == Rest[at]  C == Chain[stage]
  <1>1. /\ WholeTables \subseteq mwork.has
        /\ \A i \in 1..(at - 1) : Rest[i].op = "ddl" /\ Rest[i].table = "none"
                                 => Rest[i].names \cap Whole \subseteq mwork.has
        /\ at \in 1..Len(Rest) /\ mwork.ver = stage - 1
        /\ mwork.ver \in 0..CurrentVersion /\ stage \in 1..CurrentVersion
    BY PlainNow
  <1>2. Sound(stage, C) /\ Fits(mwork)  BY PlainSound DEF MigrationsInv
  <1>3. CASE at = Len(C) + 1
    <2>1. s = SetVersion  BY <1>3, PlainRest
    <2> QED BY <2>1, SetVersionIs DEF Rejected
  <1>4. CASE at # Len(C) + 1
    <2>1. at \in DOMAIN C /\ s = C[at] /\ at \in 1..Len(C)  BY <1>1, <1>4, PlainRest
    <2>2. s.op \notin {"new", "begin"}
      BY <2>1, <1>2 DEF Sound, SoundKinds, Leaps, Steady, Creates, Adds, Writes, Checks, Removes
    <2>3. ASSUME NEW n \in s.needs
          PROVE  n \in mwork.has
      <3>1. n \in Whole /\ Since(n) <= stage /\ (Since(n) = stage => \E j \in 1..(at - 1) : Gains(C[j], n))
        BY <2>1, <2>3, <1>2 DEF Sound, SoundNeeds
      <3>2. CASE Since(n) = stage
        <4>1. PICK j \in 1..(at - 1) : Gains(C[j], n)  BY <3>1, <3>2
        <4>2. Rest[j] = C[j]  BY <2>1, PlainRest
        <4> QED BY <4>1, <4>2, <1>1, <3>1 DEF Gains
      <3>3. CASE Since(n) # stage
        <4>0. Since(n) \in Int /\ stage \in Int  BY <1>1, SinceInt, VersionInt
        <4>1. Since(n) <= mwork.ver
          <5>1. Since(n) <= stage /\ mwork.ver = stage - 1  BY <3>1, <1>1
          <5> QED BY <4>0, <5>1, <3>3
        <4> QED BY <4>1, <3>1, <1>1, <1>2, ColumnsThere
      <3> QED BY <3>2, <3>3
    <2> QED BY <2>2, <2>3 DEF Rejected
  <1> QED BY <1>3, <1>4


\* A statement of a migration without a rebuild keeps the invariant.
LEMMA PlainStep ==
  ASSUME MigrationsInv, Execute, stage \in Plain
  PROVE  MigrationsInv'
  <1> DEFINE s == Rest[at]  C == Chain[stage]
  <1>1. /\ stage' = stage /\ mwork' = Ran(mwork, fk, s) /\ bot = "booting" /\ ~Skipped /\ at' = Jump(s)
        /\ Rest' = Rest
    BY ExecuteFrame, RestSame
  <1>2. /\ WholeTables \subseteq mwork.has /\ LegacyRows \subseteq mwork.rows /\ fk = TRUE
        /\ mwork.ver = stage - 1 /\ stage \in 1..CurrentVersion
    BY <1>1, PlainNow
  <1>3. \A i \in 1..(at - 1) : Rest[i].op = "ddl" /\ Rest[i].table = "none"
                             => Rest[i].names \cap Whole \subseteq mwork.has
    BY <1>1, PlainNow
  <1>4. at \in 1..Len(Rest)  BY <1>1, PlainNow
  <1>5. Sound(stage, C)  BY PlainSound
  <1>6. stage' \in Plain /\ ~Rebuilding' /\ ~Rebuilding
    BY <1>1, PlainStage DEF Rebuilding
  <1>7. CASE at = Len(C) + 1
    <2>1. at = Len(Rest) /\ s = SetVersion /\ at \in Int  BY <1>4, <1>7, PlainRest
    <2>2. ASSUME NEW n \in Whole, Since(n) = stage
          PROVE  n \in mwork.has
      <3>1. PICK i \in DOMAIN C : Gains(C[i], n)  BY <2>2, <1>5 DEF Sound, SoundGains
      <3>2. i \in 1..(at - 1) /\ Rest[i] = C[i]  BY <1>7, PlainRest
      <3> QED BY <3>1, <3>2, <1>3, <2>2 DEF Gains
    <2> QED BY <1>2, <2>1, <2>2, VersionStep
  <1>8. CASE at # Len(C) + 1
    <2>1. at \in 1..Len(C) /\ at \in DOMAIN C /\ s = C[at] /\ at < Len(Rest)  BY <1>4, <1>8, PlainRest
    <2>2. CASE Steady(s)
      <3>1. /\ mwork.has \cap Whole \subseteq mwork'.has /\ at' = at + 1
            /\ s.op = "ddl" /\ s.table = "none" => s.names \subseteq mwork'.has
        BY <1>2, <2>2, SteadyStep
      <3>2. \A i \in 1..(at' - 1) : Rest'[i].op = "ddl" /\ Rest'[i].table = "none"
                                  => Rest'[i].names \cap Whole \subseteq mwork'.has
        BY <1>1, <1>3, <1>4, <3>1
      <3>3. ProgressInv'  BY <1>6, <1>1, <3>2, PlainStage DEF ProgressInv
      <3> QED BY <1>4, <1>6, <2>1, <2>2, <3>3, PlainStage, SteadyKept
    <2>3. CASE Leaps(C, at)
      <3>1. mwork' = mwork  BY <1>1, <2>1, <2>3 DEF Leaps, Ran
      <3>2. fk' = fk  BY <2>1, <2>3 DEF Leaps, Execute
      <3>3. Fits(mwork') /\ ~Skipped'  BY <1>1, <3>1 DEF Fits, Skipped, MigrationsInv
      <3>5. \/ at' = at + 1
            \/ at' = Len(C) + 1 /\ s.names \subseteq mwork.has
        BY <1>1, PlainRest DEF Jump
      <3>6. PositionInv'
        <4>1. at' \in 1..Len(Rest)  BY <2>1, <3>5, PlainRest
        <4>2. mwork'.ver >= stage - 1 /\ stage \in 0..LastStage  BY <1>2, <3>1 DEF LastStage, CurrentVersion
        <4>3. at' \in 1..(Len(Rest) + 1) /\ at' <= Len(Rest)  BY <4>1, PlainRest
        <4> QED BY <1>1, <4>2, <4>3, PositionKept
      <3>7. ASSUME NEW i \in 1..(at' - 1), Rest[i].op = "ddl", Rest[i].table = "none"
            PROVE  Rest[i].names \cap Whole \subseteq mwork.has
        <4>1. CASE i <= at - 1  BY <4>1, <1>3, <1>4, <3>7, <3>5, <2>1, PlainRest
        <4>2. CASE i = at  BY <4>2, <2>1, <2>3, <3>7 DEF Leaps
        <4>3. CASE i > at
          <5>1. at' = Len(C) + 1 /\ s.names \subseteq mwork.has  BY <4>3, <3>5, <1>4
          <5>2. i \in DOMAIN C /\ Rest[i] = C[i]  BY <5>1, <4>3, <2>1, <3>7, PlainRest
          <5>3. Rest[i].names = s.names  BY <5>2, <4>3, <2>1, <2>3, <3>7 DEF Leaps
          <5> QED BY <5>1, <5>3
        <4>4. i \in Int /\ at \in Int  BY <1>4, <3>5, <2>1, PlainRest
        <4> QED BY <4>1, <4>2, <4>3, <4>4
      <3>8. ProgressInv'  BY <1>6, <1>1, <3>1, <3>7, PlainStage DEF ProgressInv
      <3> QED BY <1>2, <1>6, <3>1, <3>2, <3>3, <3>6, <3>8, StepKept
    <2> QED BY <2>1, <2>2, <2>3, <1>5 DEF Sound, SoundKinds
  <1> QED BY <1>7, <1>8


-----------------------------------------------------------------------------
(* Stage 0 *)

\* Stage 0 is no rebuild.
LEMMA BaseStage ==
  ASSUME stage = 0
  PROVE  ~Skipped /\ ~Rebuilding /\ stage \notin 1..CurrentVersion /\ stage \in 0..LastStage
  BY SMTT(30) DEF Skipped, Rebuilding, Rebuilds, LastStage, CurrentVersion

\* schema.sql needs nothing.
LEMMA BaseAccepted ==
  ASSUME stage = 0, at \in 1..23
  PROVE  ~Rejected(mwork, Rest[at])
  BY BaseRest, TablesAre DEF Rejected


\* A statement of schema.sql keeps the invariant.
LEMMA BaseStep ==
  ASSUME MigrationsInv, Execute, stage = 0
  PROVE  MigrationsInv'
  <1> DEFINE s == Rest[at]
  <1>1. /\ stage' = stage /\ LegacyRows' = LegacyRows
        /\ mwork' = Ran(mwork, fk, s) /\ bot = "booting" /\ at' = Jump(s) /\ Rest' = Rest
    BY ExecuteFrame, RestSame
  <1>2. /\ Fits(mwork) /\ fk \in BOOLEAN /\ PositionInv /\ TablesInv /\ ProgressInv
    BY <1>1 DEF MigrationsInv
  <1>3. LegacyRows \subseteq mwork.rows /\ fk = TRUE  BY <1>2, BaseStage DEF TablesInv
  <1>4. /\ ~Rebuilding' /\ ~Skipped' /\ stage' = 0
    BY <1>1, BaseStage DEF Rebuilding, Rebuilds, Skipped
  <1>5. at \in 1..23 /\ s = Tables[at]
    <2>0. Len(Rest) = 23 /\ \A i \in 1..23 : Rest[i] = Tables[i]  BY BaseRest
    <2>1. at \in 1..24
      <3>1. at \in 1..(Len(Rest) + 1)  BY <1>2 DEF PositionInv
      <3> QED BY <3>1, <2>0
    <2>2. at <= Len(Rest)  BY DEF Execute
    <2>3. at \in 1..23  BY <2>0, <2>1, <2>2, SMTT(30)
    <2> QED BY <2>0, <2>3
  <1>6. s.op = "ddl" /\ s.flag = TRUE /\ s.table # "none"  BY <1>5, TablesAre
  <1>7. at' = at + 1 /\ fk' = fk  BY <1>1, <1>6 DEF Jump, Execute
  <1>8. /\ mwork'.rows = mwork.rows /\ mwork.has \subseteq mwork'.has
        /\ <<s.table, "table">> \in mwork'.has /\ Fits(mwork')
    <2>1. CASE NoStatement(mwork, s)
      <3>1. mwork' = mwork  BY <2>1, <1>1, <1>6 DEF Ran
      <3>2. <<s.table, "table">> \in mwork.has  BY <2>1, <1>6, OfTable DEF NoStatement
      <3> QED BY <3>1, <3>2, <1>2
    <2>2. CASE ~NoStatement(mwork, s)
      <3>1. mwork' = [mwork EXCEPT !.has = mwork.has \cup s.names]  BY <2>2, <1>1, <1>6 DEF Ran
      <3>2. /\ mwork'.has = mwork.has \cup s.names /\ mwork'.rows = mwork.rows /\ mwork'.ver = mwork.ver
            /\ DOMAIN mwork' = DOMAIN mwork
        BY <3>1, <1>2 DEF Fits
      <3>3. ASSUME NEW n \in Whole, NEW m \in s.names, n[1] = m[1]
            PROVE  n \in mwork'.has
        <4>1. n[1] = Tables[at].table  BY <3>3, <1>5, TablesAre
        <4> QED BY <4>1, <1>5, <3>2, WholeColumns, SMTT(30)
      <3>4. ASSUME NEW n \in Whole, Since(n) <= mwork'.ver, <<n[1], "table">> \in mwork'.has
            PROVE  n \in mwork'.has
        <4>1. CASE <<n[1], "table">> \in mwork.has
          <5>1. n \in mwork.has  BY <4>1, <3>4, <3>2, <1>2 DEF Fits
          <5> QED BY <5>1, <3>2
        <4>2. CASE <<n[1], "table">> \in s.names
          <5>1. n[1] = <<n[1], "table">>[1]  OBVIOUS
          <5> QED BY <5>1, <4>2, <3>3
        <4> QED BY <4>1, <4>2, <3>2, <3>4
      <3>5. <<"announcement_batches", "scheduled_at">> \in mwork'.has
            => <<"announcement_batches", "CHECK_scheduled">> \in mwork'.has
        <4>1. CASE <<"announcement_batches", "scheduled_at">> \in mwork.has
          BY <4>1, <3>2, <1>2 DEF Fits
        <4>2. CASE <<"announcement_batches", "scheduled_at">> \in s.names
          <5>1. <<"announcement_batches", "scheduled_at">>[1]
                  = <<"announcement_batches", "CHECK_scheduled">>[1]
            OBVIOUS
          <5> QED BY <5>1, <4>2, <3>3, ScheduledWhole
        <4> QED BY <4>1, <4>2, <3>2
      <3>6. <<s.table, "table">> \in s.names  BY <1>5, TablesAre
      <3>7. mwork'.ver \in 0..CurrentVersion /\ DOMAIN mwork' = {"ver", "has", "rows"}
        BY <3>2, <1>2 DEF Fits
      <3> QED BY <3>2, <3>4, <3>5, <3>6, <3>7 DEF Fits
    <2> QED BY <2>1, <2>2
  <1>9. PositionInv'
    <2>0. Len(Rest) = 23  BY BaseRest
    <2>1. at' \in 1..(Len(Rest) + 1)
      <3>1. at \in 1..23 /\ at' = at + 1  BY <1>5, <1>7
      <3> QED BY <3>1, <2>0
    <2> QED BY <2>1, <1>1, <1>4, BaseStage, PositionKept
  <1>10. ProgressInv'
    <2>1. \A i \in 1..(at - 1) : <<Tables[i].table, "table">> \in mwork.has
      BY <1>2, BaseStage DEF ProgressInv
    <2>2. \A i \in 1..(at' - 1) : <<Tables[i].table, "table">> \in mwork'.has
      <3>1. at \in 1..23 /\ at' = at + 1  BY <1>5, <1>7
      <3>2. TAKE i \in 1..(at' - 1)
      <3>3. i = at \/ i \in 1..(at - 1)  BY <3>1
      <3> QED BY <3>3, <2>1, <1>5, <1>8
    <2>3. stage' \notin 1..CurrentVersion /\ stage' # 9 /\ stage' # LastStage
        BY <1>4 DEF LastStage, CurrentVersion
    <2> QED BY <2>2, <2>3, <1>4 DEF ProgressInv
  <1> QED BY <1>3, <1>4, <1>7, <1>8, <1>9, <1>10, StepKept

-----------------------------------------------------------------------------
(* Stage 9: only the proxy table of version 8 would have anything to migrate. *)

\* The places of v9,
LEMMA NineLength == stage = 9 => Len(Rest) = 12 /\ Len(Chain[9]) = 9 /\ Len(Statements(9)) = 9
  BY NineRest

\* its guard
LEMMA NineFirst == stage = 9 => Rest[1] = UnlessHas("proxy_accesses", "CHECK_revoke_failed")
  BY NineRest

\* and its end
LEMMA NineLast == stage = 9 => Rest[12] = SetVersion
  BY NineRest

\* A guard as a statement
LEMMA UnlessIs ==
  ASSUME NEW t, NEW c
  PROVE  /\ UnlessHas(t, c).op = "unless" /\ UnlessHas(t, c).flag = FALSE /\ UnlessHas(t, c).needs = {}
         /\ UnlessHas(t, c).names = {<<t, c>>}
  <1>1. Of(t, {c}) = {<<t, c>>}  BY DEF Of
  <1> QED BY <1>1 DEF UnlessHas, Stmt

\* Only the guard and the end of v9 are ever run.
LEMMA NineAt ==
  ASSUME stage = 9, at \in {10, 11}
  PROVE  Steady(Rest[at]) /\ Rest[at].op = "ddl" /\ \A n \in Rest[at].needs : n \in Whole /\ Since(n) = 0
  <1> DEFINE st == Rest[at]
  <1>1. Rest[10] = ProxyIndexes[1] /\ Rest[11] = ProxyIndexes[2]  BY NineRest
  <1>2. st = ProxyIndexes[1] \/ st = ProxyIndexes[2]  BY <1>1
  <1> HIDE DEF st
  <1>3. Steady(st) /\ st.op = "ddl" /\ \A n \in st.needs : n \in Whole /\ Since(n) = 0  BY <1>2, NineIndexes
  <1> QED BY <1>3 DEF st

\* A start in v9
LEMMA NineNow ==
  ASSUME MigrationsInv, bot = "booting", ~Skipped, stage = 9
  PROVE  /\ WholeTables \subseteq mwork.has /\ LegacyRows \subseteq mwork.rows /\ fk = TRUE
         /\ at \in {1, 10, 11, 12} /\ mwork.ver = stage - 1 /\ Fits(mwork)
         /\ ~Rebuilding /\ stage \in 1..CurrentVersion
  <1>1. Fits(mwork) /\ fk \in BOOLEAN /\ PositionInv /\ TablesInv /\ ProgressInv  BY DEF MigrationsInv
  <1>2. stage \in 1..CurrentVersion /\ ~Rebuilding /\ stage # 0  BY DEF CurrentVersion, Rebuilding, Rebuilds
  <1>3. WholeTables \subseteq mwork.has /\ LegacyRows \subseteq mwork.rows /\ fk = TRUE
    BY <1>1, <1>2 DEF TablesInv
  <1>4. at \in {1, 10, 11, 12}
    <2>0. Len(Rest) = 12 /\ Len(Chain[9]) = 9  BY NineLength
    <2>1. at \in 1..(Len(Rest) + 1) /\ at <= Len(Rest)  BY <1>1, <1>2 DEF PositionInv
    <2>2. at \in 1..12  BY <2>0, <2>1
    <2>3. at = 1 \/ at > 9  BY <1>1, <2>0 DEF ProgressInv
    <2> QED BY <2>1, <2>2, <2>3
  <1>5. mwork.ver = stage - 1
    <2>1. mwork.ver \in 0..CurrentVersion  BY <1>1 DEF Fits
    <2>2. mwork.ver >= stage - 1  BY <1>1, <1>2 DEF PositionInv
    <2>3. ~(mwork.ver >= stage)  BY <1>2 DEF Skipped
    <2> QED BY <2>1, <2>2, <2>3 DEF CurrentVersion
  <1> QED BY <1>1, <1>2, <1>3, <1>4, <1>5

\* Both are accepted.
LEMMA NineAccepted ==
  ASSUME MigrationsInv, bot = "booting", ~Skipped, stage = 9
  PROVE  ~Rejected(mwork, Rest[at])
  <1>1. WholeTables \subseteq mwork.has /\ at \in {1, 10, 11, 12} /\ mwork.ver = 8 /\ Fits(mwork)
    BY NineNow
  <1>2. CASE at = 1
    <2>1. Rest[at] = UnlessHas("proxy_accesses", "CHECK_revoke_failed")  BY <1>2, NineFirst
    <2> DEFINE u == UnlessHas("proxy_accesses", "CHECK_revoke_failed")
    <2>2. u.op = "unless" /\ u.flag = FALSE /\ u.needs = {}  BY UnlessIs
    <2> HIDE DEF u
    <2>3. ~Rejected(mwork, u)  BY <2>2 DEF Rejected
    <2> QED BY <2>1, <2>3, Zenon DEF u
  <1>3. CASE at \in {10, 11}
    <2>1. Rest[at].needs \subseteq mwork.has
      <3>1. ASSUME NEW n \in Rest[at].needs PROVE n \in mwork.has
        <4>0. n \in Whole /\ Since(n) = 0  BY <1>3, <3>1, NineAt
        <4>1. Since(n) <= mwork.ver  BY <1>1, <4>0
        <4> QED BY <4>0, <4>1, <1>1, ColumnsThere
      <3> QED BY <3>1
    <2>2. Rest[at].op = "ddl"  BY <1>3, NineAt
    <2> QED BY <2>1, <2>2 DEF Rejected
  <1>4. CASE at = 12  BY <1>4, NineLast, SetVersionIs DEF Rejected
  <1> QED BY <1>1, <1>2, <1>3, <1>4

\* Past its own statements v9 has only its indexes to run.
LEMMA NineProgress ==
  ASSUME stage' = 9, at' > 9
  PROVE  ProgressInv'
  <1>1. Len(Chain[9]) = 9
    <2>1. Len(MigrateProxiesV9) = 9  BY NineLong
    <2> QED BY <2>1 DEF Chain
  <1>2. stage' # 0 /\ stage' # LastStage /\ stage' \notin 1..CurrentVersion \ (Rebuilds \cup {9})
    BY DEF LastStage, CurrentVersion, Rebuilds
  <1>3. at' > Len(Chain[9])  BY <1>1
  <1> QED BY <1>2, <1>3 DEF ProgressInv

\* A statement of v9 keeps the invariant.
LEMMA NineStep ==
  ASSUME MigrationsInv, Execute, stage = 9
  PROVE  MigrationsInv'
  <1>1. /\ stage' = stage /\ mwork' = Ran(mwork, fk, Rest[at]) /\ bot = "booting" /\ ~Skipped
        /\ at' = Jump(Rest[at]) /\ Rest' = Rest
    BY ExecuteFrame, RestSame
  <1>2. /\ WholeTables \subseteq mwork.has /\ LegacyRows \subseteq mwork.rows /\ fk = TRUE
        /\ at \in {1, 10, 11, 12} /\ mwork.ver = stage - 1 /\ Fits(mwork)
        /\ ~Rebuilding /\ stage \in 1..CurrentVersion
    BY <1>1, NineNow
  <1>3. CASE at = 1
    <2> DEFINE n == <<"proxy_accesses", "CHECK_revoke_failed">>
    <2>0. Rest[at] = UnlessHas("proxy_accesses", "CHECK_revoke_failed")  BY <1>3, NineFirst
    <2>1. Rest[at].op = "unless" /\ Rest[at].names = {n}
      <3> DEFINE u == UnlessHas("proxy_accesses", "CHECK_revoke_failed")
      <3>1. u.op = "unless" /\ u.names = {n}  BY UnlessIs
      <3> QED BY <2>0, <3>1, Zenon
    <2>2. mwork' = mwork /\ fk' = fk  BY <1>1, <2>1 DEF Ran, Execute
    <2>3. n \in mwork.has
      <3>0. n \in Whole /\ Since(n) = 0  BY NeverNine
      <3>1. Since(n) <= mwork.ver
        <4>1. mwork.ver = 8  BY <1>2
        <4>2. 0 <= 8  OBVIOUS
        <4>3. Since(n) <= 8  BY <3>0, <4>2, Zenon
        <4> QED BY <4>1, <4>3, Zenon
      <3> QED BY <3>0, <3>1, <1>2, ColumnsThere
    <2>4. at' = 10
      <3>1. at' = Len(Statements(stage)) + 1  BY <1>1, <2>1, <2>3 DEF Jump
      <3>2. Len(Statements(stage)) + 1 = 10
        <4>1. Len(Statements(9)) = 9  BY NineLength
        <4> DEFINE l == Len(Statements(9))
        <4>2. l = 9  BY <4>1
        <4> HIDE DEF l
        <4>3. l + 1 = 10  BY <4>2
        <4> QED BY <4>3, Zenon DEF l
      <3> QED BY <3>1, <3>2, Zenon
    <2>5. Fits(mwork') /\ ~Skipped' /\ ~Rebuilding'
      BY <1>1, <1>2, <2>2 DEF Fits, Skipped, Rebuilding
    <2>6. PositionInv'
      <3>0. Len(Rest) = 12  BY NineLength
      <3>1. at' \in 1..(Len(Rest) + 1) /\ at' <= Len(Rest)  BY <2>4, <3>0
      <3>2. mwork'.ver >= stage - 1 /\ stage \in 0..LastStage  BY <1>2, <2>2 DEF LastStage, CurrentVersion
      <3> QED BY <1>1, <3>1, <3>2, PositionKept
    <2>7. ProgressInv'  BY <1>1, <2>4, NineProgress
    <2> QED BY <1>2, <2>2, <2>5, <2>6, <2>7, StepKept
  <1>4. CASE at \in {10, 11}
    <2>0. Len(Rest) = 12  BY NineLength
    <2>1. /\ at \in 1..Len(Rest) /\ at < Len(Rest)  BY <1>4, <2>0
    <2>4. Steady(Rest[at])  BY <1>4, NineAt
    <2>2. at' = at + 1  BY <1>2, <2>4, SteadyStep
    <2>3. ProgressInv'
      <3>1. at' > 9  BY <1>4, <2>2
      <3> QED BY <3>1, <1>1, NineProgress
    <2>5. stage # 0  OBVIOUS
    <2> QED BY <1>2, <2>1, <2>3, <2>4, <2>5, SteadyKept
  <1>5. CASE at = 12
    <2>1. \A n \in Whole : Since(n) = stage => n \in mwork.has  BY NeverNine
    <2>2. Rest[at] = SetVersion  BY <1>5, NineLast
    <2>3. at = Len(Rest) /\ at \in Int
      <3>1. Len(Rest) = 12  BY NineLength
      <3> QED BY <3>1, <1>5
    <2> QED BY <1>2, <2>1, <2>2, <2>3, VersionStep
  <1> QED BY <1>2, <1>3, <1>4, <1>5

-----------------------------------------------------------------------------
(* The validations and indexes.sql *)

\* The last stage has 41 statements,
LEMMA LastLength == stage = LastStage => Len(Rest) = 41
  BY LastRest

\* COMMIT the last of them.
LEMMA LastCommit == stage = LastStage => Rest[41] = Commit
  BY LastRest

\* COMMIT as a statement
LEMMA CommitIs == Commit.op = "commit" /\ Commit.flag = FALSE /\ Commit.needs = {}
  BY DEF Commit, Stmt

\* A start in the last stage has the whole schema.
LEMMA LastNow ==
  ASSUME MigrationsInv, bot \in {"booting", "up"}, stage = LastStage
  PROVE  /\ ~Skipped /\ ~Rebuilding /\ stage # 0 /\ stage \notin 1..CurrentVersion /\ stage \in 0..LastStage
         /\ WholeTables \subseteq mwork.has /\ LegacyRows \subseteq mwork.rows /\ fk = TRUE
         /\ at \in 1..42 /\ mwork.ver = 40 /\ Whole \subseteq mwork.has /\ Fits(mwork)
         /\ \A i \in 1..(at - 1) : Rest[i].op = "ddl" => Rest[i].names \subseteq mwork.has
         /\ at = 42 => ~inTx
  <1>1. /\ Fits(mwork) /\ fk \in BOOLEAN /\ PositionInv /\ TablesInv /\ ProgressInv  BY DEF MigrationsInv
  <1>2. /\ ~Skipped /\ ~Rebuilding /\ stage # 0 /\ stage \notin 1..CurrentVersion /\ stage \in 0..LastStage
    BY DEF LastStage, CurrentVersion, Skipped, Rebuilding, Rebuilds
  <1>3. WholeTables \subseteq mwork.has /\ LegacyRows \subseteq mwork.rows /\ fk = TRUE
    BY <1>1, <1>2 DEF TablesInv
  <1>4. mwork.ver = 40
    <2>1. mwork.ver \in 0..CurrentVersion  BY <1>1 DEF Fits
    <2>2. mwork.ver >= stage - 1  BY <1>1, <1>2 DEF PositionInv
    <2> QED BY <2>1, <2>2 DEF CurrentVersion, LastStage
  <1>5. Whole \subseteq mwork.has
    <2>1. \A n \in Whole : Since(n) \in 0..40  BY SinceRange DEF CurrentVersion
    <2>2. \A n \in Whole : Since(n) <= mwork.ver  BY <2>1, <1>4
    <2> QED BY <2>2, <1>1, <1>3, ColumnsThere
  <1>6. at \in 1..42
    <2>1. at \in 1..(Len(Rest) + 1)  BY <1>1 DEF PositionInv
    <2>2. Len(Rest) = 41  BY LastLength
    <2> QED BY <2>1, <2>2
  <1>7. /\ \A i \in 1..(at - 1) : Rest[i].op = "ddl" => Rest[i].names \subseteq mwork.has
        /\ at > Len(Rest) => ~inTx
    BY <1>1, <1>2 DEF ProgressInv
  <1>8. at = 42 => ~inTx
    <2>1. Len(Rest) = 41  BY LastLength
    <2> QED BY <2>1, <1>7
  <1> QED BY <1>1, <1>2, <1>3, <1>4, <1>5, <1>6, <1>7, <1>8

\* Its statements are accepted.
LEMMA LastAccepted ==
  ASSUME MigrationsInv, bot = "booting", at <= Len(Rest), stage = LastStage
  PROVE  ~Rejected(mwork, Rest[at])
  <1>1. Whole \subseteq mwork.has /\ at \in 1..42  BY LastNow
  <1>2. at \in 1..41
    <2>1. Len(Rest) = 41  BY LastLength
    <2> QED BY <2>1, <1>1
  <1>3. CASE at = 41  BY <1>3, LastCommit, CommitIs DEF Rejected
  <1>4. CASE at \in 1..40
    <2>1. Rest[at].needs \subseteq mwork.has  BY <1>1, <1>4, LastRest, ZenonT(40)
    <2>2. Rest[at].op \notin {"new", "begin"}
      BY <1>4, LastRest, ZenonT(40) DEF Steady, Creates, Adds, Writes, Checks, Removes
    <2> QED BY <2>1, <2>2 DEF Rejected
  <1> QED BY <1>2, <1>3, <1>4

\* A statement of the last stage keeps the invariant.
LEMMA LastStep ==
  ASSUME MigrationsInv, Execute, stage = LastStage
  PROVE  MigrationsInv'
  <1>1. /\ stage' = stage /\ mwork' = Ran(mwork, fk, Rest[at]) /\ bot = "booting"
        /\ at' = Jump(Rest[at]) /\ Rest' = Rest
    BY ExecuteFrame, RestSame
  <1>2. /\ ~Rebuilding /\ stage # 0 /\ stage \notin 1..CurrentVersion /\ stage \in 0..LastStage
        /\ WholeTables \subseteq mwork.has /\ LegacyRows \subseteq mwork.rows /\ fk = TRUE
        /\ at \in 1..42 /\ mwork.ver = 40 /\ Fits(mwork)
        /\ \A i \in 1..(at - 1) : Rest[i].op = "ddl" => Rest[i].names \subseteq mwork.has
    BY <1>1, LastNow
  <1>3. at \in 1..41
    <2>1. Len(Rest) = 41 /\ at <= Len(Rest)  BY LastLength DEF Execute
    <2>2. at \in 1..42  BY <1>2
    <2> QED BY <2>1, <2>2
  <1>4. stage' \notin 1..CurrentVersion /\ stage' # 0 /\ stage' # 9  BY <1>1, <1>2 DEF CurrentVersion
  <1>5. CASE at = 41
    <2>1. Rest[at] = Commit  BY <1>5, LastCommit
    <2>2. mwork' = mwork /\ fk' = fk /\ at' = 42 /\ ~inTx'
      BY <1>1, <1>5, <2>1, CommitIs DEF Ran, Execute, Jump
    <2>3. Fits(mwork') /\ ~Rebuilding'  BY <1>1, <1>2, <2>2 DEF Fits, Rebuilding, Skipped
    <2>4. PositionInv'
      <3>0. Len(Rest) = 41  BY LastLength
      <3>1. at' \in 1..(Len(Rest) + 1)  BY <2>2, <3>0
      <3>2. mwork'.ver >= stage - 1  BY <1>2, <2>2 DEF LastStage, CurrentVersion
      <3> QED BY <1>1, <1>2, <3>1, <3>2, PositionKept
    <2>5. \A i \in 1..(at' - 1) : Rest'[i].op = "ddl" => Rest'[i].names \subseteq mwork'.has
      <3>1. TAKE i \in 1..(at' - 1)
      <3>2. i = 41 \/ i \in 1..(at - 1)  BY <1>5, <2>2
      <3> QED BY <3>2, <1>1, <1>2, <2>2, LastCommit, CommitIs
    <2>6. ProgressInv'  BY <1>4, <2>2, <2>5 DEF ProgressInv
    <2> QED BY <1>2, <2>2, <2>3, <2>4, <2>6, StepKept
  <1>6. CASE at \in 1..40
    <2>1. Steady(Rest[at]) /\ Rest[at].op # "dropindex" /\ (Rest[at].op = "ddl" => Rest[at].table = "none")
      BY <1>6, LastRest
    <2>6. at \in 1..Len(Rest)
      <3>1. Len(Rest) = 41  BY LastLength
      <3> QED BY <3>1, <1>6
    <2>2. /\ at' = at + 1 /\ mwork.has \subseteq mwork'.has
          /\ Rest[at].op = "ddl" => Rest[at].names \subseteq mwork'.has
      BY <1>2, <2>1, SteadyStep
    <2>3. \A i \in 1..(at' - 1) : Rest'[i].op = "ddl" => Rest'[i].names \subseteq mwork'.has
      <3>1. TAKE i \in 1..(at' - 1)
      <3>2. i = at \/ i \in 1..(at - 1)  BY <1>6, <2>2
      <3> QED BY <3>2, <1>1, <1>2, <2>2
    <2>4. ~(at' > Len(Rest'))
      <3>1. Len(Rest) = 41  BY LastLength
      <3>2. at' <= 41  BY <1>6, <2>2
      <3>3. ~(at' > 41)  BY <3>2, <1>6, <2>2
      <3>4. Len(Rest') = 41  BY <3>1, <1>1, Zenon
      <3> QED BY <3>3, <3>4, Zenon
    <2>5. ProgressInv'  BY <1>4, <2>3, <2>4 DEF ProgressInv
    <2> QED BY <1>2, <2>1, <2>5, <2>6, SteadyKept
  <1> QED BY <1>3, <1>5, <1>6

-----------------------------------------------------------------------------
(* The rebuilds *)

\* Which places there are
LEMMA Places ==
  ASSUME NEW s \in Rebuilds, NEW p \in Int, p >= 1 - Rebuilt(s).begin, p <= LastPlace(s),
         NEW n, n = Rebuilt(s).n
  PROVE  \/ s # 17 /\ p = 1 - Rebuilt(s).begin /\ p = (IF s = 36 THEN -2 ELSE -3)
         \/ p = (IF s = 36 THEN -1 ELSE -2)
         \/ s # 36 /\ p = -1
         \/ p \in {0, 1, n + 2, n + 3, n + 4, n + 5, 2 * n + 6}
         \/ p \in 2..(n + 1) \/ p \in (n + 6)..(2 * n + 5)
         \/ s # 36 /\ p = 2 * n + 7
         \/ s = 29 /\ p = 2 * n + 8
         \/ p = LastPlace(s)
  <1>1. s = 16 \/ s = 17 \/ s = 29 \/ s = 36  BY RebuildsAre
  <1>2. CASE s = 16
    <2>1. n = 2 /\ Rebuilt(s).begin = 4 /\ LastPlace(s) = 12  BY <1>2, RebuiltAt, LastPlaceIs
    <2> QED BY <1>2, <2>1
  <1>3. CASE s = 17
    <2>1. n = 2 /\ Rebuilt(s).begin = 3 /\ LastPlace(s) = 12  BY <1>3, RebuiltAt, LastPlaceIs
    <2> QED BY <1>3, <2>1
  <1>4. CASE s = 29
    <2>1. n = 10 /\ Rebuilt(s).begin = 4 /\ LastPlace(s) = 29  BY <1>4, RebuiltAt, LastPlaceIs
    <2> QED BY <1>4, <2>1
  <1>5. CASE s = 36
    <2>1. n = 2 /\ Rebuilt(s).begin = 3 /\ LastPlace(s) = 11  BY <1>5, RebuiltAt, LastPlaceIs
    <2> QED BY <1>5, <2>1
  <1> QED BY <1>1, <1>2, <1>3, <1>4, <1>5

\* DROP TABLE as a statement
LEMMA DropIs ==
  ASSUME NEW t
  PROVE  /\ DropIfExists(t).op = "drop" /\ DropIfExists(t).table = t /\ DropIfExists(t).flag = FALSE
         /\ DropIfExists(t).needs = {}
         /\ Drop(t).op = "drop" /\ Drop(t).table = t /\ Drop(t).flag = FALSE
         /\ Drop(t).needs = {<<t, "table">>}
  BY OfTable DEF DropIfExists, Drop, Stmt

\* CREATE TABLE of the copy as a statement
LEMMA CreateNewIs ==
  ASSUME NEW t, NEW cols
  PROVE  /\ CreateNew(t, cols).op = "new" /\ CreateNew(t, cols).flag = FALSE
          /\ CreateNew(t, cols).needs = {}
         /\ CreateNew(t, cols).names = Of(t, cols \cup {"table"})
  BY DEF CreateNew, Stmt

\* BEGIN as a statement
LEMMA BeginIs == Begin.op = "begin" /\ Begin.flag = FALSE /\ Begin.needs = {}
  BY DEF Begin, Stmt

\* PRAGMA foreign_keys as a statement
LEMMA PragmaIs ==
  ASSUME NEW on
  PROVE  Pragma(on).op = "pragma" /\ Pragma(on).flag = on /\ Pragma(on).needs = {}
  BY DEF Pragma, Stmt

\* A statement that touches no name of today's schema
LEMMA FitsSame ==
  ASSUME NEW db, Fits(db), NEW d, DOMAIN d = DOMAIN db, d.ver = db.ver,
         \A x \in Whole : x \in d.has <=> x \in db.has
  PROVE  Fits(d)
  <1>1. /\ DOMAIN db = {"ver", "has", "rows"} /\ db.ver \in 0..CurrentVersion
        /\ \A n \in Whole : Since(n) <= db.ver /\ <<n[1], "table">> \in db.has => n \in db.has
        /\ <<"announcement_batches", "scheduled_at">> \in db.has
              => <<"announcement_batches", "CHECK_scheduled">> \in db.has
    BY DEF Fits
  <1>2. ASSUME NEW n \in Whole, Since(n) <= d.ver, <<n[1], "table">> \in d.has
        PROVE  n \in d.has
    <2>1. <<n[1], "table">> \in Whole  BY WholeHasTable, WholeTablesWhole
    <2>2. <<n[1], "table">> \in db.has  BY <2>1, <1>2
    <2>3. Since(n) <= db.ver  BY <1>2
    <2>4. n \in db.has  BY <2>2, <2>3, <1>1
    <2> QED BY <2>4
  <1>3. <<"announcement_batches", "scheduled_at">> \in d.has
        => <<"announcement_batches", "CHECK_scheduled">> \in d.has
    BY <1>1, ScheduledWhole
  <1> QED BY <1>1, <1>2, <1>3 DEF Fits

\* What the statements of a rebuild leave of a database
LEMMA RanDrop ==
  ASSUME NEW db, Fits(db), NEW e, NEW s, s.op = "drop"
  PROVE  /\ DOMAIN Ran(db, e, s) = DOMAIN db /\ Ran(db, e, s).ver = db.ver
         /\ Ran(db, e, s).has = { n \in db.has : n[1] # s.table }
         /\ Ran(db, e, s).rows
              = (db.rows \ {s.table}) \ (IF e /\ s.table \in db.rows THEN Cascade(s.table) ELSE {})
  <1> DEFINE h == { n \in db.has : n[1] # s.table }
             rows == (db.rows \ {s.table}) \ (IF e /\ s.table \in db.rows THEN Cascade(s.table) ELSE {})
  <1>1. Ran(db, e, s) = [db EXCEPT !.has = h, !.rows = rows]  BY DEF Ran
  <1> HIDE DEF h, rows
  <1>2. DOMAIN db = {"ver", "has", "rows"}  BY DEF Fits
  <1>3. /\ DOMAIN Ran(db, e, s) = DOMAIN db /\ Ran(db, e, s).ver = db.ver
        /\ Ran(db, e, s).has = h /\ Ran(db, e, s).rows = rows
    BY <1>1, <1>2
  <1> QED BY <1>3 DEF h, rows

\* CREATE TABLE of the copy
LEMMA RanNew ==
  ASSUME NEW db, Fits(db), NEW e, NEW s, s.op = "new"
  PROVE  /\ DOMAIN Ran(db, e, s) = DOMAIN db /\ Ran(db, e, s).ver = db.ver
         /\ Ran(db, e, s).has = db.has \cup s.names /\ Ran(db, e, s).rows = db.rows
  <1>1. Ran(db, e, s) = [db EXCEPT !.has = db.has \cup s.names]  BY DEF Ran
  <1>2. DOMAIN db = {"ver", "has", "rows"}  BY DEF Fits
  <1> QED BY <1>1, <1>2

\* INSERT INTO the copy
LEMMA RanCopy ==
  ASSUME NEW db, Fits(db), NEW e, NEW s, s.op = "copy"
  PROVE  /\ DOMAIN Ran(db, e, s) = DOMAIN db /\ Ran(db, e, s).ver = db.ver
         /\ Ran(db, e, s).has = db.has /\ Ran(db, e, s).rows = Moved(db.rows, s.table, s.to)
  <1>1. Ran(db, e, s) = [db EXCEPT !.rows = Moved(db.rows, s.table, s.to)]  BY DEF Ran
  <1>2. DOMAIN db = {"ver", "has", "rows"}  BY DEF Fits
  <1> QED BY <1>1, <1>2

\* ALTER TABLE RENAME
LEMMA RanRename ==
  ASSUME NEW db, Fits(db), NEW e, NEW s, s.op = "rename"
  PROVE  /\ DOMAIN Ran(db, e, s) = DOMAIN db /\ Ran(db, e, s).ver = db.ver
         /\ Ran(db, e, s).has = { IF n[1] = s.table THEN <<s.to, n[2]>> ELSE n : n \in db.has }
         /\ Ran(db, e, s).rows = Moved(db.rows, s.table, s.to) \ {s.table}
  <1> DEFINE h == { IF n[1] = s.table THEN <<s.to, n[2]>> ELSE n : n \in db.has }
             rows == Moved(db.rows, s.table, s.to) \ {s.table}
  <1>1. Ran(db, e, s) = [db EXCEPT !.has = h, !.rows = rows]  BY DEF Ran
  <1> HIDE DEF h, rows
  <1>2. DOMAIN db = {"ver", "has", "rows"}  BY DEF Fits
  <1>3. /\ DOMAIN Ran(db, e, s) = DOMAIN db /\ Ran(db, e, s).ver = db.ver
        /\ Ran(db, e, s).has = h /\ Ran(db, e, s).rows = rows
    BY <1>1, <1>2
  <1> QED BY <1>3 DEF h, rows

\* The clauses of DbInRebuild, by place
LEMMA TablesThere ==
  ASSUME NEW s \in Rebuilds, NEW p, p # Rebuilt(s).n + 5, NEW db, NEW old, DbInRebuild(s, p, db, old)
  PROVE  WholeTables \subseteq db.has /\ old \subseteq db.rows
  BY DEF DbInRebuild

\* The copy of a killed start is gone,
LEMMA CopyAbsent ==
  ASSUME NEW s \in Rebuilds, NEW p \in 2..(Rebuilt(s).n + 2), NEW db, NEW old, DbInRebuild(s, p, db, old)
  PROVE  \A x \in db.has : x[1] # Rebuilt(s).copy
  BY DEF DbInRebuild

\* then the new copy has its columns,
LEMMA CopyThere ==
  ASSUME NEW s \in Rebuilds, NEW p \in (Rebuilt(s).n + 3)..(Rebuilt(s).n + 5), NEW db, NEW old,
         DbInRebuild(s, p, db, old)
  PROVE  Of(Rebuilt(s).copy, Rebuilt(s).cols \cup {"table"}) \subseteq db.has
  BY DEF DbInRebuild

\* and the rows of the table.
LEMMA RowsThere ==
  ASSUME NEW s \in Rebuilds, NEW p \in {Rebuilt(s).n + 4, Rebuilt(s).n + 5}, NEW db, NEW old,
         DbInRebuild(s, p, db, old)
  PROVE  Rebuilt(s).table \in old => Rebuilt(s).copy \in db.rows
  BY DEF DbInRebuild

\* Before the copy is there
LEMMA EarlyPlace ==
  ASSUME NEW s \in Rebuilds, NEW p \in Int, p <= Rebuilt(s).n + 2, NEW db, NEW old,
         WholeTables \subseteq db.has, old \subseteq db.rows,
         p >= 2 => \A x \in db.has : x[1] # Rebuilt(s).copy
  PROVE  DbInRebuild(s, p, db, old)
  <1>1. Rebuilt(s).n \in {2, 10}  BY RebuiltN
  <1>2. /\ p \notin (Rebuilt(s).n + 3)..(Rebuilt(s).n + 5) /\ p \notin {Rebuilt(s).n + 4, Rebuilt(s).n + 5}
        /\ ~(p > Rebuilt(s).n + 5) /\ p # Rebuilt(s).n + 5
        /\ (p \in 2..(Rebuilt(s).n + 2) => p >= 2)
    BY <1>1
  <1> QED BY <1>2 DEF DbInRebuild

\* After the rename the table is as new.
LEMMA LatePlace ==
  ASSUME NEW s \in Rebuilds, NEW p \in Int, p > Rebuilt(s).n + 5, NEW db, NEW old,
         WholeTables \subseteq db.has, old \subseteq db.rows,
         \A x \in Whole : Since(x) = s => x \in db.has
  PROVE  DbInRebuild(s, p, db, old)
  <1>1. Rebuilt(s).n \in {2, 10}  BY RebuiltN
  <1>2. /\ p \notin (Rebuilt(s).n + 3)..(Rebuilt(s).n + 5) /\ p \notin {Rebuilt(s).n + 4, Rebuilt(s).n + 5}
        /\ p # Rebuilt(s).n + 5 /\ p \notin 2..(Rebuilt(s).n + 2)
    BY <1>1
  <1> QED BY <1>2 DEF DbInRebuild

\* While the copy is there
LEMMA MiddlePlace ==
  ASSUME NEW s \in Rebuilds, NEW p \in {Rebuilt(s).n + 3, Rebuilt(s).n + 4, Rebuilt(s).n + 5},
         NEW db, NEW old,
         Of(Rebuilt(s).copy, Rebuilt(s).cols \cup {"table"}) \subseteq db.has,
         p # Rebuilt(s).n + 3 /\ Rebuilt(s).table \in old => Rebuilt(s).copy \in db.rows,
         IF p = Rebuilt(s).n + 5
         THEN WholeTables \subseteq db.has \cup {<<Rebuilt(s).table, "table">>}
                 /\ old \subseteq db.rows \cup {Rebuilt(s).table}
         ELSE WholeTables \subseteq db.has /\ old \subseteq db.rows
  PROVE  DbInRebuild(s, p, db, old)
  <1>1. Rebuilt(s).n \in {2, 10}  BY RebuiltN
  <1>2. /\ p \notin 2..(Rebuilt(s).n + 2) /\ ~(p > Rebuilt(s).n + 5)
        /\ (p \in {Rebuilt(s).n + 4, Rebuilt(s).n + 5} => p # Rebuilt(s).n + 3)
    BY <1>1
  <1>3. CASE p = Rebuilt(s).n + 5  BY <1>2, <1>3 DEF DbInRebuild
  <1>4. CASE p # Rebuilt(s).n + 5  BY <1>2, <1>4 DEF DbInRebuild
  <1> QED BY <1>3, <1>4

-----------------------------------------------------------------------------
(* What the statements of a rebuild do to the database *)

\* DROP TABLE IF EXISTS t_new: what a rebuild that was killed may have left is gone.
LEMMA OldCopyGone ==
  ASSUME NEW s \in Rebuilds, NEW db, Fits(db), NEW old \in SUBSET HasRows, DbInRebuild(s, 1, db, old),
          NEW e,
         NEW st, st = DropIfExists(Rebuilt(s).copy)
  PROVE  Fits(Ran(db, e, st)) /\ Ran(db, e, st).ver = db.ver /\ DbInRebuild(s, 2, Ran(db, e, st), old)
  <1> DEFINE d == Ran(db, e, st)  copy == Rebuilt(s).copy
  <1>1. st.op = "drop" /\ st.table = copy  BY DropIs
  <1>2. /\ DOMAIN d = DOMAIN db /\ d.ver = db.ver /\ d.has = { x \in db.has : x[1] # copy }
        /\ d.rows = (db.rows \ {copy}) \ (IF e /\ copy \in db.rows THEN Cascade(copy) ELSE {})
    BY <1>1, RanDrop
  <1>3. /\ Rebuilt(s).n \in {2, 10} /\ copy \notin HasRows /\ Cascade(copy) = {}
        /\ \A x \in Whole : x[1] # copy
    BY RebuiltN, RebuiltCopy, CopyNotWhole
  <1> HIDE DEF d, copy
  <1>4. Fits(d)
    <2>1. \A x \in Whole : x \in d.has <=> x \in db.has  BY <1>2, <1>3
    <2> QED BY <2>1, <1>2, FitsSame
  <1>5. /\ WholeTables \subseteq db.has /\ old \subseteq db.rows
    <2>1. 1 # Rebuilt(s).n + 5  BY <1>3
    <2> QED BY <2>1, TablesThere
  <1>6. WholeTables \subseteq d.has  BY <1>2, <1>3, <1>5, WholeTablesWhole
  <1>7. old \subseteq d.rows  BY <1>2, <1>3, <1>5
  <1>8. \A x \in d.has : x[1] # copy  BY <1>2
  <1>9. DbInRebuild(s, 2, d, old)
    <2>1. 2 <= Rebuilt(s).n + 2  BY <1>3
    <2> QED BY <2>1, <1>6, <1>7, <1>8, EarlyPlace DEF copy
  <1> QED BY <1>2, <1>4, <1>9 DEF d

\* DROP INDEX
LEMMA IndexDropped ==
  ASSUME NEW s \in Rebuilds, NEW db, Fits(db), NEW old, NEW p \in 2..(Rebuilt(s).n + 1),
         DbInRebuild(s, p, db, old), NEW e, NEW st, Removes(st)
  PROVE  Fits(Ran(db, e, st)) /\ Ran(db, e, st).ver = db.ver /\ DbInRebuild(s, p + 1, Ran(db, e, st), old)
  <1> DEFINE d == Ran(db, e, st)
  <1>1. Rebuilt(s).n \in {2, 10}  BY RebuiltN
  <1>2. p # Rebuilt(s).n + 5 /\ p \in 2..(Rebuilt(s).n + 2) /\ p + 1 <= Rebuilt(s).n + 2 /\ p + 1 \in Int
    BY <1>1
  <1>3. /\ WholeTables \subseteq db.has /\ old \subseteq db.rows /\ \A x \in db.has : x[1] # Rebuilt(s).copy
    BY <1>2, TablesThere, CopyAbsent
  <1>4. Fits(d) /\ WholeTables \subseteq d.has /\ d.rows = db.rows /\ d.ver = db.ver
          /\ d.has \subseteq db.has
    BY <1>3, SteadyRuns DEF Steady, Removes
  <1> HIDE DEF d
  <1>5. DbInRebuild(s, p + 1, d, old)  BY <1>2, <1>3, <1>4, EarlyPlace
  <1> QED BY <1>4, <1>5 DEF d

\* CREATE TABLE t_new
LEMMA CopyCreated ==
  ASSUME NEW s \in Rebuilds, NEW db, Fits(db), NEW old, NEW p, p = Rebuilt(s).n + 2,
         DbInRebuild(s, p, db, old), NEW e, NEW st, st = CreateNew(Rebuilt(s).copy, Rebuilt(s).cols)
  PROVE  Fits(Ran(db, e, st)) /\ Ran(db, e, st).ver = db.ver /\ DbInRebuild(s, p + 1, Ran(db, e, st), old)
  <1> DEFINE d == Ran(db, e, st)  N == Of(Rebuilt(s).copy, Rebuilt(s).cols \cup {"table"})
  <1>1. Rebuilt(s).n \in {2, 10} /\ \A x \in Whole : x[1] # Rebuilt(s).copy  BY RebuiltN, CopyNotWhole
  <1>2. p # Rebuilt(s).n + 5 /\ p + 1 = Rebuilt(s).n + 3 /\ p + 1 # Rebuilt(s).n + 5  BY <1>1
  <1>3. WholeTables \subseteq db.has /\ old \subseteq db.rows  BY <1>2, TablesThere
  <1>4. st.op = "new" /\ st.names = N  BY CreateNewIs, ZenonT(40)
  <1>5. DOMAIN d = DOMAIN db /\ d.has = db.has \cup N /\ d.rows = db.rows /\ d.ver = db.ver
    BY <1>4, RanNew
  <1>6. \A x \in N : x[1] = Rebuilt(s).copy  BY DEF Of
  <1> HIDE DEF d, N
  <1>7. Fits(d)
    <2>1. \A x \in Whole : x \in d.has <=> x \in db.has  BY <1>1, <1>5, <1>6
    <2> QED BY <2>1, <1>5, FitsSame
  <1>8. DbInRebuild(s, p + 1, d, old)
    <2>1. Of(Rebuilt(s).copy, Rebuilt(s).cols \cup {"table"}) \subseteq d.has  BY <1>5 DEF N
    <2>2. WholeTables \subseteq d.has /\ old \subseteq d.rows  BY <1>3, <1>5
    <2> QED BY <1>2, <2>1, <2>2, MiddlePlace
  <1> QED BY <1>5, <1>7, <1>8 DEF d

\* INSERT INTO t_new SELECT ... FROM t
LEMMA RowsCopied ==
  ASSUME NEW s \in Rebuilds, NEW db, Fits(db), NEW old, NEW p, p = Rebuilt(s).n + 3,
         DbInRebuild(s, p, db, old), NEW e, NEW cols, NEW st,
                 st = Copy(Rebuilt(s).table, Rebuilt(s).copy, cols)
  PROVE  Fits(Ran(db, e, st)) /\ Ran(db, e, st).ver = db.ver /\ DbInRebuild(s, p + 1, Ran(db, e, st), old)
  <1> DEFINE d == Ran(db, e, st)  rows == Moved(db.rows, Rebuilt(s).table, Rebuilt(s).copy)
  <1>1. Rebuilt(s).n \in {2, 10}  BY RebuiltN
  <1>2. /\ p # Rebuilt(s).n + 5 /\ p + 1 = Rebuilt(s).n + 4 /\ p + 1 # Rebuilt(s).n + 5
        /\ p \in (Rebuilt(s).n + 3)..(Rebuilt(s).n + 5)
    BY <1>1
  <1>3. /\ WholeTables \subseteq db.has /\ old \subseteq db.rows
        /\ Of(Rebuilt(s).copy, Rebuilt(s).cols \cup {"table"}) \subseteq db.has
    BY <1>2, TablesThere, CopyThere
  <1>4. st.op = "copy" /\ st.table = Rebuilt(s).table /\ st.to = Rebuilt(s).copy
    BY DEF Copy, Stmt
  <1>5. DOMAIN d = DOMAIN db /\ d.has = db.has /\ d.rows = rows /\ d.ver = db.ver
    BY <1>4, RanCopy
  <1>6. db.rows \subseteq rows /\ (Rebuilt(s).table \in db.rows => Rebuilt(s).copy \in rows)  BY DEF Moved
  <1> HIDE DEF d, rows
  <1>7. Fits(d)  BY <1>5, FitsSame
  <1>8. DbInRebuild(s, p + 1, d, old)
    <2>1. Of(Rebuilt(s).copy, Rebuilt(s).cols \cup {"table"}) \subseteq d.has  BY <1>3, <1>5
    <2>2. WholeTables \subseteq d.has /\ old \subseteq d.rows  BY <1>3, <1>5, <1>6
    <2>3. Rebuilt(s).table \in old => Rebuilt(s).copy \in d.rows  BY <1>3, <1>5, <1>6
    <2> QED BY <1>2, <2>1, <2>2, <2>3, MiddlePlace
  <1> QED BY <1>5, <1>7, <1>8 DEF d

\* DROP TABLE t: with the enforcement off, or with no table that references t
LEMMA TableDropped ==
  ASSUME NEW s \in Rebuilds, NEW db, Fits(db), NEW old, NEW p, p = Rebuilt(s).n + 4,
         DbInRebuild(s, p, db, old), NEW e, e => s = 36, NEW st, st = Drop(Rebuilt(s).table)
  PROVE  Fits(Ran(db, e, st)) /\ Ran(db, e, st).ver = db.ver /\ DbInRebuild(s, p + 1, Ran(db, e, st), old)
  <1> DEFINE d == Ran(db, e, st)  table == Rebuilt(s).table  copy == Rebuilt(s).copy
  <1>1. Rebuilt(s).n \in {2, 10} /\ copy # table /\ (e => Cascade(table) = {})
    BY RebuiltN, RebuiltCopy, TrialsLeaf
  <1>2. /\ p # Rebuilt(s).n + 5 /\ p + 1 = Rebuilt(s).n + 5 /\ p \in {Rebuilt(s).n + 4, Rebuilt(s).n + 5}
        /\ p \in (Rebuilt(s).n + 3)..(Rebuilt(s).n + 5) /\ p + 1 # Rebuilt(s).n + 3
    BY <1>1
  <1>3. /\ WholeTables \subseteq db.has /\ old \subseteq db.rows
        /\ Of(copy, Rebuilt(s).cols \cup {"table"}) \subseteq db.has
        /\ table \in old => copy \in db.rows
    BY <1>2, TablesThere, CopyThere, RowsThere
  <1>4. st.op = "drop" /\ st.table = table  BY DropIs
  <1>5. /\ DOMAIN d = DOMAIN db /\ d.ver = db.ver /\ d.has = { x \in db.has : x[1] # table }
        /\ d.rows = (db.rows \ {table}) \ (IF e /\ table \in db.rows THEN Cascade(table) ELSE {})
    BY <1>4, RanDrop
  <1> HIDE DEF d, table, copy
  <1>6. d.rows = db.rows \ {table}  BY <1>1, <1>5
  <1>7. Fits(d)
    <2>0. /\ DOMAIN db = {"ver", "has", "rows"} /\ db.ver \in 0..CurrentVersion
          /\ \A n \in Whole : Since(n) <= db.ver /\ <<n[1], "table">> \in db.has => n \in db.has
          /\ <<"announcement_batches", "scheduled_at">> \in db.has
               => <<"announcement_batches", "CHECK_scheduled">> \in db.has
      BY DEF Fits
    <2>1. ASSUME NEW n \in Whole, Since(n) <= d.ver, <<n[1], "table">> \in d.has
          PROVE  n \in d.has
      <3>1. <<n[1], "table">> \in db.has /\ n[1] # table  BY <2>1, <1>5
      <3>2. n \in db.has  BY <3>1, <2>0, <2>1, <1>5
      <3> QED BY <3>1, <3>2, <1>5
    <2>2. <<"announcement_batches", "scheduled_at">> \in d.has
          => <<"announcement_batches", "CHECK_scheduled">> \in d.has
      BY <2>0, <1>5
    <2>3. d.ver \in 0..CurrentVersion /\ DOMAIN d = {"ver", "has", "rows"}  BY <2>0, <1>5
    <2> QED BY <2>1, <2>2, <2>3 DEF Fits
  <1>8. WholeTables \subseteq d.has \cup {<<table, "table">>}
    <2>1. ASSUME NEW x \in WholeTables, x[1] = table
          PROVE  x = <<table, "table">>
      BY <2>1 DEF WholeTables
    <2> QED BY <2>1, <1>3, <1>5
  <1>9. Of(copy, Rebuilt(s).cols \cup {"table"}) \subseteq d.has
    <2>1. \A x \in Of(copy, Rebuilt(s).cols \cup {"table"}) : x[1] = copy  BY DEF Of
    <2> QED BY <2>1, <1>1, <1>3, <1>5
  <1>10. (table \in old => copy \in d.rows) /\ old \subseteq d.rows \cup {table}
    BY <1>1, <1>3, <1>6
  <1>11. DbInRebuild(s, p + 1, d, old)
    BY <1>2, <1>8, <1>9, <1>10, MiddlePlace DEF table, copy
  <1> QED BY <1>5, <1>7, <1>11 DEF d

\* ALTER TABLE t_new RENAME TO t
LEMMA CopyRenamed ==
  ASSUME NEW s \in Rebuilds, NEW db, Fits(db), db.ver = s - 1, NEW old \in SUBSET HasRows,
         NEW p, p = Rebuilt(s).n + 5, DbInRebuild(s, p, db, old), NEW e,
         NEW st, st = Rename(Rebuilt(s).copy, Rebuilt(s).table)
  PROVE  Fits(Ran(db, e, st)) /\ Ran(db, e, st).ver = db.ver /\ DbInRebuild(s, p + 1, Ran(db, e, st), old)
  <1> DEFINE d == Ran(db, e, st)  table == Rebuilt(s).table  copy == Rebuilt(s).copy
             cols == Rebuilt(s).cols
  <1>1. /\ Rebuilt(s).n \in {2, 10} /\ copy # table /\ copy \notin HasRows
        /\ <<table, "table">> \in WholeTables
        /\ table = "announcement_batches" => "CHECK_scheduled" \in cols
    BY RebuiltN, RebuiltCopy, RebuiltTable, ScheduledCopied
  <1>2. /\ \A x \in Whole : x[1] # copy
        /\ \A x \in Whole : x[1] = table /\ Since(x) < s => x[2] \in cols \cup {"table"}
        /\ \A x \in Whole : Since(x) = s => x[1] = table /\ x[2] \in cols
    BY CopyNotWhole, ColumnsCopied, ColumnsRebuilt
  <1>3. /\ p \in {Rebuilt(s).n + 4, Rebuilt(s).n + 5} /\ p \in (Rebuilt(s).n + 3)..(Rebuilt(s).n + 5)
        /\ p + 1 \in Int /\ p + 1 > Rebuilt(s).n + 5
    BY <1>1
  <1>4. /\ Of(copy, cols \cup {"table"}) \subseteq db.has /\ (table \in old => copy \in db.rows)
    BY <1>3, CopyThere, RowsThere
  <1>5. /\ WholeTables \subseteq db.has \cup {<<table, "table">>}
        /\ old \subseteq db.rows \cup {table}
    BY DEF DbInRebuild
  <1>6. st.op = "rename" /\ st.table = copy /\ st.to = table
    BY DEF Rename, Stmt
  <1>7. /\ DOMAIN d = DOMAIN db /\ d.ver = db.ver
        /\ d.has = { IF x[1] = copy THEN <<table, x[2]>> ELSE x : x \in db.has }
        /\ d.rows = Moved(db.rows, copy, table) \ {copy}
    BY <1>6, RanRename
  <1> HIDE DEF d, table, copy, cols
  <1>8. \A c \in cols \cup {"table"} : <<table, c>> \in d.has
    <2> TAKE c \in cols \cup {"table"}
    <2>1. <<copy, c>> \in db.has  BY <1>4 DEF Of
    <2>2. <<copy, c>>[1] = copy /\ <<copy, c>>[2] = c  OBVIOUS
    <2> QED BY <2>1, <2>2, <1>7
  <1>9. \A x \in Whole : x[1] # table => (x \in d.has <=> x \in db.has)
    <2> TAKE x \in Whole
    <2> HAVE x[1] # table
    <2>1. x[1] # copy  BY <1>2
    <2>2. \A y \in db.has : y[1] = copy => <<table, y[2]>> # x
      <3>1. \A y : <<table, y[2]>>[1] = table  OBVIOUS
      <3> QED BY <3>1
    <2> QED BY <2>1, <2>2, <1>7
  <1>10. s \in Int  BY DEF Rebuilds
  <1>11. \A x \in Whole : x[1] = table /\ Since(x) <= s => x \in d.has
    <2> TAKE x \in Whole
    <2> HAVE x[1] = table /\ Since(x) <= s
    <2>1. Since(x) < s \/ Since(x) = s
      <3>1. Since(x) \in Int  BY SinceInt
      <3> QED BY <3>1, <1>10
    <2>2. x[2] \in cols \cup {"table"}  BY <2>1, <1>2
    <2>3. x = <<table, x[2]>>  BY WholePairs
    <2> QED BY <2>2, <2>3, <1>8
  <1>12. Fits(d)
    <2>0. /\ DOMAIN db = {"ver", "has", "rows"} /\ db.ver \in 0..CurrentVersion
          /\ \A n \in Whole : Since(n) <= db.ver /\ <<n[1], "table">> \in db.has => n \in db.has
          /\ <<"announcement_batches", "scheduled_at">> \in db.has
               => <<"announcement_batches", "CHECK_scheduled">> \in db.has
      BY DEF Fits
    <2>1. ASSUME NEW n \in Whole, Since(n) <= d.ver, <<n[1], "table">> \in d.has
          PROVE  n \in d.has
      <3>1. CASE n[1] = table
        <4>1. Since(n) <= s
          <5>1. Since(n) \in Int  BY SinceInt
          <5>2. Since(n) <= s - 1  BY <2>1, <1>7
          <5> QED BY <5>1, <5>2, <1>10
        <4> QED BY <3>1, <4>1, <1>11
      <3>2. CASE n[1] # table
        <4>1. <<n[1], "table">> \in Whole  BY WholeHasTable, WholeTablesWhole
        <4>2. <<n[1], "table">>[1] = n[1]  OBVIOUS
        <4>3. <<n[1], "table">> \in db.has  BY <4>1, <4>2, <3>2, <2>1, <1>9
        <4>4. n \in db.has  BY <4>3, <2>0, <2>1, <1>7
        <4> QED BY <4>4, <3>2, <1>9
      <3> QED BY <3>1, <3>2
    <2>2. <<"announcement_batches", "scheduled_at">> \in d.has
          => <<"announcement_batches", "CHECK_scheduled">> \in d.has
      <3> DEFINE a == <<"announcement_batches", "scheduled_at">>
                 b == <<"announcement_batches", "CHECK_scheduled">>
      <3>1. a[1] = "announcement_batches" /\ b[1] = "announcement_batches"  OBVIOUS
      <3>2. b \in Whole /\ a \in Whole  BY ScheduledWhole
      <3>3. CASE table = "announcement_batches"  BY <3>3, <1>1, <1>8
      <3>4. CASE table # "announcement_batches"
        <4> HIDE DEF a, b
        <4>1. (a \in d.has <=> a \in db.has) /\ (b \in d.has <=> b \in db.has)
          BY <3>1, <3>2, <3>4, <1>9
        <4>2. a \in db.has => b \in db.has  BY <2>0 DEF a, b
        <4> QED BY <4>1, <4>2 DEF a, b
      <3> QED BY <3>3, <3>4
    <2>3. d.ver \in 0..CurrentVersion /\ DOMAIN d = {"ver", "has", "rows"}  BY <2>0, <1>7
    <2> QED BY <2>1, <2>2, <2>3 DEF Fits
  <1>13. WholeTables \subseteq d.has
    <2>1. ASSUME NEW x \in WholeTables PROVE x \in d.has
      <3>1. CASE x = <<table, "table">>  BY <3>1, <1>8
      <3>2. CASE x # <<table, "table">>
        <4>1. x \in db.has /\ x \in Whole  BY <3>2, <1>5, WholeTablesWhole
        <4>2. x[1] # table  BY <3>2 DEF WholeTables
        <4> QED BY <4>1, <4>2, <1>9
      <3> QED BY <3>1, <3>2
    <2> QED BY <2>1
  <1>14. old \subseteq d.rows
    <2>1. copy \notin old  BY <1>1
    <2> QED BY <2>1, <1>1, <1>4, <1>5, <1>7 DEF Moved
  <1>15. \A x \in Whole : Since(x) = s => x \in d.has
    <2> TAKE x \in Whole
    <2> HAVE Since(x) = s
    <2>1. x[1] = table /\ x[2] \in cols  BY <1>2
    <2>2. x = <<table, x[2]>>  BY <2>1, WholePairs
    <2> QED BY <2>1, <2>2, <1>8
  <1>16. DbInRebuild(s, p + 1, d, old)
    BY <1>3, <1>13, <1>14, <1>15, LatePlace
  <1> QED BY <1>7, <1>12, <1>16 DEF d

\* CREATE INDEX, and the INSERT of v29
LEMMA IndexCreated ==
  ASSUME NEW s \in Rebuilds, NEW db, Fits(db), NEW old, NEW p \in Int, p > Rebuilt(s).n + 5,
         DbInRebuild(s, p, db, old), NEW e, NEW st, Adds(st) \/ Writes(st)
  PROVE  Fits(Ran(db, e, st)) /\ Ran(db, e, st).ver = db.ver /\ DbInRebuild(s, p + 1, Ran(db, e, st), old)
  <1> DEFINE d == Ran(db, e, st)
  <1>1. Rebuilt(s).n \in {2, 10}  BY RebuiltN
  <1>2. p + 1 \in Int /\ p + 1 > Rebuilt(s).n + 5 /\ p # Rebuilt(s).n + 5  BY <1>1
  <1>3. WholeTables \subseteq db.has /\ old \subseteq db.rows  BY <1>2, TablesThere
  <1>4. \A x \in Whole : Since(x) = s => x \in db.has  BY DEF DbInRebuild
  <1>5. Fits(d) /\ WholeTables \subseteq d.has /\ d.rows = db.rows /\ d.ver = db.ver
        /\ db.has \cap Whole \subseteq d.has
    BY <1>3, SteadyRuns DEF Steady
  <1> HIDE DEF d
  <1>6. \A x \in Whole : Since(x) = s => x \in d.has  BY <1>4, <1>5
  <1>7. DbInRebuild(s, p + 1, d, old)  BY <1>2, <1>3, <1>5, <1>6, LatePlace
  <1> QED BY <1>5, <1>7 DEF d

-----------------------------------------------------------------------------
(* A step of a rebuild *)

\* For the arithmetic of places
LEMMA RebuildSizes ==
  ASSUME NEW s \in Rebuilds
  PROVE  /\ Rebuilt(s).n \in {2, 10} /\ Rebuilt(s).n \in Int /\ Rebuilt(s).begin \in {3, 4}
         /\ LastPlace(s) \in Int /\ SkipPlace(s) \in Int /\ SkipPlace(s) <= LastPlace(s)
         /\ SkipPlace(s) = (IF s = 36 THEN 2 * Rebuilt(s).n + 7 ELSE 2 * Rebuilt(s).n + 8)
         /\ LastPlace(s) = (IF s = 29 THEN 2 * Rebuilt(s).n + 9 ELSE SkipPlace(s))
  <1>1. s = 16 \/ s = 17 \/ s = 29 \/ s = 36  BY RebuildsAre
  <1>2. CASE s = 16
    <2>1. Rebuilt(s).n = 2 /\ Rebuilt(s).begin = 4 /\ LastPlace(s) = 12  BY <1>2, RebuiltAt, LastPlaceIs
    <2>2. SkipPlace(s) = 12  BY <1>2, <2>1 DEF SkipPlace, LastPlace
    <2> QED BY <1>2, <2>1, <2>2
  <1>3. CASE s = 17
    <2>1. Rebuilt(s).n = 2 /\ Rebuilt(s).begin = 3 /\ LastPlace(s) = 12  BY <1>3, RebuiltAt, LastPlaceIs
    <2>2. SkipPlace(s) = 12  BY <1>3, <2>1 DEF SkipPlace, LastPlace
    <2> QED BY <1>3, <2>1, <2>2
  <1>4. CASE s = 29
    <2>1. Rebuilt(s).n = 10 /\ Rebuilt(s).begin = 4 /\ LastPlace(s) = 29  BY <1>4, RebuiltAt, LastPlaceIs
    <2>2. SkipPlace(s) = 28  BY <1>4, <2>1 DEF SkipPlace, LastPlace
    <2> QED BY <1>4, <2>1, <2>2
  <1>5. CASE s = 36
    <2>1. Rebuilt(s).n = 2 /\ Rebuilt(s).begin = 3 /\ LastPlace(s) = 11  BY <1>5, RebuiltAt, LastPlaceIs
    <2>2. SkipPlace(s) = 11  BY <1>5, <2>1 DEF SkipPlace, LastPlace
    <2> QED BY <1>5, <2>1, <2>2
  <1> QED BY <1>1, <1>2, <1>3, <1>4, <1>5

\* A start in a rebuild
LEMMA RebuildNow ==
  ASSUME MigrationsInv, bot = "booting", ~Skipped, stage \in Rebuilds
  PROVE  /\ Rebuilding /\ Fits(mwork) /\ mwork.ver = stage - 1 /\ inTx \in BOOLEAN /\ fk \in BOOLEAN
         /\ stage \in 1..CurrentVersion /\ stage # 0 /\ LegacyRows \in SUBSET HasRows
         /\ at \in 1..Len(Rest) /\ at \in Int /\ Place \in Int /\ Place = at - Rebuilt(stage).begin
         /\ TxInRebuild(stage, Place, inTx, fk) /\ DbInRebuild(stage, Place, mwork, LegacyRows)
  <1>1. Fits(mwork) /\ inTx \in BOOLEAN /\ fk \in BOOLEAN /\ PositionInv /\ RebuildInv  BY DEF MigrationsInv
  <1>2. stage \in 1..CurrentVersion /\ stage \in Int /\ stage # 0  BY DEF CurrentVersion, Rebuilds
  <1>3. Rebuilding  BY DEF Rebuilding
  <1>4. at \in 1..(Len(Rest) + 1) /\ at <= Len(Rest) /\ mwork.ver >= stage - 1
    BY <1>1, <1>2 DEF PositionInv
  <1>5. at \in 1..Len(Rest) /\ at \in Int
    <2>1. Len(Rest) \in Int
      <3>1. Rebuilt(stage).begin \in Int /\ LastPlace(stage) \in Int  BY RebuildSizes
      <3> QED BY <3>1, RebuildLength
    <2> QED BY <2>1, <1>4
  <1>6. Place = at - Rebuilt(stage).begin /\ Place \in Int
    <2>1. Rebuilt(stage).begin \in Int  BY RebuildSizes
    <2>2. Place = at - Rebuilt(stage).begin  BY DEF Place
    <2> QED BY <1>5, <2>1, <2>2
  <1>7. mwork.ver = stage - 1
    <2>1. mwork.ver \in 0..CurrentVersion  BY <1>1 DEF Fits
    <2>2. mwork.ver \in Int  BY <2>1 DEF CurrentVersion
    <2>3. ~(mwork.ver >= stage)  BY <1>2 DEF Skipped
    <2> QED BY <2>2, <2>3, <1>2, <1>4
  <1>8. LegacyRows \in SUBSET HasRows  BY DEF LegacyRows, Legacy
  <1>9. TxInRebuild(stage, Place, inTx, fk) /\ DbInRebuild(stage, Place, mwork, LegacyRows)
    BY <1>1, <1>3 DEF RebuildInv
  <1> QED BY <1>1, <1>2, <1>3, <1>5, <1>6, <1>7, <1>8, <1>9

\* What the statement does to the transaction and to the enforcement
LEMMA TxIs ==
  ASSUME MigrationsInv, Execute, stage # 0
  PROVE  /\ inTx' = (Rest[at].op # "commit" /\ (inTx \/ Opens(Rest[at])))
         /\ fk' = (IF Rest[at].op = "pragma" /\ ~inTx THEN Rest[at].flag ELSE fk)
  <1>1. inTx \in BOOLEAN  BY ExecuteFrame DEF MigrationsInv
  <1> QED BY <1>1 DEF Execute, Opens

\* A step inside a rebuild keeps the invariant if it keeps the clauses of its place.
LEMMA RebuildKept ==
  ASSUME MigrationsInv, Execute, stage \in Rebuilds,
         Fits(mwork'), mwork'.ver = mwork.ver, fk' \in BOOLEAN, at' \in 1..Len(Rest),
         NEW q \in Int, q = at' - Rebuilt(stage).begin,
         TxInRebuild(stage, q, inTx', fk'), DbInRebuild(stage, q, mwork', LegacyRows),
         q = Rebuilt(stage).n + 5 => inTx /\ Rest[at].op # "commit"
  PROVE  MigrationsInv'
  <1>1. /\ stage' = stage /\ bot' = bot /\ legacy' = legacy /\ LegacyRows' = LegacyRows
        /\ bot = "booting" /\ ~Skipped /\ Rest' = Rest
    BY ExecuteFrame, RestSame
  <1>2. /\ mwork.ver = stage - 1 /\ stage \in 1..CurrentVersion /\ stage # 0  BY <1>1, RebuildNow
  <1>3. ~Skipped'  BY <1>1 DEF Skipped
  <1>4. Rebuilding' /\ Place' = q  BY <1>1, <1>3 DEF Rebuilding, Place
  <1>5. RebuildInv' /\ TablesInv'  BY <1>1, <1>4 DEF RebuildInv, TablesInv
  <1>6. ProgressInv'
    <2>1. stage' # 0 /\ stage' # 9 /\ stage' # LastStage
            /\ stage' \notin 1..CurrentVersion \ (Rebuilds \cup {9})
      BY <1>1 DEF Rebuilds, LastStage, CurrentVersion
    <2> QED BY <2>1 DEF ProgressInv
  <1>7. PositionInv'
    <2>1. at' \in 1..(Len(Rest) + 1) /\ at' <= Len(Rest)
      <3>1. Rebuilt(stage).begin \in Int /\ LastPlace(stage) \in Int  BY RebuildSizes
      <3>2. Len(Rest) \in Int  BY <3>1, RebuildLength
      <3> QED BY <3>2
    <2>2. stage \in 0..LastStage  BY <1>2 DEF LastStage, CurrentVersion
    <2>3. mwork'.ver >= stage - 1
      <3>1. stage \in Int  BY <1>2 DEF CurrentVersion
      <3>2. mwork'.ver = stage - 1  BY <1>2
      <3> QED BY <3>1, <3>2
    <2> QED BY <1>1, <2>1, <2>2, <2>3, PositionKept
  <1>8. LegacyRows \subseteq mwork'.rows \/ q = Rebuilt(stage).n + 5  BY DEF DbInRebuild
  <1>9. /\ Fits(mdisk)' /\ (LegacyRows \subseteq mdisk.rows)'
        /\ inTx' \in BOOLEAN /\ (~inTx' => mdisk' = mwork')
    BY <1>8, DiskKept
  <1>10. Fits(mwork)'  BY DEF Fits
  <1>11. legacy' \in FirstVersions  BY <1>1 DEF MigrationsInv
  <1> QED BY <1>1, <1>5, <1>6, <1>7, <1>9, <1>10, <1>11 DEF MigrationsInv

LEMMA FirstUnless ==
  /\ <<"vpn_keys", "CHECK_hysteria2">> \in Whole /\ Since(<<"vpn_keys", "CHECK_hysteria2">>) = 29
  /\ <<"trial_key_requests", "CHECK_hysteria2">> \in Whole
          /\ Since(<<"trial_key_requests", "CHECK_hysteria2">>) = 36
  <1> DEFINE u == <<29, "vpn_keys", "CHECK_hysteria2">>
             v == <<36, "trial_key_requests", "CHECK_hysteria2">>
  <1>1. u \in LateNames /\ v \in LateNames  BY DEF LateNames
  <1>2. /\ u[1] = 29 /\ u[2] = "vpn_keys" /\ u[3] = "CHECK_hysteria2"
        /\ v[1] = 36 /\ v[2] = "trial_key_requests" /\ v[3] = "CHECK_hysteria2"
    OBVIOUS
  <1> HIDE DEF u, v
  <1>3. <<u[2], u[3]>> \in Whole /\ Since(<<u[2], u[3]>>) = u[1]  BY <1>1, LateColumns
  <1>4. <<v[2], v[3]>> \in Whole /\ Since(<<v[2], v[3]>>) = v[1]  BY <1>1, LateColumns
  <1> QED BY <1>2, <1>3, <1>4

\* The head of a rebuild: nothing to do when the database has what the guard looks for,
\* and then it has all of the version.
LEMMA PlaceUnless ==
  ASSUME stage \in Rebuilds, stage # 17
  PROVE  \E x \in Whole :
            /\ Rest[1] = UnlessHas(x[1], x[2]) /\ Since(x) = stage
            /\ \A y \in Whole : Since(y) = stage /\ y # x
                  => /\ x = <<"announcement_batches", "scheduled_at">>
                     /\ y = <<"announcement_batches", "CHECK_scheduled">>
  <1>1. stage = 16 \/ stage = 29 \/ stage = 36  BY RebuildsAre
  <1>2. CASE stage = 16
    <2> DEFINE x == <<"announcement_batches", "scheduled_at">>
    <2>1. x \in Whole /\ Since(x) = 16
      <3>1. x \in Whole  BY ScheduledWhole
      <3>2. Since(x) = 16  BY DEF Since
      <3> QED BY <3>1, <3>2
    <2>2. Rest[1] = UnlessHas("announcement_batches", "scheduled_at")  BY <1>2, Rest16
    <2>3. x[1] = "announcement_batches" /\ x[2] = "scheduled_at"  OBVIOUS
    <2>4. \A y \in Whole : Since(y) = 16 /\ y # x => y = <<"announcement_batches", "CHECK_scheduled">>
      <3> SUFFICES ASSUME NEW y \in Whole, Since(y) = 16, y # x
                   PROVE  y = <<"announcement_batches", "CHECK_scheduled">>
        OBVIOUS
      <3>1. y = <<y[1], y[2]>>  BY WholePairs
      <3>2. y[1] = Rebuilt(16).table  BY ColumnsRebuilt DEF Rebuilds
      <3>3. y[1] = "announcement_batches"  BY <3>2, RebuiltAt
      <3>4. y[2] \in {"CHECK_scheduled", "scheduled_at"}  BY <3>3, SinceBatches
      <3> QED BY <3>1, <3>3, <3>4
    <2> HIDE DEF x
    <2>5. Rest[1] = UnlessHas(x[1], x[2])  BY <2>2, <2>3
    <2> QED BY <1>2, <2>1, <2>4, <2>5 DEF x
  <1>3. CASE stage = 29
    <2> DEFINE x == <<"vpn_keys", "CHECK_hysteria2">>
    <2>1. x \in Whole /\ Since(x) = 29  BY FirstUnless
    <2>2. Rest[1] = UnlessHas("vpn_keys", "CHECK_hysteria2")  BY <1>3, Rest29
    <2>3. x[1] = "vpn_keys" /\ x[2] = "CHECK_hysteria2"  OBVIOUS
    <2>4. \A y \in Whole : Since(y) = 29 => y = x
      <3> SUFFICES ASSUME NEW y \in Whole, Since(y) = 29 PROVE y = x
        OBVIOUS
      <3>1. y = <<y[1], y[2]>>  BY WholePairs
      <3>2. y[1] = Rebuilt(29).table  BY ColumnsRebuilt DEF Rebuilds
      <3>3. y[1] = "vpn_keys"  BY <3>2, RebuiltAt
      <3>4. y[2] = "CHECK_hysteria2"  BY <3>3, SinceKeys
      <3> QED BY <3>1, <3>3, <3>4
    <2> HIDE DEF x
    <2>5. Rest[1] = UnlessHas(x[1], x[2])  BY <2>2, <2>3
    <2> QED BY <1>3, <2>1, <2>4, <2>5
  <1>4. CASE stage = 36
    <2> DEFINE x == <<"trial_key_requests", "CHECK_hysteria2">>
    <2>1. x \in Whole /\ Since(x) = 36  BY FirstUnless
    <2>2. Rest[1] = UnlessHas("trial_key_requests", "CHECK_hysteria2")  BY <1>4, Rest36
    <2>3. x[1] = "trial_key_requests" /\ x[2] = "CHECK_hysteria2"  OBVIOUS
    <2>4. \A y \in Whole : Since(y) = 36 => y = x
      <3> SUFFICES ASSUME NEW y \in Whole, Since(y) = 36 PROVE y = x
        OBVIOUS
      <3>1. y = <<y[1], y[2]>>  BY WholePairs
      <3>2. y[1] = Rebuilt(36).table  BY ColumnsRebuilt DEF Rebuilds
      <3>3. y[1] = "trial_key_requests"  BY <3>2, RebuiltAt
      <3>4. y[2] = "CHECK_hysteria2"  BY <3>3, SinceSmall
      <3> QED BY <3>1, <3>3, <3>4
    <2> HIDE DEF x
    <2>5. Rest[1] = UnlessHas(x[1], x[2])  BY <2>2, <2>3
    <2> QED BY <1>4, <2>1, <2>4, <2>5
  <1> QED BY <1>1, <1>2, <1>3, <1>4

\* The database after the statement of a place between BEGIN and COMMIT
LEMMA PlaceRun ==
  ASSUME MigrationsInv, Execute, stage \in Rebuilds, NEW p \in Int, p = Place,
         p \in 1..(2 * Rebuilt(stage).n + 5)
  PROVE  /\ Fits(mwork') /\ mwork'.ver = mwork.ver /\ DbInRebuild(stage, p + 1, mwork', LegacyRows)
         /\ Rest[at].op \in {"drop", "dropindex", "new", "copy", "rename", "ddl"}
  <1> DEFINE st == Rest[at]  d == Ran(mwork, fk, st)  n == Rebuilt(stage).n
  <1>1. mwork' = d /\ bot = "booting" /\ ~Skipped  BY ExecuteFrame
  <1>2. /\ Fits(mwork) /\ mwork.ver = stage - 1 /\ LegacyRows \in SUBSET HasRows /\ at \in Int
        /\ TxInRebuild(stage, p, inTx, fk) /\ DbInRebuild(stage, p, mwork, LegacyRows)
    BY <1>1, RebuildNow
  <1>3. n \in {2, 10} /\ n \in Int  BY RebuildSizes
  <1>4. \/ p = 1 \/ p \in 2..(n + 1) \/ p = n + 2 \/ p = n + 3 \/ p = n + 4 \/ p = n + 5
        \/ p \in (n + 6)..(2 * n + 5)
    <2>1. p >= 1 /\ p <= 2 * n + 5  OBVIOUS
    <2> HIDE DEF n
    <2> QED BY <2>1, <1>3
  <1>5. fk => stage = 36
    <2>1. fk <=> stage = 36 \/ p \notin 0..(2 * n + 7)  BY <1>2 DEF TxInRebuild
    <2>2. p >= 1 /\ p <= 2 * n + 5  OBVIOUS
    <2> HIDE DEF n
    <2>3. p \in 0..(2 * n + 7)  BY <2>2, <1>3
    <2> QED BY <2>1, <2>3
  <1>6. SUFFICES /\ Fits(Ran(mwork, fk, st)) /\ Ran(mwork, fk, st).ver = mwork.ver
                 /\ DbInRebuild(stage, p + 1, Ran(mwork, fk, st), LegacyRows)
                 /\ st.op \in {"drop", "dropindex", "new", "copy", "rename", "ddl"}
    BY <1>1
  <1>7. CASE p = 1
    <2>1. st = DropIfExists(Rebuilt(stage).copy)  BY <1>2, <1>7, PlaceDropOld
    <2>2. DbInRebuild(stage, 1, mwork, LegacyRows)  BY <1>2, <1>7
    <2>3. st.op = "drop"  BY <2>1 DEF DropIfExists, Stmt
    <2> HIDE DEF st, n
    <2>4. /\ Fits(Ran(mwork, fk, st)) /\ Ran(mwork, fk, st).ver = mwork.ver
          /\ DbInRebuild(stage, 2, Ran(mwork, fk, st), LegacyRows)
      BY <2>1, <2>2, <1>2, OldCopyGone
    <2>5. p + 1 = 2  BY <1>7
    <2> QED BY <2>3, <2>4, <2>5
  <1>8. CASE p \in 2..(n + 1)
    <2>1. Removes(st)  BY <1>2, <1>8, PlaceDropIndex
    <2>2. st.op = "dropindex"  BY <2>1 DEF Removes
    <2>3. /\ Fits(Ran(mwork, fk, st)) /\ Ran(mwork, fk, st).ver = mwork.ver
          /\ DbInRebuild(stage, p + 1, Ran(mwork, fk, st), LegacyRows)
      BY <2>1, <1>2, <1>8, IndexDropped
    <2> QED BY <2>2, <2>3
  <1>9. CASE p = n + 2
    <2>1. st = CreateNew(Rebuilt(stage).copy, Rebuilt(stage).cols)  BY <1>2, <1>9, PlaceCreate
    <2>2. st.op = "new"  BY <2>1 DEF CreateNew, Stmt
    <2>3. /\ Fits(Ran(mwork, fk, st)) /\ Ran(mwork, fk, st).ver = mwork.ver
          /\ DbInRebuild(stage, p + 1, Ran(mwork, fk, st), LegacyRows)
      BY <2>1, <1>2, <1>9, CopyCreated
    <2> QED BY <2>2, <2>3
  <1>10. CASE p = n + 3
    <2>1. st = Copy(Rebuilt(stage).table, Rebuilt(stage).copy, Copied(stage))  BY <1>2, <1>10, PlaceCopy
    <2>2. st.op = "copy"  BY <2>1 DEF Copy, Stmt
    <2>3. /\ Fits(Ran(mwork, fk, st)) /\ Ran(mwork, fk, st).ver = mwork.ver
          /\ DbInRebuild(stage, p + 1, Ran(mwork, fk, st), LegacyRows)
      BY <2>1, <1>2, <1>10, RowsCopied
    <2> QED BY <2>2, <2>3
  <1>11. CASE p = n + 4
    <2>1. st = Drop(Rebuilt(stage).table)  BY <1>2, <1>11, PlaceDrop
    <2>2. st.op = "drop"  BY <2>1, DropIs, ZenonT(40)
    <2>3. /\ Fits(Ran(mwork, fk, st)) /\ Ran(mwork, fk, st).ver = mwork.ver
          /\ DbInRebuild(stage, p + 1, Ran(mwork, fk, st), LegacyRows)
      BY <2>1, <1>2, <1>5, <1>11, TableDropped
    <2> QED BY <2>2, <2>3
  <1>12. CASE p = n + 5
    <2>1. st = Rename(Rebuilt(stage).copy, Rebuilt(stage).table)  BY <1>2, <1>12, PlaceRename
    <2>2. st.op = "rename"  BY <2>1 DEF Rename, Stmt
    <2>3. /\ Fits(Ran(mwork, fk, st)) /\ Ran(mwork, fk, st).ver = mwork.ver
          /\ DbInRebuild(stage, p + 1, Ran(mwork, fk, st), LegacyRows)
      BY <2>1, <1>2, <1>12, CopyRenamed
    <2> QED BY <2>2, <2>3
  <1>13. CASE p \in (n + 6)..(2 * n + 5)
    <2>1. Adds(st)  BY <1>2, <1>13, PlaceIndex
    <2>2. st.op = "ddl"  BY <2>1 DEF Adds
    <2>3. p > n + 5
      <3> HIDE DEF n
      <3> QED BY <1>3, <1>13
    <2>4. /\ Fits(Ran(mwork, fk, st)) /\ Ran(mwork, fk, st).ver = mwork.ver
          /\ DbInRebuild(stage, p + 1, Ran(mwork, fk, st), LegacyRows)
      BY <2>1, <2>3, <1>2, IndexCreated
    <2> QED BY <2>2, <2>4
  <1> QED BY <1>4, <1>7, <1>8, <1>9, <1>10, <1>11, <1>12, <1>13

\* The next statement of the stage, where the place is not the last one
LEMMA PlaceNext ==
  ASSUME stage \in Rebuilds, at \in 1..Len(Rest), at \in Int, at' = at + 1, Place # LastPlace(stage),
         NEW p \in Int, p = Place
  PROVE  at' \in 1..Len(Rest) /\ p + 1 = at' - Rebuilt(stage).begin
  <1> DEFINE b == Rebuilt(stage).begin  l == LastPlace(stage)  r == Len(Rest)
  <1>0. Rebuilt(stage).begin \in {3, 4} /\ LastPlace(stage) \in Int  BY RebuildSizes
  <1>1. b \in Int /\ l \in Int  BY <1>0
  <1>2. r = b + l  BY RebuildLength
  <1>3. at >= 1 /\ at <= r /\ p = at - b /\ p # l  BY DEF Place
  <1> HIDE DEF b, l, r
  <1>4. at' \in 1..r /\ p + 1 = at' - b  BY <1>1, <1>2, <1>3
  <1> QED BY <1>4 DEF b, r

\* Between BEGIN and COMMIT the transaction stays open and the enforcement as it is.
LEMMA RebuildStatement ==
  ASSUME MigrationsInv, Execute, stage \in Rebuilds, Place \in 1..(2 * Rebuilt(stage).n + 5)
  PROVE  MigrationsInv'
  <1> DEFINE n == Rebuilt(stage).n  p == Place
  <1>1. bot = "booting" /\ ~Skipped /\ at' = Jump(Rest[at])  BY ExecuteFrame
  <1>2. /\ inTx \in BOOLEAN /\ fk \in BOOLEAN /\ at \in 1..Len(Rest) /\ at \in Int /\ stage # 0
        /\ p \in Int /\ TxInRebuild(stage, p, inTx, fk)
    BY <1>1, RebuildNow
  <1>3. n \in {2, 10} /\ n \in Int  BY RebuildSizes
  <1>4. /\ Fits(mwork') /\ mwork'.ver = mwork.ver /\ DbInRebuild(stage, p + 1, mwork', LegacyRows)
        /\ Rest[at].op \in {"drop", "dropindex", "new", "copy", "rename", "ddl"}
    BY <1>2, PlaceRun
  <1>5. p >= 1 /\ p <= 2 * n + 5  OBVIOUS
  <1>6. /\ p \in 1..(2 * n + 6) /\ p \in 0..(2 * n + 7) /\ p + 1 \in 0..(2 * n + 7)
        /\ p + 1 # 0 /\ p + 1 \notin {-1, 2 * n + 7} /\ p + 1 \in Int
    <2> HIDE DEF n, p
    <2> QED BY <1>2, <1>3, <1>5
  <1>7. inTx /\ (fk <=> stage = 36)  BY <1>2, <1>6 DEF TxInRebuild
  <1>8. inTx' = TRUE /\ fk' = fk  BY <1>2, <1>4, <1>7, TxIs
  <1>9. at' = at + 1  BY <1>1, <1>4 DEF Jump
  <1>10. p # LastPlace(stage)
    <2> DEFINE l == LastPlace(stage)
    <2>1. l >= 2 * n + 7
      <3> DEFINE k == SkipPlace(stage)
      <3>1. /\ l \in Int /\ k \in Int /\ k <= l
            /\ k = (IF stage = 36 THEN 2 * n + 7 ELSE 2 * n + 8)
        BY RebuildSizes
      <3> HIDE DEF k, l, n
      <3> QED BY <3>1, <1>3
    <2> HIDE DEF l, n, p
    <2>2. p # l  BY <2>1, <1>2, <1>3, <1>5
    <2> QED BY <2>2 DEF l
  <1>11. at' \in 1..Len(Rest) /\ p + 1 = at' - Rebuilt(stage).begin  BY <1>2, <1>9, <1>10, PlaceNext
  <1>12. TxInRebuild(stage, p + 1, inTx', fk')  BY <1>6, <1>7, <1>8 DEF TxInRebuild
  <1>13. fk' \in BOOLEAN /\ Rest[at].op # "commit"  BY <1>2, <1>4, <1>8
  <1> DEFINE q == p + 1
  <1>14. /\ q \in Int /\ q = at' - Rebuilt(stage).begin /\ TxInRebuild(stage, q, inTx', fk')
         /\ DbInRebuild(stage, q, mwork', LegacyRows)
    BY <1>4, <1>6, <1>11, <1>12
  <1> HIDE DEF q, p, n
  <1> QED BY <1>4, <1>7, <1>11, <1>13, <1>14, RebuildKept

\* A statement outside the transaction that leaves the database alone
LEMMA EdgeKept ==
  ASSUME MigrationsInv, Execute, stage \in Rebuilds, NEW p \in Int, p = Place,
         p \notin 1..(2 * Rebuilt(stage).n + 5), p # LastPlace(stage), mwork' = mwork, at' = at + 1,
         TxInRebuild(stage, p + 1, inTx', fk'), fk' \in BOOLEAN
  PROVE  MigrationsInv'
  <1> DEFINE n == Rebuilt(stage).n  q == p + 1
  <1>1. bot = "booting" /\ ~Skipped  BY ExecuteFrame
  <1>2. /\ Fits(mwork) /\ at \in 1..Len(Rest) /\ at \in Int /\ DbInRebuild(stage, p, mwork, LegacyRows)
    BY <1>1, RebuildNow
  <1>3. n \in {2, 10} /\ n \in Int  BY RebuildSizes
  <1>4. p <= 0 \/ p > 2 * n + 5
    <2>1. p \notin 1..(2 * n + 5)  OBVIOUS
    <2> HIDE DEF n
    <2> QED BY <2>1, <1>3
  <1>5. at' \in 1..Len(Rest) /\ q = at' - Rebuilt(stage).begin  BY <1>2, PlaceNext
  <1>6. p # n + 5 /\ q # n + 5 /\ q \in Int
    <2> HIDE DEF n
    <2> QED BY <1>3, <1>4
  <1>7. WholeTables \subseteq mwork.has /\ LegacyRows \subseteq mwork.rows  BY <1>2, <1>6, TablesThere
  <1>8. DbInRebuild(stage, q, mwork', LegacyRows)
    <2>1. CASE p <= 0
      <3>1. q <= n + 2 /\ ~(q >= 2)
        <4> HIDE DEF n
        <4> QED BY <2>1, <1>3
      <3> HIDE DEF q
      <3> QED BY <3>1, <1>6, <1>7, EarlyPlace
    <2>2. CASE p > 2 * n + 5
      <3>1. q > n + 5 /\ p > n + 5
        <4>1. p > 2 * n + 5  BY <2>2
        <4> HIDE DEF n
        <4> QED BY <4>1, <1>3
      <3>2. \A x \in Whole : Since(x) = stage => x \in mwork.has  BY <3>1, <1>2 DEF DbInRebuild
      <3> HIDE DEF q
      <3> QED BY <3>1, <3>2, <1>6, <1>7, LatePlace
    <2> QED BY <1>4, <2>1, <2>2
  <1>9. Fits(mwork') /\ mwork'.ver = mwork.ver /\ TxInRebuild(stage, q, inTx', fk')  BY <1>2
  <1> HIDE DEF q, n
  <1> QED BY <1>5, <1>6, <1>8, <1>9, RebuildKept DEF n

\* The places outside the transaction
LEMMA EdgePlaces ==
  ASSUME stage \in Rebuilds, at \in 1..Len(Rest), at \in Int, NEW p \in Int, p = Place,
         NEW n, n = Rebuilt(stage).n, p \notin 1..(2 * n + 5)
  PROVE  \/ at = 1 /\ stage # 17 /\ p = (IF stage = 36 THEN -2 ELSE -3)
         \/ p = (IF stage = 36 THEN -1 ELSE -2)
         \/ stage # 36 /\ p = -1
         \/ p = 0
         \/ p = 2 * n + 6
         \/ stage # 36 /\ p = 2 * n + 7
         \/ stage = 29 /\ p = 2 * n + 8
         \/ p = LastPlace(stage)
  <1> DEFINE b == Rebuilt(stage).begin  l == LastPlace(stage)  r == Len(Rest)
  <1>1. b \in Int /\ l \in Int /\ n \in {2, 10}  BY RebuildSizes
  <1>2. r = b + l  BY RebuildLength
  <1>3. at >= 1 /\ at <= r /\ p = at - b  BY DEF Place
  <1>4. p >= 1 - b /\ p <= l /\ (p = 1 - b => at = 1)
    <2> HIDE DEF b, l, r
    <2> QED BY <1>1, <1>2, <1>3
  <1>5. \/ stage # 17 /\ p = 1 - b /\ p = (IF stage = 36 THEN -2 ELSE -3)
        \/ p = (IF stage = 36 THEN -1 ELSE -2)
        \/ stage # 36 /\ p = -1
        \/ p \in {0, 1, n + 2, n + 3, n + 4, n + 5, 2 * n + 6}
        \/ p \in 2..(n + 1) \/ p \in (n + 6)..(2 * n + 5)
        \/ stage # 36 /\ p = 2 * n + 7
        \/ stage = 29 /\ p = 2 * n + 8
        \/ p = l
    BY <1>4, Places
  <1>6. /\ p # 1 /\ p # n + 2 /\ p # n + 3 /\ p # n + 4 /\ p # n + 5
        /\ p \notin 2..(n + 1) /\ p \notin (n + 6)..(2 * n + 5)
    <2>1. p \notin 1..(2 * n + 5) /\ n \in {2, 10} /\ p \in Int  BY <1>1
    <2> HIDE DEF b, l, r
    <2>2. CASE n = 2  BY <2>1, <2>2
    <2>3. CASE n = 10  BY <2>1, <2>3
    <2> QED BY <2>1, <2>2, <2>3
  <1> HIDE DEF b, l
  <1> QED BY <1>4, <1>5, <1>6 DEF l

\* The transaction and the enforcement before BEGIN and after COMMIT
LEMMA TxOutside ==
  ASSUME NEW s \in Rebuilds, NEW n, n = Rebuilt(s).n, NEW p \in Int, NEW tx \in BOOLEAN, NEW e \in BOOLEAN
  PROVE  /\ p \in {-3, -2} => (TxInRebuild(s, p, tx, e) <=> e)
         /\ p = -1 => (TxInRebuild(s, p, tx, e) <=> e /\ (s # 36 => ~tx))
         /\ p = 0 => (TxInRebuild(s, p, tx, e) <=> ~tx /\ (e <=> s = 36))
         /\ p = 1 => (TxInRebuild(s, p, tx, e) <=> tx /\ (e <=> s = 36))
         /\ p = 2 * n + 6 => (TxInRebuild(s, p, tx, e) <=> tx /\ (e <=> s = 36))
         /\ p = 2 * n + 7 => (TxInRebuild(s, p, tx, e) <=> (e <=> s = 36) /\ (s # 36 => ~tx))
         /\ p > 2 * n + 7 => (TxInRebuild(s, p, tx, e) <=> e)
  <1> DEFINE A == p \in 1..(2 * n + 6)  B == p = 0  C == p \in {-1, 2 * n + 7}  D == p \in 0..(2 * n + 7)
  <1>1. TxInRebuild(s, p, tx, e) <=> /\ A => tx
                                     /\ B => ~tx
                                     /\ s # 36 /\ C => ~tx
                                     /\ e <=> (s = 36 \/ ~D)
    BY DEF TxInRebuild
  <1>2. n \in {2, 10}  BY RebuildSizes
  <1>3. /\ p \in {-3, -2} => ~A /\ ~B /\ ~C /\ ~D
        /\ p = -1 => ~A /\ ~B /\ C /\ ~D
        /\ p = 0 => ~A /\ B /\ ~C /\ D
        /\ p = 1 => A /\ ~B /\ ~C /\ D
        /\ p = 2 * n + 6 => A /\ ~B /\ ~C /\ D
        /\ p = 2 * n + 7 => ~A /\ ~B /\ C /\ D
        /\ p > 2 * n + 7 => ~A /\ ~B /\ ~C /\ ~D
    BY <1>2
  <1> HIDE DEF A, B, C, D
  <1> QED BY <1>1, <1>3

\* The same after COMMIT
LEMMA TxAfter ==
  ASSUME NEW s \in Rebuilds, NEW p \in Int, NEW tx \in BOOLEAN, NEW e \in BOOLEAN,
         \/ p \in {-3, -2} /\ e
         \/ p = -1 /\ (s # 36 => ~tx) /\ e
         \/ p = 0 /\ ~tx /\ (e <=> s = 36)
         \/ p = 1 /\ tx /\ (e <=> s = 36)
         \/ p = 2 * Rebuilt(s).n + 7 /\ (s # 36 => ~tx) /\ (e <=> s = 36)
         \/ p > 2 * Rebuilt(s).n + 7 /\ e
  PROVE  TxInRebuild(s, p, tx, e)
  <1> DEFINE n == Rebuilt(s).n
  <1>1. n \in Int  BY RebuildSizes
  <1> HIDE DEF n
  <1> QED BY <1>1, TxOutside DEF n

\* A statement that is no DDL and no write leaves the database alone.
LEMMA RanSame ==
  ASSUME NEW db, NEW e, NEW s, s.op \in {"unless", "commit", "pragma", "begin"}
  PROVE  Ran(db, e, s) = db
  BY DEF Ran

\* What a guard, COMMIT, PRAGMA or BEGIN changes
LEMMA EdgeNow ==
  ASSUME MigrationsInv, Execute, stage \in Rebuilds, Rest[at].op \in {"unless", "commit", "pragma", "begin"}
  PROVE  /\ mwork' = mwork /\ at' = Jump(Rest[at]) /\ (Rest[at].op # "unless" => at' = at + 1)
         /\ inTx' = (Rest[at].op # "commit" /\ (inTx \/ Rest[at].op = "begin"))
         /\ fk' = (IF Rest[at].op = "pragma" /\ ~inTx THEN Rest[at].flag ELSE fk)
         /\ inTx \in BOOLEAN /\ fk \in BOOLEAN /\ inTx' \in BOOLEAN
  <1> DEFINE st == Rest[at]
  <1>1. mwork' = Ran(mwork, fk, st) /\ bot = "booting" /\ ~Skipped /\ at' = Jump(st)  BY ExecuteFrame
  <1>2. inTx \in BOOLEAN /\ fk \in BOOLEAN /\ stage # 0  BY <1>1, RebuildNow
  <1>3. mwork' = mwork  BY <1>1, RanSame
  <1>4. st.op # "unless" => at' = at + 1  BY <1>1 DEF Jump
  <1>5. Opens(st) <=> st.op = "begin"  BY DEF Opens
  <1>6. /\ inTx' = (st.op # "commit" /\ (inTx \/ Opens(st)))
        /\ fk' = (IF st.op = "pragma" /\ ~inTx THEN st.flag ELSE fk)
    BY <1>2, TxIs
  <1> HIDE DEF st
  <1>7. inTx' = (st.op # "commit" /\ (inTx \/ st.op = "begin"))  BY <1>5, <1>6
  <1> QED BY <1>1, <1>2, <1>3, <1>4, <1>6, <1>7 DEF st

\* COMMIT before and in the rebuild
LEMMA EdgeCommit ==
  ASSUME MigrationsInv, Execute, stage \in Rebuilds, NEW p \in Int, p = Place, NEW n, n = Rebuilt(stage).n,
         p = (IF stage = 36 THEN -1 ELSE -2) \/ p = 2 * n + 6, at \in Int, TxInRebuild(stage, p, inTx, fk)
  PROVE  MigrationsInv'
  <1>1. Rest[at] = Commit
    <2>1. CASE p = 2 * n + 6  BY <2>1, PlaceCommit
    <2>2. CASE stage = 36 /\ p = -1  BY <2>2, PlaceTrials
    <2>3. CASE stage # 36 /\ p = -2  BY <2>3, PlaceAround
    <2> QED BY <2>1, <2>2, <2>3
  <1>2. Rest[at].op = "commit"  BY <1>1, CommitIs
  <1>3. mwork' = mwork /\ at' = at + 1 /\ inTx' = FALSE /\ fk' = fk /\ fk \in BOOLEAN /\ inTx \in BOOLEAN
    BY <1>2, EdgeNow
  <1>4. n \in {2, 10} /\ SkipPlace(stage) >= 2 * n + 7 /\ LastPlace(stage) >= SkipPlace(stage)
        /\ SkipPlace(stage) \in Int /\ LastPlace(stage) \in Int
    <2> DEFINE k == SkipPlace(stage)  l == LastPlace(stage)
    <2>1. /\ n \in {2, 10} /\ k <= l /\ k \in Int /\ l \in Int
          /\ k = (IF stage = 36 THEN 2 * n + 7 ELSE 2 * n + 8)
      BY RebuildSizes
    <2> HIDE DEF k, l
    <2>2. k >= 2 * n + 7 /\ l >= k  BY <2>1
    <2> QED BY <2>1, <2>2 DEF k, l
  <1>5. p \notin 1..(2 * n + 5) /\ p # LastPlace(stage)  BY <1>4
  <1>6. TxInRebuild(stage, p + 1, inTx', fk')
    <2> DEFINE q == p + 1
    <2>0. SUFFICES TxInRebuild(stage, q, inTx', fk')
      OBVIOUS
    <2>1. CASE p = 2 * n + 6
      <3>1. fk <=> stage = 36  BY <2>1, <1>3, TxOutside
      <3>2. p + 1 = 2 * n + 7  BY <2>1, <1>4
      <3>3. q \in Int /\ q = 2 * n + 7  BY <3>2, <1>4
      <3>4. inTx' \in BOOLEAN /\ ~inTx'  BY <1>3
      <3>5. fk' \in BOOLEAN /\ (fk' <=> stage = 36)  BY <3>1, <1>3, Zenon
      <3> HIDE DEF q
      <3> QED BY <3>3, <3>4, <3>5, TxAfter
    <2>2. CASE stage = 36 /\ p = -1
      <3>1. fk  BY <2>2, <1>3, TxOutside
      <3>2. p + 1 = 0  BY <2>2
      <3>3. q \in Int /\ q = 0  BY <3>2
      <3>4. inTx' \in BOOLEAN /\ ~inTx'  BY <1>3
      <3>5. fk' \in BOOLEAN /\ (fk' <=> stage = 36)  BY <3>1, <1>3, <2>2, Zenon
      <3> HIDE DEF q
      <3> QED BY <3>3, <3>4, <3>5, TxAfter
    <2>3. CASE stage # 36 /\ p = -2
      <3>1. fk  BY <2>3, <1>3, TxOutside
      <3>2. p + 1 = -1  BY <2>3
      <3>3. q \in Int /\ q = -1  BY <3>2
      <3>4. inTx' \in BOOLEAN /\ ~inTx'  BY <1>3
      <3>5. fk' \in BOOLEAN /\ fk'  BY <3>1, <1>3, Zenon
      <3> HIDE DEF q
      <3> QED BY <3>3, <3>4, <3>5, TxAfter
    <2> QED BY <2>1, <2>2, <2>3
  <1> QED BY <1>3, <1>5, <1>6, EdgeKept

\* PRAGMA foreign_keys = OFF before the rebuild, ON after it
LEMMA EdgePragma ==
  ASSUME MigrationsInv, Execute, stage \in Rebuilds, NEW p \in Int, p = Place, NEW n, n = Rebuilt(stage).n,
         stage # 36, p = -1 \/ p = 2 * n + 7, at \in Int, TxInRebuild(stage, p, inTx, fk)
  PROVE  MigrationsInv'
  <1>1. Rest[at] = Pragma(p # -1)
    <2>1. n \in {2, 10}  BY RebuildSizes
    <2>2. CASE p = -1
      <3>1. Rest[at] = Pragma(FALSE)  BY <2>2, PlaceAround DEF EnforceOff
      <3>2. (p # -1) = FALSE  BY <2>2
      <3> QED BY <3>1, <3>2
    <2>3. CASE p = 2 * n + 7
      <3>1. Rest[at] = Pragma(TRUE)  BY <2>3, PlaceAround DEF EnforceOn
      <3>2. (p # -1) = TRUE  BY <2>1, <2>3
      <3> QED BY <3>1, <3>2
    <2> QED BY <2>2, <2>3
  <1>2. Rest[at].op = "pragma" /\ Rest[at].flag = (p # -1)  BY <1>1, PragmaIs
  <1>3. inTx \in BOOLEAN /\ fk \in BOOLEAN /\ inTx' = inTx /\ mwork' = mwork /\ at' = at + 1
        /\ fk' = (IF ~inTx THEN p # -1 ELSE fk)
    BY <1>2, EdgeNow
  <1>4. ~inTx  BY <1>3, TxOutside
  <1>5. n \in {2, 10} /\ LastPlace(stage) > 2 * n + 7 /\ LastPlace(stage) \in Int
    <2> DEFINE k == SkipPlace(stage)  l == LastPlace(stage)
    <2>1. /\ n \in {2, 10} /\ k <= l /\ k \in Int /\ l \in Int
          /\ k = (IF stage = 36 THEN 2 * n + 7 ELSE 2 * n + 8)
      BY RebuildSizes
    <2> HIDE DEF k, l
    <2>2. l > 2 * n + 7  BY <2>1
    <2> QED BY <2>1, <2>2 DEF l
  <1>6. p \notin 1..(2 * n + 5) /\ p # LastPlace(stage)  BY <1>5
  <1>7. TxInRebuild(stage, p + 1, inTx', fk')
    <2> DEFINE q == p + 1
    <2>0. SUFFICES TxInRebuild(stage, q, inTx', fk')
      OBVIOUS
    <2>1. CASE p = -1
      <3>1. fk' = FALSE /\ q = 0 /\ q \in Int /\ inTx' \in BOOLEAN /\ ~inTx'  BY <2>1, <1>3, <1>4
      <3> HIDE DEF q
      <3> QED BY <3>1, TxAfter
    <2>2. CASE p = 2 * n + 7
      <3>1. p # -1 /\ q > 2 * n + 7 /\ q \in Int  BY <2>2, <1>5
      <3>2. fk' = TRUE /\ inTx' \in BOOLEAN  BY <3>1, <1>3, <1>4
      <3> HIDE DEF q
      <3> QED BY <3>1, <3>2, TxAfter
    <2> QED BY <2>1, <2>2
  <1>8. fk' \in BOOLEAN  BY <1>3
  <1> QED BY <1>3, <1>6, <1>7, <1>8, EdgeKept

\* BEGIN
LEMMA EdgeBegin ==
  ASSUME MigrationsInv, Execute, stage \in Rebuilds, Place = 0, at \in Int, TxInRebuild(stage, 0, inTx, fk)
  PROVE  MigrationsInv'
  <1>1. Rest[at] = Begin  BY PlaceBegin
  <1>2. Rest[at].op = "begin"  BY <1>1, BeginIs
  <1>3. mwork' = mwork /\ at' = at + 1 /\ inTx' = TRUE /\ fk' = fk /\ fk \in BOOLEAN /\ inTx \in BOOLEAN
    BY <1>2, EdgeNow
  <1>4. fk <=> stage = 36  BY <1>3, TxOutside
  <1>5. TxInRebuild(stage, 1, inTx', fk')
    <2>1. inTx' \in BOOLEAN /\ fk' \in BOOLEAN /\ inTx' /\ (fk' <=> stage = 36) /\ 1 \in Int  BY <1>3, <1>4
    <2> QED BY <2>1, TxAfter
  <1>6. 0 \notin 1..(2 * Rebuilt(stage).n + 5) /\ 0 # LastPlace(stage)
    <2> DEFINE n == Rebuilt(stage).n  k == SkipPlace(stage)  l == LastPlace(stage)
    <2>1. /\ n \in {2, 10} /\ k <= l /\ k \in Int /\ l \in Int
          /\ k = (IF stage = 36 THEN 2 * n + 7 ELSE 2 * n + 8)
      BY RebuildSizes
    <2> HIDE DEF n, k, l
    <2>2. 0 # l  BY <2>1
    <2> QED BY <2>2 DEF l
  <1>7. 0 + 1 = 1 /\ 0 \in Int  OBVIOUS
  <1> QED BY <1>3, <1>5, <1>6, <1>7, EdgeKept

\* The guard at the head of a rebuild: on to the first statement, or past the rebuild
LEMMA EdgeUnless ==
  ASSUME MigrationsInv, Execute, stage \in Rebuilds, stage # 17, at = 1, NEW p \in Int, p = Place,
         p = (IF stage = 36 THEN -2 ELSE -3)
  PROVE  MigrationsInv'
  <1> DEFINE n == Rebuilt(stage).n  k == SkipPlace(stage)  l == LastPlace(stage)  b == Rebuilt(stage).begin
  <1>1. PICK x \in Whole :
            /\ Rest[1] = UnlessHas(x[1], x[2]) /\ Since(x) = stage
            /\ \A y \in Whole : Since(y) = stage /\ y # x
                  => /\ x = <<"announcement_batches", "scheduled_at">>
                     /\ y = <<"announcement_batches", "CHECK_scheduled">>
    BY PlaceUnless
  <1>2. Rest[at].op = "unless" /\ Rest[at].names = {x}
    <2>1. Rest[at] = UnlessHas(x[1], x[2])  BY <1>1
    <2>2. x = <<x[1], x[2]>>  BY WholePairs
    <2>3. UnlessHas(x[1], x[2]).op = "unless"  BY UnlessIs, ZenonT(40)
    <2>4. UnlessHas(x[1], x[2]).names = {<<x[1], x[2]>>}  BY UnlessIs
    <2> QED BY <2>1, <2>2, <2>3, <2>4
  <1>3. mwork' = mwork /\ fk' = fk /\ inTx' = inTx /\ at' = Jump(Rest[at])
    BY <1>2, EdgeNow
  <1>4. /\ Fits(mwork) /\ at \in 1..Len(Rest) /\ at \in Int /\ DbInRebuild(stage, p, mwork, LegacyRows)
        /\ inTx \in BOOLEAN /\ fk \in BOOLEAN /\ TxInRebuild(stage, p, inTx, fk)
    BY ExecuteFrame, RebuildNow
  <1>5. /\ n \in {2, 10} /\ b \in {3, 4} /\ k \in Int /\ l \in Int /\ k <= l
        /\ k = (IF stage = 36 THEN 2 * n + 7 ELSE 2 * n + 8)
    BY RebuildSizes
  <1>6. fk  BY <1>4, TxOutside
  <1>7. inTx' \in BOOLEAN /\ fk' \in BOOLEAN /\ fk'  BY <1>3, <1>4, <1>6, Zenon
  <1>8. CASE x \notin mwork.has
    <2>1. at' = at + 1
      <3>1. ~(Rest[at].names \subseteq mwork.has)  BY <1>2, <1>8
      <3> QED BY <3>1, <1>3 DEF Jump
    <2>2. p \notin 1..(2 * n + 5) /\ p # l
      <3> HIDE DEF n, k, l, b
      <3> QED BY <1>5
    <2>3. TxInRebuild(stage, p + 1, inTx', fk')
      <3> DEFINE q == p + 1
      <3>1. CASE stage = 36
        <4>1. q = -1 /\ q \in Int  BY <3>1
        <4> HIDE DEF q
        <4>2. TxInRebuild(stage, q, inTx', fk')  BY <4>1, <3>1, <1>7, TxAfter
        <4> QED BY <4>2 DEF q
      <3>2. CASE stage # 36
        <4>1. q = -2 /\ q \in Int  BY <3>2
        <4> HIDE DEF q
        <4>2. TxInRebuild(stage, q, inTx', fk')  BY <4>1, <1>7, TxAfter
        <4> QED BY <4>2 DEF q
      <3> QED BY <3>1, <3>2
    <2> HIDE DEF n, l, k, b
    <2> QED BY <1>3, <1>7, <2>1, <2>2, <2>3, EdgeKept DEF n, l
  <1>9. CASE x \in mwork.has
    <2>1. at' = Len(Statements(stage)) + 1
      <3>1. Rest[at].names \subseteq mwork.has  BY <1>2, <1>9
      <3> QED BY <3>1, <1>2, <1>3 DEF Jump
    <2>2. at' = b + k  BY <2>1, RebuildSkipped
    <2>3. Len(Rest) = b + l  BY RebuildLength
    <2>4. p # n + 5 /\ k > n + 5 /\ k # n + 5 /\ at' \in 1..Len(Rest) /\ k = at' - b
      <3> DEFINE r == Len(Rest)
      <3>1. r = b + l  BY <2>3
      <3> HIDE DEF n, k, l, b, r
      <3>2. b \in Int /\ n \in Int  BY <1>5
      <3>3. k > n + 5 /\ p # n + 5 /\ k # n + 5  BY <1>5
      <3>4. at' \in 1..r /\ k = at' - b  BY <1>5, <2>2, <3>1, <3>2, <3>3
      <3> QED BY <3>3, <3>4 DEF r
    <2>5. WholeTables \subseteq mwork.has /\ LegacyRows \subseteq mwork.rows  BY <1>4, <2>4, TablesThere
    <2>6. \A y \in Whole : Since(y) = stage => y \in mwork.has
      <3>1. <<"announcement_batches", "scheduled_at">> \in mwork.has
            => <<"announcement_batches", "CHECK_scheduled">> \in mwork.has
        BY <1>4 DEF Fits
      <3> QED BY <3>1, <1>1, <1>9
    <2>7. DbInRebuild(stage, k, mwork', LegacyRows)
      <3> HIDE DEF k
      <3> QED BY <1>3, <1>5, <2>4, <2>5, <2>6, LatePlace
    <2>8. TxInRebuild(stage, k, inTx', fk')
      <3>1. CASE stage = 36
        <4>1. k = 2 * n + 7 /\ k \in Int  BY <3>1, <1>5
        <4>2. /\ k \notin 1..(2 * n + 6) /\ k # 0
          <5> HIDE DEF k, n, l, b
          <5> QED BY <4>1, <1>5
        <4> HIDE DEF k
        <4> QED BY <4>1, <4>2, <3>1, <1>7 DEF TxInRebuild
      <3>2. CASE stage # 36
        <4>1. k > 2 * n + 7 /\ k \in Int
          <5> HIDE DEF k, n, l, b
          <5> QED BY <3>2, <1>5
        <4> HIDE DEF k
        <4> QED BY <4>1, <1>7, TxAfter
      <3> QED BY <3>1, <3>2
    <2>9. Fits(mwork') /\ mwork'.ver = mwork.ver  BY <1>3, <1>4
    <2> HIDE DEF k, l
    <2> QED BY <1>5, <1>7, <2>4, <2>7, <2>8, <2>9, RebuildKept
  <1> QED BY <1>8, <1>9

\* v29: the INSERT of the module row follows the rebuild.
LEMMA EdgeSeed ==
  ASSUME MigrationsInv, Execute, stage = 29, NEW p \in Int, p = Place, p = 2 * Rebuilt(29).n + 8
  PROVE  MigrationsInv'
  <1> DEFINE st == Rest[at]  d == Ran(mwork, fk, st)  q == p + 1
  <1>1. mwork' = d /\ bot = "booting" /\ ~Skipped /\ at' = Jump(st)  BY ExecuteFrame
  <1>2. stage \in Rebuilds /\ stage # 0  BY DEF Rebuilds
  <1>3. /\ Fits(mwork) /\ at \in 1..Len(Rest) /\ at \in Int /\ DbInRebuild(stage, p, mwork, LegacyRows)
        /\ inTx \in BOOLEAN /\ fk \in BOOLEAN /\ TxInRebuild(stage, p, inTx, fk)
    BY <1>1, <1>2, RebuildNow
  <1>4. Rebuilt(29).n = 10 /\ LastPlace(29) = 29  BY RebuiltAt, LastPlaceIs
  <1>5. p = 28 /\ q = 29 /\ q \in Int  BY <1>4
  <1>6. Writes(st)  BY <1>3, PlaceSeed
  <1>7. st.op = "write"  BY <1>6 DEF Writes
  <1>8. at' = at + 1  BY <1>1, <1>7 DEF Jump
  <1>9. inTx' = TRUE /\ fk' = fk  BY <1>2, <1>3, <1>7, TxIs DEF Opens
  <1>10. p > Rebuilt(stage).n + 5 /\ Rebuilt(stage).n + 5 # q  BY <1>4, <1>5
  <1>11. Fits(d) /\ d.ver = mwork.ver /\ DbInRebuild(stage, q, d, LegacyRows)
    <2> HIDE DEF st
    <2> QED BY <1>2, <1>3, <1>6, <1>10, IndexCreated
  <1>12. p # LastPlace(stage)  BY <1>4, <1>5
  <1>13. at' \in 1..Len(Rest) /\ q = at' - Rebuilt(stage).begin  BY <1>2, <1>3, <1>8, <1>12, PlaceNext
  <1>14. TxInRebuild(stage, q, inTx', fk')
    <2>1. fk
      <3>1. p > 2 * Rebuilt(stage).n + 7  BY <1>4, <1>5
      <3> QED BY <3>1, <1>2, <1>3, TxOutside
    <2>2. fk' \in BOOLEAN /\ fk'  BY <2>1, <1>3, <1>9, Zenon
    <2>3. inTx' \in BOOLEAN  BY <1>9
    <2>4. q > 2 * Rebuilt(stage).n + 7  BY <1>4, <1>5
    <2> HIDE DEF q
    <2> QED BY <2>2, <2>3, <2>4, <1>2, <1>5, TxAfter
  <1>15. fk' \in BOOLEAN  BY <1>3, <1>9
  <1> HIDE DEF q, d, st
  <1> QED BY <1>1, <1>2, <1>5, <1>10, <1>11, <1>13, <1>14, <1>15, RebuildKept

\* The version, after the rebuild or past it
LEMMA EdgeVersion ==
  ASSUME MigrationsInv, Execute, stage \in Rebuilds, Place = LastPlace(stage)
  PROVE  MigrationsInv'
  <1> DEFINE p == Place  n == Rebuilt(stage).n
  <1>1. /\ at \in Int /\ stage \in 1..CurrentVersion /\ mwork.ver = stage - 1 /\ p \in Int
        /\ DbInRebuild(stage, p, mwork, LegacyRows)
        /\ inTx \in BOOLEAN /\ fk \in BOOLEAN /\ TxInRebuild(stage, p, inTx, fk)
    BY ExecuteFrame, RebuildNow
  <1>2. Rest[at] = SetVersion /\ at = Len(Rest)  BY <1>1, PlaceVersion
  <1>3. /\ p > n + 5 /\ p # n + 5
        /\ (p > 2 * n + 7 \/ (stage = 36 /\ p = 2 * n + 7))
    <2> DEFINE k == SkipPlace(stage)  l == LastPlace(stage)
    <2>1. /\ n \in {2, 10} /\ k \in Int /\ l \in Int /\ k <= l /\ p = l
          /\ k = (IF stage = 36 THEN 2 * n + 7 ELSE 2 * n + 8)
          /\ l = (IF stage = 29 THEN 2 * n + 9 ELSE k)
      BY RebuildSizes
    <2> HIDE DEF n, k, l, p
    <2> QED BY <2>1
  <1>4. WholeTables \subseteq mwork.has /\ LegacyRows \subseteq mwork.rows
    <2> HIDE DEF p
    <2> QED BY <1>1, <1>3, TablesThere
  <1>5. \A x \in Whole : Since(x) = stage => x \in mwork.has  BY <1>1, <1>3 DEF DbInRebuild
  <1>6. fk
    <2> HIDE DEF p
    <2> QED BY <1>1, <1>3, TxOutside
  <1>7. fk = TRUE  BY <1>1, <1>6
  <1> QED BY <1>1, <1>2, <1>4, <1>5, <1>7, VersionStep

\* A statement outside the transaction of a rebuild keeps the invariant.
LEMMA RebuildEdge ==
  ASSUME MigrationsInv, Execute, stage \in Rebuilds, Place \notin 1..(2 * Rebuilt(stage).n + 5)
  PROVE  MigrationsInv'
  <1> DEFINE p == Place  n == Rebuilt(stage).n
  <1>1. /\ at \in 1..Len(Rest) /\ at \in Int /\ p \in Int /\ TxInRebuild(stage, p, inTx, fk)
    BY ExecuteFrame, RebuildNow
  <1>2. \/ at = 1 /\ stage # 17 /\ p = (IF stage = 36 THEN -2 ELSE -3)
        \/ p = (IF stage = 36 THEN -1 ELSE -2)
        \/ stage # 36 /\ p = -1
        \/ p = 0
        \/ p = 2 * n + 6
        \/ stage # 36 /\ p = 2 * n + 7
        \/ stage = 29 /\ p = 2 * n + 8
        \/ p = LastPlace(stage)
    BY <1>1, EdgePlaces
  <1>3. CASE at = 1 /\ stage # 17 /\ p = (IF stage = 36 THEN -2 ELSE -3)  BY <1>1, <1>3, EdgeUnless
  <1>4. CASE p = (IF stage = 36 THEN -1 ELSE -2) \/ p = 2 * n + 6  BY <1>1, <1>4, EdgeCommit
  <1>5. CASE stage # 36 /\ (p = -1 \/ p = 2 * n + 7)  BY <1>1, <1>5, EdgePragma
  <1>6. CASE p = 0  BY <1>1, <1>6, EdgeBegin
  <1>7. CASE stage = 29 /\ p = 2 * n + 8  BY <1>1, <1>7, EdgeSeed
  <1>8. CASE p = LastPlace(stage)  BY <1>8, EdgeVersion
  <1> HIDE DEF p, n
  <1> QED BY <1>2, <1>3, <1>4, <1>5, <1>6, <1>7, <1>8

\* Every statement of a rebuild does.
LEMMA RebuildStep ==
  ASSUME MigrationsInv, Execute, stage \in Rebuilds
  PROVE  MigrationsInv'
  BY RebuildStatement, RebuildEdge

\* SQLite takes a statement whose names are there.
LEMMA Takes ==
  ASSUME NEW db, NEW s, s.op \notin {"new", "begin"}, s.needs \subseteq db.has
  PROVE  ~Rejected(db, s)
  BY DEF Rejected

\* Inside the transaction every statement is accepted,
LEMMA BodyAccepted ==
  ASSUME MigrationsInv, bot = "booting", ~Skipped, stage \in Rebuilds, NEW p \in Int, p = Place,
         p \in 1..(2 * Rebuilt(stage).n + 5)
  PROVE  ~Rejected(mwork, Rest[at])
  <1> DEFINE st == Rest[at]  n == Rebuilt(stage).n  table == Rebuilt(stage).table
             copy == Rebuilt(stage).copy
  <1>1. /\ Fits(mwork) /\ mwork.ver = stage - 1 /\ stage \in 1..CurrentVersion /\ at \in Int
        /\ DbInRebuild(stage, p, mwork, LegacyRows)
    BY RebuildNow
  <1>2. n \in {2, 10} /\ n \in Int  BY RebuildSizes
  <1>3. \/ p = 1 \/ p \in 2..(n + 1) \/ p = n + 2 \/ p = n + 3 \/ p = n + 4 \/ p = n + 5
        \/ p \in (n + 6)..(2 * n + 5)
    <2>1. p >= 1 /\ p <= 2 * n + 5  OBVIOUS
    <2> HIDE DEF n
    <2> QED BY <2>1, <1>2
  <1>4. <<table, "table">> \in WholeTables  BY RebuiltTable
  <1>5. p # n + 5 => WholeTables \subseteq mwork.has  BY <1>1, TablesThere
  <1>6. SUFFICES ~Rejected(mwork, st)
    OBVIOUS
  <1>7. CASE p = 1
    <2>1. st = DropIfExists(copy)  BY <1>1, <1>7, PlaceDropOld
    <2>2. st.op = "drop" /\ st.needs = {}  BY <2>1, DropIs DEF DropIfExists, Stmt
    <2> HIDE DEF st
    <2> QED BY <2>2, Takes
  <1>8. CASE p \in 2..(n + 1)
    <2>1. Removes(st) /\ st.needs = {}  BY <1>1, <1>8, PlaceDropIndex
    <2>2. st.op = "dropindex"  BY <2>1 DEF Removes
    <2> HIDE DEF st
    <2> QED BY <2>1, <2>2, Takes
  <1>9. CASE p = n + 2
    <2>1. st = CreateNew(copy, Rebuilt(stage).cols)  BY <1>1, <1>9, PlaceCreate
    <2>2. \A x \in mwork.has : x[1] # copy
      <3>1. p \in 2..(n + 2)
        <4> HIDE DEF n
        <4> QED BY <1>2, <1>9
      <3> QED BY <3>1, <1>1, CopyAbsent
    <2>3. st.op = "new" /\ st.needs = {} /\ st.names = Of(copy, Rebuilt(stage).cols \cup {"table"})
      BY <2>1 DEF CreateNew, Stmt
    <2>4. \A x \in st.names : x[1] = copy  BY <2>3 DEF Of
    <2> HIDE DEF st
    <2>5. st.names \cap mwork.has = {}  BY <2>2, <2>4
    <2> QED BY <2>3, <2>5 DEF Rejected
  <1>10. CASE p = n + 3
    <2> DEFINE c == Copied(stage)  cols == Rebuilt(stage).cols
    <2>1. st = Copy(table, copy, c)  BY <1>1, <1>10, PlaceCopy
    <2>2. st.op = "copy" /\ st.needs = Of(table, c) \cup Of(copy, c)  BY <2>1 DEF Copy, Stmt
    <2>3. c \subseteq cols  BY CopiedIs
    <2>4. \A x \in c : Known(stage, table, x)  BY CopiedIs
    <2>5. Of(copy, cols \cup {"table"}) \subseteq mwork.has
      <3>1. p \in (n + 3)..(n + 5)
        <4> HIDE DEF n
        <4> QED BY <1>2, <1>10
      <3> QED BY <3>1, <1>1, CopyThere
    <2>6. WholeTables \subseteq mwork.has
      <3>1. p # n + 5
        <4> HIDE DEF n
        <4> QED BY <1>2, <1>10
      <3> QED BY <3>1, <1>5
    <2>7. \A x \in c : <<table, x>> \in mwork.has
      <3> SUFFICES ASSUME NEW x \in c PROVE <<table, x>> \in mwork.has
        OBVIOUS
      <3> DEFINE u == <<table, x>>
      <3>1. u \in Whole /\ Since(u) < stage  BY <2>4 DEF Known
      <3> HIDE DEF u
      <3>2. Since(u) \in Int  BY SinceInt
      <3>3. stage \in Int  BY <1>1, VersionInt
      <3>4. Since(u) <= mwork.ver  BY <3>1, <3>2, <3>3, <1>1
      <3>5. u \in mwork.has  BY <3>1, <3>4, <2>6, <1>1, ColumnsThere
      <3> QED BY <3>5 DEF u
    <2> HIDE DEF st, c, cols, table, copy
    <2>8. Of(copy, c) \subseteq mwork.has  BY <2>3, <2>5 DEF Of
    <2>9. Of(table, c) \subseteq mwork.has  BY <2>7 DEF Of
    <2> QED BY <2>2, <2>8, <2>9, Takes
  <1>11. CASE p = n + 4
    <2>1. st = Drop(table)  BY <1>1, <1>11, PlaceDrop
    <2>2. st.op = "drop" /\ st.needs = {<<table, "table">>}
      <3>1. st.op = "drop" /\ st.needs = Of(table, {"table"})  BY <2>1 DEF Drop, Stmt
      <3> QED BY <3>1, OfTable
    <2>3. WholeTables \subseteq mwork.has
      <3>1. p # n + 5
        <4> HIDE DEF n
        <4> QED BY <1>2, <1>11
      <3> QED BY <3>1, <1>5
    <2> HIDE DEF st
    <2> QED BY <2>2, <2>3, <1>4, Takes
  <1>12. CASE p = n + 5
    <2>1. st = Rename(copy, table)  BY <1>1, <1>12, PlaceRename
    <2>2. st.op = "rename" /\ st.needs = Of(copy, {"table"})  BY <2>1 DEF Rename, Stmt
    <2>3. Of(copy, Rebuilt(stage).cols \cup {"table"}) \subseteq mwork.has
      <3>1. p \in (n + 3)..(n + 5)
        <4> HIDE DEF n
        <4> QED BY <1>2, <1>12
      <3> QED BY <3>1, <1>1, CopyThere
    <2>4. Of(copy, {"table"}) \subseteq mwork.has
      <3> HIDE DEF copy
      <3> QED BY <2>3 DEF Of
    <2> HIDE DEF st
    <2> QED BY <2>2, <2>4, Takes
  <1>13. CASE p \in (n + 6)..(2 * n + 5)
    <2>1. Adds(st) /\ st.needs = {<<table, "table">>}  BY <1>1, <1>13, PlaceIndex
    <2>2. st.op = "ddl"  BY <2>1 DEF Adds
    <2>3. WholeTables \subseteq mwork.has
      <3>1. p # n + 5
        <4> HIDE DEF n
        <4> QED BY <1>2, <1>13
      <3> QED BY <3>1, <1>5
    <2> HIDE DEF st
    <2> QED BY <2>1, <2>2, <2>3, <1>4, Takes
  <1> HIDE DEF st, n
  <1> QED BY <1>3, <1>7, <1>8, <1>9, <1>10, <1>11, <1>12, <1>13

\* and outside it too.
LEMMA EdgeAccepted ==
  ASSUME MigrationsInv, bot = "booting", ~Skipped, stage \in Rebuilds, NEW p \in Int, p = Place,
         p \notin 1..(2 * Rebuilt(stage).n + 5)
  PROVE  ~Rejected(mwork, Rest[at])
  <1> DEFINE st == Rest[at]  n == Rebuilt(stage).n
  <1>1. /\ Fits(mwork) /\ at \in 1..Len(Rest) /\ at \in Int /\ inTx \in BOOLEAN /\ fk \in BOOLEAN
        /\ DbInRebuild(stage, p, mwork, LegacyRows) /\ TxInRebuild(stage, p, inTx, fk)
    BY RebuildNow
  <1>2. n \in {2, 10} /\ n \in Int  BY RebuildSizes
  <1>3. \/ at = 1 /\ stage # 17 /\ p = (IF stage = 36 THEN -2 ELSE -3)
        \/ p = (IF stage = 36 THEN -1 ELSE -2)
        \/ stage # 36 /\ p = -1
        \/ p = 0
        \/ p = 2 * n + 6
        \/ stage # 36 /\ p = 2 * n + 7
        \/ stage = 29 /\ p = 2 * n + 8
        \/ p = LastPlace(stage)
    BY <1>1, EdgePlaces
  <1>4. SUFFICES ~Rejected(mwork, st)
    OBVIOUS
  <1>5. CASE at = 1 /\ stage # 17
    <2>1. PICK x \in Whole : Rest[1] = UnlessHas(x[1], x[2])  BY <1>5, PlaceUnless
    <2>2. st = UnlessHas(x[1], x[2])  BY <1>5, <2>1
    <2>3. st.op = "unless" /\ st.needs = {}  BY <2>2 DEF UnlessHas, Stmt
    <2> HIDE DEF st
    <2> QED BY <2>3, Takes
  <1>6. CASE p = (IF stage = 36 THEN -1 ELSE -2) \/ p = 2 * n + 6
    <2>1. st = Commit
      <3>1. CASE p = 2 * n + 6  BY <1>1, <3>1, PlaceCommit
      <3>2. CASE stage = 36 /\ p = -1  BY <1>1, <3>2, PlaceTrials
      <3>3. CASE stage # 36 /\ p = -2  BY <1>1, <3>3, PlaceAround
      <3> QED BY <1>6, <3>1, <3>2, <3>3
    <2>2. st.op = "commit" /\ st.needs = {}  BY <2>1, CommitIs
    <2> HIDE DEF st
    <2> QED BY <2>2, Takes
  <1>7. CASE stage # 36 /\ (p = -1 \/ p = 2 * n + 7)
    <2>1. st = EnforceOff \/ st = EnforceOn  BY <1>1, <1>7, PlaceAround
    <2>2. st.op = "pragma" /\ st.needs = {}  BY <2>1, PragmaIs DEF EnforceOff, EnforceOn
    <2> HIDE DEF st
    <2> QED BY <2>2, Takes
  <1>8. CASE p = 0
    <2>1. st = Begin  BY <1>1, <1>8, PlaceBegin
    <2>2. ~inTx  BY <1>1, <1>8, TxOutside
    <2>3. st.op = "begin" /\ st.needs = {}  BY <2>1, BeginIs
    <2> HIDE DEF st
    <2> QED BY <2>2, <2>3 DEF Rejected
  <1>9. CASE stage = 29 /\ p = 2 * n + 8
    <2>1. Writes(st) /\ st.needs \subseteq WholeTables  BY <1>1, <1>9, PlaceSeed
    <2>2. st.op = "write"  BY <2>1 DEF Writes
    <2>3. WholeTables \subseteq mwork.has
      <3>1. p # n + 5
        <4> HIDE DEF n
        <4> QED BY <1>2, <1>9
      <3> QED BY <3>1, <1>1, TablesThere
    <2> HIDE DEF st
    <2> QED BY <2>1, <2>2, <2>3, Takes
  <1>10. CASE p = LastPlace(stage)
    <2>1. st = SetVersion  BY <1>1, <1>10, PlaceVersion
    <2>2. st.op = "version" /\ st.needs = {}  BY <2>1, SetVersionIs
    <2> HIDE DEF st
    <2> QED BY <2>2, Takes
  <1> HIDE DEF st, n
  <1> QED BY <1>3, <1>5, <1>6, <1>7, <1>8, <1>9, <1>10

\* No statement of a rebuild is rejected.
LEMMA RebuildAccepted ==
  ASSUME MigrationsInv, bot = "booting", ~Skipped, stage \in Rebuilds
  PROVE  ~Rejected(mwork, Rest[at])
  <1>1. Place \in Int  BY RebuildNow
  <1> QED BY <1>1, BodyAccepted, EdgeAccepted

-----------------------------------------------------------------------------
(* The other steps *)

\* The kinds of stages
LEMMA Stages == 0..LastStage = {0, 9, LastStage} \cup Plain \cup Rebuilds
  BY DEF Plain, Rebuilds, LastStage, CurrentVersion

\* No statement of the bootstrap is rejected.
LEMMA Accepted ==
  ASSUME MigrationsInv, bot = "booting", ~Skipped, at <= Len(Rest)
  PROVE  ~Rejected(mwork, Rest[at])
  <1>1. stage \in 0..LastStage  BY DEF MigrationsInv, PositionInv
  <1>2. stage \in {0, 9, LastStage} \cup Plain \cup Rebuilds  BY <1>1, Stages
  <1>3. CASE stage = 0
    <2>0. Len(Rest) = 23  BY <1>3, BaseLength
    <2>1. at \in 1..(Len(Rest) + 1)  BY DEF MigrationsInv, PositionInv
    <2>2. at \in 1..23  BY <2>0, <2>1
    <2> QED BY <1>3, <2>2, BaseAccepted
  <1>4. CASE stage = 9  BY <1>4, NineAccepted
  <1>5. CASE stage = LastStage  BY <1>5, LastAccepted
  <1>6. CASE stage \in Plain  BY <1>6, PlainAccepted
  <1>7. CASE stage \in Rebuilds  BY <1>7, RebuildAccepted
  <1> QED BY <1>2, <1>3, <1>4, <1>5, <1>6, <1>7

\* A statement keeps the invariant.
LEMMA ExecuteStep == MigrationsInv /\ Execute => MigrationsInv'
  <1> SUFFICES ASSUME MigrationsInv, Execute PROVE MigrationsInv'
    OBVIOUS
  <1>1. stage \in 0..LastStage  BY ExecuteFrame DEF MigrationsInv, PositionInv
  <1>2. stage \in {0, 9, LastStage} \cup Plain \cup Rebuilds  BY <1>1, Stages
  <1> QED BY <1>2, BaseStep, NineStep, LastStep, PlainStep, RebuildStep

\* Every stage has a statement.
LEMMA StageLength == stage \in 0..LastStage => Len(Rest) \in Nat /\ Len(Rest) >= 1
  <1> SUFFICES ASSUME stage \in 0..LastStage PROVE Len(Rest) \in Nat /\ Len(Rest) >= 1
    OBVIOUS
  <1>1. stage \in {0, 9, LastStage} \cup Plain \cup Rebuilds  BY Stages
  <1>2. CASE stage = 0
    <2>1. Len(Rest) = 23  BY <1>2, BaseLength
    <2> QED BY <2>1
  <1>3. CASE stage = 9
    <2>1. Len(Rest) = 12  BY <1>3, NineLength
    <2> QED BY <2>1
  <1>4. CASE stage = LastStage  BY <1>4, LastLength
  <1>5. CASE stage \in Plain
    <2> DEFINE c == Len(Chain[stage])
    <2>1. c \in Nat /\ Len(Rest) = c + 1  BY <1>5, PlainRest
    <2> HIDE DEF c
    <2> QED BY <2>1
  <1>6. CASE stage \in Rebuilds
    <2> DEFINE n == Rebuilt(stage).n  b == Rebuilt(stage).begin  k == SkipPlace(stage)
               l == LastPlace(stage)
    <2>1. Len(Rest) = b + l  BY <1>6, RebuildLength
    <2>2. /\ n \in {2, 10} /\ b \in {3, 4} /\ k \in Int /\ l \in Int /\ k <= l
          /\ k = (IF stage = 36 THEN 2 * n + 7 ELSE 2 * n + 8)
      BY <1>6, RebuildSizes
    <2> HIDE DEF n, b, k, l
    <2> QED BY <2>1, <2>2
  <1> QED BY <1>1, <1>2, <1>3, <1>4, <1>5, <1>6

\* So does the step to the next stage.
LEMMA AdvanceStep == MigrationsInv /\ Advance => MigrationsInv'
  <1> SUFFICES ASSUME MigrationsInv, Advance PROVE MigrationsInv'
    OBVIOUS
  <1>1. /\ Fits(mwork) /\ inTx \in BOOLEAN /\ fk \in BOOLEAN /\ (~inTx => mdisk = mwork)
        /\ PositionInv /\ TablesInv /\ RebuildInv /\ ProgressInv /\ bot = "booting"
        /\ Skipped \/ at > Len(Rest)
        /\ legacy \in FirstVersions /\ Fits(mdisk) /\ LegacyRows \subseteq mdisk.rows
    BY DEF MigrationsInv, Advance
  <1>2. stage \in 0..LastStage /\ at \in 1..(Len(Rest) + 1) /\ Len(Rest) \in Nat
    BY <1>1, StageLength DEF PositionInv
  <1>3. /\ UNCHANGED <<mdisk, mwork, inTx, fk, trouble, bootCrashes, legacy>> /\ LegacyRows' = LegacyRows
    BY DEF Advance, LegacyRows
  <1>4. /\ Fits(mdisk)' /\ (LegacyRows \subseteq mdisk.rows)' /\ legacy' \in FirstVersions
        /\ Fits(mwork)' /\ inTx' \in BOOLEAN /\ fk' \in BOOLEAN /\ (~inTx' => mdisk' = mwork')
    BY <1>1, <1>3 DEF Fits
  <1>5. ~Rebuilding
    BY <1>1, <1>2 DEF Rebuilding, PositionInv, Rebuilds, CurrentVersion
  <1>6. LegacyRows \subseteq mwork.rows /\ fk = TRUE /\ (stage # 0 => WholeTables \subseteq mwork.has)
    BY <1>1, <1>5 DEF TablesInv
  <1>7. CASE stage < LastStage
    <2>1. stage' = stage + 1 /\ at' = 1 /\ bot' = bot  BY <1>7 DEF Advance
    <2>2. stage' \in 1..LastStage  BY <1>2, <1>7, <2>1 DEF LastStage, CurrentVersion
    <2>3. WholeTables \subseteq mwork.has
      <3>1. CASE stage = 0
        <4>1. Len(Rest) = 23 /\ ~Skipped  BY <3>1, BaseLength, BaseStage
        <4>2. at = 24  BY <4>1, <1>1, <1>2
        <4>3. \A i \in 1..(at - 1) : <<Tables[i].table, "table">> \in mwork.has
          BY <3>1, <4>1, <1>1 DEF ProgressInv
        <4>4. at - 1 = 23  BY <4>2
        <4>5. \A i \in 1..23 : <<Tables[i].table, "table">> \in mwork.has  BY <4>3, <4>4
        <4>6. DOMAIN Tables = 1..23  BY TableCount
        <4> QED BY <4>5, <4>6 DEF WholeTables
      <3>2. CASE stage # 0  BY <3>2, <1>6
      <3> QED BY <3>1, <3>2
    <2>4. mwork.ver >= stage' - 1
      <3>0. mwork.ver \in 0..CurrentVersion  BY <1>1 DEF Fits
      <3>1. CASE stage = 0
        <4>1. mwork.ver \in Nat  BY <3>0 DEF CurrentVersion
        <4>2. stage' - 1 = 0  BY <3>1, <2>1
        <4> QED BY <4>1, <4>2
      <3>2. CASE stage # 0
        <4>1. stage \in 1..CurrentVersion  BY <3>2, <1>2, <1>7 DEF LastStage, CurrentVersion
        <4>2. Skipped  BY <4>1, <1>1, <1>2 DEF PositionInv
        <4> QED BY <4>1, <4>2, <2>1 DEF Skipped, CurrentVersion
      <3> QED BY <3>1, <3>2
    <2>5. Len(Rest)' \in Nat /\ Len(Rest)' >= 1
      <3>1. (stage \in 0..LastStage => Len(Rest) \in Nat /\ Len(Rest) >= 1)'  BY StageLength, PTL
      <3>2. (stage \in 0..LastStage)'  BY <2>2 DEF LastStage, CurrentVersion
      <3> QED BY <3>1, <3>2
    <2>6. PositionInv'
      <3>1. at' \in 1..(Len(Rest') + 1) /\ at' <= Len(Rest')  BY <2>1, <2>5
      <3>2. stage' \in 0..LastStage  BY <2>2 DEF LastStage, CurrentVersion
      <3> QED BY <3>1, <3>2, <2>4, <1>3 DEF PositionInv
    <2>7. TablesInv'  BY <1>3, <1>6, <2>3 DEF TablesInv
    <2>8. RebuildInv'
      <3> SUFFICES ASSUME Rebuilding' PROVE TxInRebuild(stage', Place', inTx', fk')
              /\ DbInRebuild(stage', Place', mwork', LegacyRows')
        BY DEF RebuildInv
      <3>1. stage' \in Rebuilds  BY DEF Rebuilding
      <3>2. /\ Rebuilt(stage').n \in {2,
              10} /\ Rebuilt(stage').begin = (IF stage' \in {16, 29} THEN 4 ELSE 3)
        BY <3>1, RebuiltN, RebuiltBegin
      <3>3. Place' = 1 - Rebuilt(stage').begin  BY <2>1 DEF Place
      <3>4. Place' \in {-3, -2} /\ (stage' = 36 => Place' = -2)  BY <3>2, <3>3
      <3>5. TxInRebuild(stage', Place', inTx', fk')
        <4> DEFINE p == Place'  n == Rebuilt(stage').n
        <4>1. p # 0 /\ p \notin 1..(2 * n + 6) /\ p \notin {-1, 2 * n + 7} /\ p \notin 0..(2 * n + 7)
          BY <3>2, <3>4
        <4> QED BY <4>1, <1>3, <1>6 DEF TxInRebuild
      <3>6. DbInRebuild(stage', Place', mwork', LegacyRows')
        <4> DEFINE p == Place'  n == Rebuilt(stage').n
        <4>1. p \notin 2..(n + 2) /\ p \notin (n + 3)..(n + 5) /\ p \notin {n + 4,
                n + 5} /\ ~(p > n + 5) /\ p # n + 5
          BY <3>2, <3>4
        <4> QED BY <4>1, <1>3, <1>6, <2>3 DEF DbInRebuild
      <3> QED BY <3>5, <3>6
    <2>9. ProgressInv'
      <3>1. stage' # 0 /\ at' = 1  BY <2>1, <2>2 DEF LastStage, CurrentVersion
      <3>2. ~(at' > Len(Rest'))  BY <2>1, <2>5
      <3>3. 1..(at' - 1) = {}  BY <3>1
      <3> QED BY <3>1, <3>2, <3>3 DEF ProgressInv
    <2>10. bot' = "booting"  BY <2>1, <1>1
    <2> QED BY <1>4, <2>6, <2>7, <2>8, <2>9, <2>10 DEF MigrationsInv
  <1>8. CASE ~(stage < LastStage)
    <2>1. stage = LastStage  BY <1>2, <1>8 DEF LastStage, CurrentVersion
    <2>2. bot' = "up" /\ stage' = stage /\ at' = at  BY <1>8 DEF Advance
    <2>3. at = Len(Rest) + 1
      <3>1. ~Skipped  BY <2>1 DEF Skipped, LastStage, CurrentVersion
      <3> QED BY <3>1, <1>1, <1>2
    <2>4. Rest' = Rest /\ (Skipped' <=> Skipped)  BY <2>2, <1>3, RestSame DEF Skipped
    <2>5. PositionInv'  BY <1>1, <1>3, <2>2, <2>4 DEF PositionInv
    <2>6. Rebuilding' <=> Rebuilding  BY <2>2, <2>4 DEF Rebuilding
    <2>7. TablesInv' /\ RebuildInv'  BY <1>3, <1>5, <1>6, <2>2, <2>6 DEF TablesInv, RebuildInv
    <2>8. ProgressInv'  BY <1>1, <1>3, <2>2, <2>4 DEF ProgressInv
    <2>9. stage' = LastStage /\ at' = Len(Rest') + 1  BY <2>1, <2>2, <2>3, <2>4
    <2> QED BY <1>4, <2>2, <2>5, <2>7, <2>8, <2>9 DEF MigrationsInv
  <1> QED BY <1>7, <1>8

\* A start begins with schema.sql on what is committed.
LEMMA StartStep ==
  ASSUME MigrationsInv, mwork' = mdisk, mdisk' = mdisk, inTx' = FALSE, fk' = TRUE, stage' = 0, at' = 1,
         legacy' = legacy, bot' \in {"booting", "down"}
  PROVE  MigrationsInv'
  <1>1. legacy \in FirstVersions /\ Fits(mdisk) /\ LegacyRows \subseteq mdisk.rows  BY DEF MigrationsInv
  <1>2. LegacyRows' = LegacyRows  BY DEF LegacyRows
  <1>3. Fits(mdisk)' /\ Fits(mwork)'  BY <1>1 DEF Fits
  <1>4. ~Rebuilding' /\ ~Skipped'  BY DEF Rebuilding, Rebuilds, Skipped
  <1>5. Len(Rest)' = 23
    <2>1. (stage = 0 => Len(Rest) = 23)'  BY BaseLength, PTL
    <2> QED BY <2>1
  <1>6. PositionInv'
    <2>1. at' \in 1..(Len(Rest') + 1)  BY <1>5
    <2>2. stage' \in 0..LastStage /\ stage' \notin 1..CurrentVersion  BY DEF LastStage, CurrentVersion
    <2> QED BY <2>1, <2>2 DEF PositionInv
  <1>7. TablesInv' /\ RebuildInv'  BY <1>1, <1>2, <1>4 DEF TablesInv, RebuildInv
  <1>8. ProgressInv'
    <2>1. stage' # 9 /\ stage' # LastStage /\ stage' \notin 1..CurrentVersion
        BY DEF LastStage, CurrentVersion
    <2>2. 1..(at' - 1) = {}  OBVIOUS
    <2> QED BY <2>1, <2>2 DEF ProgressInv
  <1> QED BY <1>1, <1>2, <1>3, <1>6, <1>7, <1>8 DEF MigrationsInv

\* A refusal by a validation keeps the invariant: what is not committed is gone.
LEMMA RaiseStep == MigrationsInv /\ Raise => MigrationsInv'
  <1> SUFFICES ASSUME MigrationsInv, Raise PROVE MigrationsInv'
    OBVIOUS
  <1>1. ~Rejected(mwork, Rest[at])  BY Accepted DEF Raise
  <1>2. bot' = "refused" /\ mdisk' = mdisk /\ legacy' = legacy  BY <1>1 DEF Raise
  <1>3. LegacyRows' = LegacyRows  BY <1>2 DEF LegacyRows
  <1>4. Fits(mdisk)'  BY <1>2 DEF MigrationsInv, Fits
  <1> QED BY <1>2, <1>3, <1>4 DEF MigrationsInv

\* So does the repair of the rows by the operator,
LEMMA RepairStep == MigrationsInv /\ Repair => MigrationsInv'
  <1> SUFFICES ASSUME MigrationsInv, Repair PROVE MigrationsInv'
    OBVIOUS
  <1>1. bot = "refused" /\ bot' = bot /\ mdisk' = mdisk /\ legacy' = legacy  BY DEF Repair
  <1>2. LegacyRows' = LegacyRows  BY <1>1 DEF LegacyRows
  <1>3. Fits(mdisk)'  BY <1>1 DEF MigrationsInv, Fits
  <1> QED BY <1>1, <1>2, <1>3 DEF MigrationsInv

\* and a step that changes nothing.
LEMMA StutterStep == MigrationsInv /\ UNCHANGED migrationVars => MigrationsInv'
  <1> SUFFICES ASSUME MigrationsInv, UNCHANGED migrationVars PROVE MigrationsInv'
    OBVIOUS
  <1>1. UNCHANGED <<mdisk, mwork, inTx, fk, stage, at, bot, trouble, bootCrashes, legacy>>
    BY DEF migrationVars
  <1>2. /\ LegacyRows' = LegacyRows /\ Rest' = Rest /\ (Skipped' <=> Skipped) /\ Place' = Place
        /\ (Rebuilding' <=> Rebuilding)
    BY <1>1 DEF LegacyRows, Rest, Skipped, Place, Rebuilding
  <1>3. /\ (Fits(mdisk)' <=> Fits(mdisk)) /\ (Fits(mwork)' <=> Fits(mwork))
    BY <1>1 DEF Fits
  <1>4. (PositionInv' <=> PositionInv) /\ (TablesInv' <=> TablesInv)
    BY <1>1, <1>2 DEF PositionInv, TablesInv
  <1>5. RebuildInv' <=> RebuildInv  BY <1>1, <1>2 DEF RebuildInv
  <1>6. ProgressInv' <=> ProgressInv  BY <1>1, <1>2 DEF ProgressInv
  <1> QED BY <1>1, <1>2, <1>3, <1>4, <1>5, <1>6 DEF MigrationsInv

\* The legacy database of every version but 8 fits its version.
LEMMA LegacyFits ==
  ASSUME NEW v \in 0..CurrentVersion, v # 8
  PROVE  Fits(Legacy(v))
  <1> DEFINE L == Legacy(v)
  <1> SUFFICES Fits(L)
    OBVIOUS
  <1>1. DOMAIN L = {"ver", "has", "rows"} /\ L.ver = v /\ L.has = LegacyNames(v)  BY DEF Legacy
  <1> HIDE DEF L
  <1>2. CASE v = 0
    <2>1. L.has = {}  BY <1>1, <1>2 DEF LegacyNames
    <2>2. /\ \A n \in Whole : Since(n) <= L.ver /\ <<n[1], "table">> \in L.has => n \in L.has
          /\ <<"announcement_batches", "scheduled_at">> \in L.has
               => <<"announcement_batches", "CHECK_scheduled">> \in L.has
      BY <2>1
    <2>3. DOMAIN L = {"ver", "has", "rows"} /\ L.ver \in 0..CurrentVersion  BY <1>1
    <2> QED BY <2>2, <2>3 DEF Fits
  <1>3. CASE v # 0
    <2> DEFINE A == UNION { Leaves(w) : w \in 1..v }
    <2>1. L.has = BaseNames \cup A  BY <1>1, <1>3 DEF LegacyNames
    <2>2. v \in Int /\ \A w \in 1..v : w \in 1..CurrentVersion  BY DEF CurrentVersion
    <2>3. \A x : x \in A <=> \E w \in 1..v : x \in Leaves(w)  OBVIOUS
    <2> HIDE DEF A
    <2>4. ASSUME NEW n \in Whole, Since(n) <= v, <<n[1], "table">> \in L.has
          PROVE  n \in L.has
      <3>1. CASE Since(n) = 0
        <4>1. CASE <<n[1], "table">> \in BaseNames  BY <3>1, <4>1, <2>1, BaseNamesWhole DEF TableWhole
        <4>2. CASE <<n[1], "table">> \in A
          <5>1. PICK w \in 1..v : <<n[1], "table">> \in Leaves(w)  BY <4>2, <2>3
          <5>2. n \in Leaves(w)  BY <5>1, <3>1, <2>2, LeavesWhole DEF TableWhole
          <5> QED BY <5>2, <2>1, <2>3
        <4> QED BY <4>1, <4>2, <2>1, <2>4
      <3>2. CASE Since(n) # 0
        <4>1. Since(n) \in 1..v
          <5>1. Since(n) \in 0..CurrentVersion  BY SinceRange
          <5> QED BY <5>1, <3>2, <2>2, <2>4 DEF CurrentVersion
        <4>2. n \in Leaves(Since(n))  BY <3>2, LeavesSince
        <4> QED BY <4>1, <4>2, <2>1, <2>3
      <3> QED BY <3>1, <3>2
    <2>5. <<"announcement_batches", "scheduled_at">> \in L.has
          => <<"announcement_batches", "CHECK_scheduled">> \in L.has
      BY <2>1, <2>2, <2>3, BaseNamesWhole, LeavesWhole DEF TableWhole
    <2>6. \A n \in Whole : Since(n) <= L.ver /\ <<n[1], "table">> \in L.has => n \in L.has  BY <2>4, <1>1
    <2>7. DOMAIN L = {"ver", "has", "rows"} /\ L.ver \in 0..CurrentVersion  BY <1>1
    <2> QED BY <2>5, <2>6, <2>7 DEF Fits
  <1> QED BY <1>2, <1>3

\* The invariant holds before this build first starts, for any version but 8: its proxy table
\* is the one whose rows a killed v9 loses.
LEMMA InitMigrations == 8 \notin FirstVersions /\ MigrationsInit => MigrationsInv
  <1> SUFFICES ASSUME 8 \notin FirstVersions, MigrationsInit PROVE MigrationsInv
    OBVIOUS
  <1>1. legacy \in FirstVersions /\ mdisk = Legacy(legacy) /\ bot = "down"  BY DEF MigrationsInit
  <1>2. Fits(mdisk)  BY <1>1, LegacyFits, VersionsAssumption
  <1> QED BY <1>1, <1>2 DEF MigrationsInv, LegacyRows

\* Every step keeps the invariant.
LEMMA NextMigrations == MigrationsInv /\ [MigrationsNext]_migrationVars => MigrationsInv'
  <1> SUFFICES ASSUME MigrationsInv, [MigrationsNext]_migrationVars PROVE MigrationsInv'
    OBVIOUS
  <1>1. CASE Connect  BY <1>1, StartStep DEF Connect
  <1>2. CASE Execute  BY <1>2, ExecuteStep
  <1>3. CASE Advance  BY <1>3, AdvanceStep
  <1>4. CASE Raise  BY <1>4, RaiseStep
  <1>5. CASE Repair  BY <1>5, RepairStep
  <1>6. CASE Kill  BY <1>6, StartStep DEF Kill
  <1>7. CASE UNCHANGED migrationVars  BY <1>7, StutterStep
  <1> QED BY <1>1, <1>2, <1>3, <1>4, <1>5, <1>6, <1>7 DEF MigrationsNext

\* The bot is not broken by a rejected statement; when it is up no row is missing, and the
\* schema is whole.
LEMMA InvIsSafe == MigrationsInv => BootIsSafe
  <1> SUFFICES ASSUME MigrationsInv PROVE BootIsSafe
    OBVIOUS
  <1>1. ChainNeverBreaks  BY DEF MigrationsInv, ChainNeverBreaks
  <1>2. ASSUME bot = "up"
        PROVE  /\ LegacyRows \subseteq mwork.rows /\ mdisk = mwork /\ mwork.ver = 40 /\ fk = TRUE
               /\ Whole \subseteq mwork.has
               /\ \A i \in 1..41 : Rest[i].op = "ddl" => Rest[i].names \subseteq mwork.has
               /\ stage = LastStage
    <2>1. stage = LastStage /\ at = Len(Rest) + 1  BY <1>2 DEF MigrationsInv
    <2>2. at = 42
      <3>1. Len(Rest) = 41  BY <2>1, LastLength
      <3> QED BY <2>1, <3>1
    <2>3. /\ LegacyRows \subseteq mwork.rows /\ fk = TRUE /\ mwork.ver = 40 /\ Whole \subseteq mwork.has
          /\ \A i \in 1..(at - 1) : Rest[i].op = "ddl" => Rest[i].names \subseteq mwork.has
          /\ ~inTx
      BY <1>2, <2>1, <2>2, LastNow
    <2>4. mdisk = mwork  BY <1>2, <2>3 DEF MigrationsInv
    <2>5. at - 1 = 41  BY <2>2
    <2>6. \A i \in 1..41 : Rest[i].op = "ddl" => Rest[i].names \subseteq mwork.has  BY <2>3, <2>5
    <2> QED BY <2>1, <2>3, <2>4, <2>6
  <1>3. RowsSurvive  BY <1>2 DEF RowsSurvive, LegacyRows
  <1>4. UpIsComplete
    <2> SUFFICES ASSUME bot = "up"
                 PROVE  /\ mdisk = mwork /\ mdisk.ver = CurrentVersion /\ fk
                        /\ UNION { Tables[i].names : i \in DOMAIN Tables } \subseteq mdisk.has
                        /\ UNION { Indexes[i].names : i \in DOMAIN Indexes } \subseteq mdisk.has
      BY DEF UpIsComplete
    <2>1. mdisk = mwork /\ mdisk.ver = CurrentVersion /\ fk  BY <1>2 DEF CurrentVersion
    <2>2. UNION { Tables[i].names : i \in DOMAIN Tables } \subseteq mdisk.has  BY <1>2 DEF Whole
    <2>3. ASSUME NEW i \in DOMAIN Indexes PROVE Indexes[i].names \subseteq mdisk.has
      <3>1. PICK j \in 1..40 : Rest[j] = Indexes[i] /\ Rest[j].op = "ddl"  BY <1>2, IndexesLast
      <3> QED BY <3>1, <1>2
    <2> QED BY <2>1, <2>2, <2>3
  <1> QED BY <1>1, <1>3, <1>4 DEF BootIsSafe

\* A start of the bot upgrades any older database but one of version 8 without a rejected
\* statement and without losing a row, however often it is killed (Database.bootstrap).
THEOREM StartsSafely ==
  ASSUME 8 \notin FirstVersions
  PROVE  MigrationsSpec => []BootIsSafe
  <1>1. MigrationsInit => MigrationsInv  BY InitMigrations
  <1> QED BY <1>1, NextMigrations, InvIsSafe, PTL DEF MigrationsSpec
=============================================================================
