# A verification project for vpnbot

vpnbot is a Telegram bot that issues and withdraws VPN keys on one host.  Its
database (SQLite) says who may have access; the daemons it configures (Xray,
AmneziaWG, Hysteria2, Dante, MTProxy) decide who really has it.  The core of the
program is keeping the two in step although every step can fail, the process can
die between any two of them, and several Telegram updates and background jobs run
at once on one asyncio event loop.

The modules here model that core in TLA+, check it with TLC on small instances,
and prove the most important invariants with TLAPS for every instance.
`PROJECT.json` lists the components, the runs, the source lines each definition
translates, the hazards and the theorems.

## Inventory

| Component | State | Operations | Talks to |
| --- | --- | --- | --- |
| Xray key service (`services/xray.py`) | rows of `vpn_keys` of type Xray; one service lock | create, revoke, delete, manual reconcile, startup reconciliation, label rename | key rows, Xray adapters (VLESS/TCP and XHTTP inbound), backend health, user lock |
| Xray configuration adapter (`adapters/xray_config.py`) | `config.json`, its backup, the running Xray | add, remove, rename client, ensure short id; apply by reload, restart, gRPC API or privileged helper; rollback | Xray, systemd, the root helper |
| Key rows (`repositories/vpn_keys.py`) | status, payload, expiry, counters | guarded status updates, counts, lists | database |
| Users (`services/users.py`) | role of each user | approve, set role, block with revocation of everything, unblock | all key and proxy services, user lock |
| Backend health (`services/backend_health.py`) | a degraded flag per backend, in memory | mark, require mutation allowed | every service, startup |
| Database access (`db/database.py`) | one shared connection, write lock | `transaction()`, implicit writes, reads | all repositories |
| AmneziaWG keys (`services/awg.py`, `adapters/ip_allocator.py`) | rows of type AWG, allocated addresses; one service lock | create, revoke, delete, manual reconcile, startup reconciliation | key rows, AmneziaWG adapter, backend health |
| AmneziaWG adapter (`adapters/awg_config.py`, `deploy/helpers/vpn-bot-awg-apply`) | interface file, its backup, the running interface | add, remove peer, sync; rollback | awg tools, the root helper |
| Hysteria2 (`services/hysteria.py`, `hy2_auth/`) | rows; a separate read-only auth process with its own connection | create, revoke, delete with a kick; answer an auth request, reopen a replaced file | Hysteria2 server, the database file |
| SOCKS5, MTProto (`services/socks5.py`, `services/mtproto.py`) | `proxy_accesses`, Linux users, MTProxy secrets | issue, revoke, delete, reconcile | Dante, MTProxy, user lock |
| Key bundles (`services/key_bundles.py`), subscription server | bundle rows over child keys, the token of the URL | create, revoke, delete, change fingerprint, reconcile composition, each over several backends; serve the links | key services, relays, modules |
| Key expiry (`services/key_expiry.py`) | reminder marks of the rows | remind, revoke batches of expired keys on a timer | key services, Telegram |
| Access requests, trials | requests and their decision, trial quota | request, approve, reject, issue a trial key | users, key services |
| Announcements | a batch and its delivery ledger | send, schedule, resume, cancel | Telegram |
| Relays | relay table, in-memory snapshot, health latch | create, edit, enable, delete, probe | links of keys, key rows |
| Protocol uninstall | protocol flags, host marker | switch off, plan, confirm, purge, remove | key services, root helper |
| Traffic statistics | totals per key, hourly buckets, archive | sample, add the delta, prune, archive on delete | backends |
| Anomaly detection | samples and cooldowns, in memory | scan, alert, revoke | access log, interfaces, bundles |
| WARP feeds | sources, stored prefixes, baseline, pending card, routed file | fetch, merge, refresh cycle, edit, approve, reject, reload | split manager, Telegram |
| WARP tunnel | state lock, route lock, monitor, kill switch | start, stop, install, delete, pull and restore routes | root helper |
| Offsite backup | time of the last backup | scheduled and manual backup, three artifacts | files, Telegram |
| Maintenance mode | a row and its copy in memory | enable, disable, gate, notify | Telegram |
| Server status | samples, columns, cached online count, refresh loops | sample, render, open, leave | `/proc`, backends |
| Schema bootstrap (`db/database.py`, `db/*.sql`) | schema version, tables, rows | forty migrations, validations, indexes | SQLite |
| Process lifecycle (`main.py`, `bot/app.py`) | single-instance lock, background loops | start, shut down in order | everything |
| Wizards of the chat (`bot/handlers/`) | FSM state and data, rate limiter | every step of the create, edit, proxy, announcement wizards | services |
| Texts, settings, deployment, audit, dashboards | views, files | - | - |

What is hard in it: a call is a chain of awaits, and the state read before one may
be stale after it; the file of a backend, the running backend and the row are three
copies that can only be changed one after the other; an apply that was reported
failed may have taken effect; the rollback of a failed step can fail too; locks are
taken in two layers; the process can be killed anywhere and startup has to work out
from the file and the rows what was going on.

What makes the components correct:

* key services: a key the database calls revoked or deleted gives no access; a key
  it calls active does; neither is undone by a failure, a crash or a race; a clean
  startup leaves file and rows in agreement;
* users: a user who was blocked without an error has no access and gets none back;
* backend health: a degraded backend is left alone by the running bot;
* locks: every call returns, startup ends;
* database: a transaction is all or nothing and isolated;
* addresses: two peers never share one;
* bundles: issued whole or not at all, never without a link while they change, dead
  from the first step of a revocation on;
* proxies and Hysteria2: who is let in is who the rows say;
* decisions: a stale card or request undoes nothing, one trial gives one key, one
  wizard issues one key with its own choices;
* jobs: an expired key is eventually revoked, nobody is reminded, told or alerted
  twice, a backup is always recent enough, a routed list is the one agreed on;
* totals never exceed the traffic and agree with the history;
* bootstrap upgrades any database without a rejected statement or a lost row;
* shutdown closes the database after its last user.

## Modules

| Module | Models |
| --- | --- |
| `XrayConfig` | the configuration adapter: file, backup, running process; edit and apply as two steps |
| `XrayKeys` | the key service on top of it, rows, roles, locks, degraded flag, blocking, crash, startup; the properties; the inductive invariant |
| `XrayKeysProofs` | types and `NoGhostClient` of `XrayKeys`, with its inductive invariant |
| `XrayAccessProofs` | the other safety properties of `XrayKeys`, on top of that invariant, and that it implements `KeyLife` |
| `KeyLife` | what a key service promises the rest of the bot: the life of a key and whom the file lets in |
| `Database` | the shared SQLite connection: units of work, readers, the write lock, cancellation, restart; the properties; the inductive invariant |
| `UnitStore` | what that connection promises: durable records that change a whole unit at a time, for one owner at a time |
| `Migrations` | bootstrap: schema.sql, the migrations, the validations and indexes.sql, statement by statement |
| `MigrationsProofs` | the theorem about `Migrations`, with its inductive invariant |
| `AwgConfig` | the AmneziaWG adapter: interface file, running interface; direct and helper mode |
| `AwgKeys` | the AmneziaWG key service on top of it, with the address allocator, crash, operator and startup; the properties |
| `AwgKeysProofs` | the theorems about `AwgKeys`, the implementation of `KeyLife` included |
| `KeyBundles` | all-in-one subscriptions over abstract key services, the bulk reconcile, the subscription endpoint |
| `ProtocolUninstall` | switching a protocol off and removing it from the host |
| `ProxyAccess` | SOCKS5 and MTProto accesses and the proxy half of `block_user` |
| `HysteriaKeys` | Hysteria2 keys, the auth process, sessions and kicks |
| `KeyExpiry` | reminders and revocation of expired keys |
| `AccessRequests` | access requests, trials, roles, user cards |
| `Dialogs` | the wizards of one chat over its FSM state |
| `Relays` | relay table, snapshot, keys issued through relays, health latch |
| `Announcements` | one batch, its ledger and the two tasks that may send it |
| `Maintenance` | maintenance switch, gate and notice |
| `Traffic` | totals, hourly history and archive from counters that restart |
| `Anomaly` | the anomaly scan |
| `Backups` | the backup schedule and the artifacts |
| `WarpFeeds` | the split list: feeds, merge, refresh cycle, edits |
| `WarpTunnel` | the WARP module, its monitor and its two locks |
| `HostStatus` | the live status panel |
| `Lifecycle` | start and shutdown of the process |
| `KeysProofs` | the theorems about `HysteriaKeys`, `ProtocolUninstall`, `ProxyAccess` and `KeyBundles` |
| `PeopleProofs` | the theorems about `Relays`, `Announcements`, `Maintenance`, `AccessRequests` and `Dialogs` |
| `HostProofs` | the theorems about `Lifecycle`, `HostStatus`, `Traffic`, `Anomaly`, `Backups` and `Database`, the refinement of `UnitStore` included |
| `JobsProofs` | the theorems about `WarpTunnel`, `KeyExpiry` and `WarpFeeds` |
| `MCXrayKeys`, `MCDatabase`, `MCAwgKeys`, `MCMigrations` | small instances of one module for TLC |
| `MCKeys`, `MCPeople`, `MCHost`, `MCJobs` | small instances of several modules that share no state: a behaviour runs one of them (`part`) |

Composition: `XrayKeys` extends `XrayConfig` and `AwgKeys` extends `AwgConfig`, a
service on top of its adapter.  `KeyBundles`, `AccessRequests`, `KeyExpiry` and
`ProtocolUninstall` use the key services only through what a call can return (done,
refused, failed with or without effect), which is what `XrayKeys`, `AwgKeys` and
`HysteriaKeys` show of one.  `KeyLife` states the part of it that does not depend on the
backend, and `XrayKeys` and `AwgKeys` implement it (`Promise`).  `KeyBundles` contains the subscription server as the
operator `Served`; `Maintenance` the mailing without a ledger.

### XrayConfig

`conf`, `sids` are the clients per inbound and the managed REALITY short ids in
`config.json`; `live` is what the running Xray serves; `saved` is the backup that
`_apply_or_restore` would put back.  An edit is `Replace` (test, backup,
`os.replace`) followed by `ApplyOk` or `ApplyFailed`.  A failed apply may leave the
running process in any of the states the code can produce: unchanged, with the new
file, with the old one, with the inbound removed and not added again (api mode), or
down; and the restore of the backup may itself raise.  `remove_client` returns
without a reload when the file needs no change (`RemovalChanges`).

A client stands for its UUID and label; the inbound and the short id of a key are
fixed when the key is made, so they are constants (`Transport`, `Sid`).  Two keys
may have the same short id: ids are drawn at random without a uniqueness check and
the code counts the other users of an id before it removes it
(`count_active_managed_short_id`, tested in `tests/test_security_and_recovery.py`).

### XrayKeys

`status` is the status column (`absent` before the INSERT, `gone` after the
DELETE).  A task (`Tasks`) is a Telegram update or a job; `pc` is the await it is
at and `job` holds its local variables.  The labels follow the code:

| Label | Where the code is |
| --- | --- |
| `user`, `lock` | waiting for the user lock, for `XrayService._lock` |
| `mark`, `insert` | under the lock, before the row is marked pending (a create checks roles again, then inserts) |
| `edit`, `apply` | in the adapter, before `os.replace` and after it |
| `finish`, `undo` | before the write that settles the row, or that records the failure |
| `comp`, `comp_apply`, `comp_status` | `_compensate_failed_create_after_apply` |
| `block`, `sweep` | `block_user`: before the role write, and in the revocation loop |

Every database write, every edit and every apply has a failing alternative.  The
row writes are the repository's guarded UPDATEs: `mark_active` only moves a pending
or failed row, for instance (`MarkActive`).  `Return` drops the service lock and,
unless the task is a sweep with more keys to go, the user lock.

`Crash` may happen in any state but `down`: tasks, locks and the degraded flag are
lost, the file, the rows and (unless the host restarts) the running Xray stay.
Startup is the task `Boot`; it runs before polling starts, so alone, in stages:
`reconcile` (settle each half-way key), `nonlive` (drop clients of rows that are not
active), `tcp` and `http` (drop clients without an active key, inbound by inbound),
`restore` (add what active keys miss), then `up`.  A failed key is counted and ends
startup degraded after the first stage; a failed scan, a read that raises or a
client the bot does not know ends it degraded at once.  Work lists are the rows
read at the start of a stage, as in the code.

`OperatorEdit` is the operator changing `config.json` while the bot is stopped (it
is not in the repository, so it is marked external).  `tampered` and `swept` are
history variables that only the properties read.

Choices of the abstraction:

* read-only checks made before a lock is requested are part of the caller's first
  step; the checks the code repeats under the lock are steps of their own;
* a single SQL statement is atomic (aiosqlite runs statements on one connection);
  units of several statements are the subject of `Database`;
* administrators are actors, not owners; an owner is pending, approved or blocked;
  `guest` says an administrator issues the key, who may do so for a user who is not
  approved;
* both inbounds are configured; payload, links, audit records and messages are
  left out;
* key ids are never reused, so `Keys` bounds how many keys are ever issued.  No
  other bound is needed: there are no counters, and the state space is finite.

### Database

The whole process shares one connection.  `_transaction_lock` gives it to one unit of
work at a time: a block under `transaction()`, or an implicit write, which begins with
the first writing statement of a task and ends in `commit()`.  Readers only wait until
the lock is free; they let go of it before their SELECT runs.

`disk` and `work` are the committed state and the state of the connection, with one
record per task that its own units advance by two statements, counted modulo 4: an odd
version is half a unit.  `queue` is the FIFO queue of `asyncio.Lock`; a caller queues
behind the waiters even while the lock is free.  `unit` and `pc` say what a task is
doing: waiting, before BEGIN, in a block (`body`), in an implicit write (`open`), or
between a SELECT and its fetch.  `lock = Lost` says that the holder has ended without
giving the lock back: the task was cancelled inside a unit (`CancelledError` passes
every `except Exception`), or a SELECT of its own raised between two implicit writes.

Choices of the abstraction:

* a COMMIT that raises leaves nothing open: SQLite rolls back by itself on the errors
  that COMMIT can meet here (there are no deferred constraints, and the database is in
  WAL mode with the write lock taken);
* a request that is with the SQLite thread is carried out even if its task is
  cancelled, and later requests come after it: cancellation during COMMIT or ROLLBACK
  is cancellation right after it;
* sqlite3 fetches the first row with the SELECT, the others on request;
* only background jobs are cancelled, one after the other, after polling has ended;
* the database is in WAL mode and the bot is its only writer.

The versions, `n` (at most two statements per unit) and the depth (one joined block)
are the only bounds.

`UnitStore` is the abstract specification of the same: a store of records, the owner of
the open unit, and the steps Open, Commit, Abandon, Vanish (the owner ends inside its
unit) and Recover (a restart).  `Store` in `Database` instantiates it with `disk` and
`lock`; queue, connection, statements, readers and stray calls are hidden.

### AwgConfig

`conf` is the interface file, reduced to its peers and the first of them; `live` holds
the peers of the running interface; `saved` is the file a failing edit puts back.  In
direct mode the bot writes the file and calls `awg set` for the one peer; through the
root helper (`helper`, chosen from `Helpers` at the start) the file is replaced and the whole interface is synced from it.
The failures differ accordingly: a direct add takes its peer out of the interface again
and ignores whether that worked, a direct removal syncs from the file it restored, the
helper restores and syncs, and a helper that was given up after its timeout may have
done its work all the same.  `head` is there for one reason: `_parse_peer_blocks` reads
a marker only in front of the first peer (`Marked`).

A peer stands for its public key and preshared key; a peer of a key always has its
markers.  `past` is a history variable: the peers an operator can bring back.

### AwgKeys

`status`, `addr` and `held` are the status column, the address in the payload and
whether the column `client_ip` still holds it (`mark_revoked` clears it).  The service
lock is held for the whole of a call, so one call is under way at a time (`pc`, `op`:
`edit`, `apply`, `finish`, `undo`, and `comp_status` after a compensation); the others
are in `waiting`: they have passed the check of the degraded flag and will make it again
under the lock, the manual reconcile excepted.  `Refuse` stands for every early return,
a role that no longer allows the call included; the user lock and roles are the matter
of `XrayKeys`.

Startup settles half-way keys, then scans: rows that are not active against file and
interface (`nonlive`), the file for orphans (`orphans`), active keys against both
(`restore`), and the interface for peers that are nowhere else (`runtime`).  The same
edit and apply steps serve calls and startup; `op.kind` says what follows them.

`OperatorEdit` (external) removes a peer, adds one made by hand or brings back one the
bot had issued, while the bot is down.  With `Reuse` false it leaves alone peers whose
address is in use.

`MaxWaiting` bounds the calls that wait, `Keys` how many keys are ever issued.

### KeyLife

`life` is where each key is in its life, `inside` the keys that the file of the backend lets
in; `serving`, `frozen` and `trusted` say that the bot is up, that the backend is degraded
and that nobody has edited the file since the last clean start.  There are no calls, locks,
retries or stages of startup.  A key goes from `none` to `issuing`, `active`, `doomed` and
`revoked` or `gone`; a revocation under way is `closing` (or `cancelling`, of a key that was
never active) and can be given back, a `doomed` key cannot, whatever fails or restarts.  An
edit of the file is about one key: it lets no dead one in, a running bot never locks an active
one out, and while the backend is degraded there are neither edits nor new calls.  A row is
settled only as the file has it, and a clean start ends with `inside` equal to the active keys.

The refinement mapping `Life` reads the life off the row; what the row does not say is
whether a `pending_revoke` can still be undone, and that is whether its call has not yet come to
its last write and what it would put back (`CanGiveBack`).  A kill takes the call away, and
with it the way back: that is `Stop`.

### Migrations

A migration is a sequence of statements (`Chain`), each reduced to the schema names it
needs, adds and removes, the table whose rows it moves, and whether it writes: under
sqlite3's legacy isolation a write opens the transaction and a DDL statement outside one
is committed by itself.  `Execute` runs one statement, `Raise` is a statement SQLite
rejects or rows a check or unique index forbids, `Kill` may come between any two.  The
legacy database of version v is what the chain leaves after v.  Rows are tracked per
table (there or lost), which is what a rebuild or a cascading DROP can change.

### KeyBundles, ProtocolUninstall, ProxyAccess, HysteriaKeys

`KeyBundles`: `bundle` and `child` are the rows, `bop` the operation that holds
`KeyBundleService._lock` with its place (`at`) and plan.  The lists it works through are in
the order of the database: `Ascending` lists a set by rank and `Keep` the members of a list
that satisfy a condition, both in closed form, so that they can be reasoned about.  Every call of a key service is
a step that may fail before or after it took effect; between two steps the expiry job, a
block, the module and relay switches, the degraded flag or an uninstall may change
children.  `lost` is a history variable: children whose attach raised or was interrupted,
which the rollback cannot know of.  `Served(b)` is what the subscription endpoint returns.

`ProtocolUninstall`: `utask` is the call under the uninstall lock (plan, purge key by key,
helper, record), `version` stands for the sha256 of the host's plan.

`ProxyAccess`: one of the two services per behaviour (`ptype`); `linux` are the Linux users
of Dante with their password state, `store` and `served` the secrets file of mtproxy and
what runs.

`HysteriaKeys`: there is no backend to apply to; the auth process reads the database.
`disk` is the inode of the file, `auth` the connection of the auth process, `shake` a
handshake, `sessions` the clients connected.

### The chat: AccessRequests, Dialogs, Relays, Announcements, Maintenance

`AccessRequests` has the requests, trials, roles and block stamps, with a clock of one
second resolution, and the admins' cards, which keep the buttons of the role they were
drawn for.  `Dialogs` runs two updates of one chat at once over the FSM state and its
data; a value is the number of the wizard it was chosen in, so that a leftover of another
wizard can be told.  `Relays` separates the write of the table from the re-read of the
snapshot, and the look-up of a relay from the insert of the key.  `Announcements` and
`Maintenance` send page by page; a recipient may come or go between pages, a send may be
delivered and reported failed.

### The host: Traffic, Anomaly, Backups, WarpFeeds, WarpTunnel, HostStatus, KeyExpiry, Lifecycle

`Traffic` keeps what a key really moved (`moved`, history) beside the counters, samples
and totals.  `Anomaly` keeps log, samples and alerts with their times.  `Backups` walks
the paths of all sources as one sequence with repetitions (`WalkSources`), gives each the
verdict of the code (`Verdict`: policy, link, unreadable, size limit, file) and keeps per
admin the newest database backup they hold.  `WarpFeeds` represents a prefix set by the addresses it covers.  `WarpTunnel` has
the state lock (`op`) and the route lock (`rlock`).  `HostStatus` numbers the samples, so
that a column is the sequence of samples it averages.  `KeyExpiry` counts days.
`Lifecycle` has two processes, their loops and the bulk run of a handler.

A page of rows (`ORDER BY ... LIMIT n`) is the set of the first `n` members of what the
query finds (`FirstRows`, `FirstPage`), since nothing depends on the order inside it.

Each of these modules has a type invariant (`...TypeOK`); they hold in the instances of
the runs but are not listed as properties.

## Runs

| Run | Instance | Checks | Outcome |
| --- | --- | --- | --- |
| `xray_ops` | two keys of one user on one inbound, sharing a short id; two concurrent tasks; restart mode | `NoGhostClient`, `ShortIdKept`, `BlockedStaysOut` | pass |
| `xray_boot` | one TCP key with a short id, two tasks, a hand-added client, hand edits, fairness; api mode | `CleanStartIsExact`, `KeysLiveAsPromised`, `CallsReturn`, `StartupEnds` | pass |
| `db` | three tasks, one of them a job, fairness | `DurableIsReported`, `FirstRowCommitted`, `DatabaseCallsEnd`, `UnitsAreAtomic` | pass |
| `awg` | two keys, a peer made by hand, three addresses, both modes, hand edits, one call waiting | `NoGhostPeer`, `AddressUnique`, `CleanStartIsExact`, `KeysLiveAsPromised` | pass |
| `keys` | one bundle of up to three members and a relay, three keys, one failure, two changes by others; a protocol with two keys; three proxy accesses of two users; two Hysteria2 keys and one restored file | `NothingLeftBehind`, `RevokedIsDead`, `CompositionHolds`, `PurgedBeforeRemoval`, `OnlyConfirmedPlanRuns`, `RowsMatchBackend`, `OnlyLiveRowsLetIn` | pass |
| `people` | one guest with two requests and a trial; two wizards of five kinds with one race; one relay and two keys; three recipients in pages of two; two superadmins, two switches | `StaleApprovalKeepsBlock`, `OneKeyPerTrial`, `OncePerWizard`, `NoLeftovers`, `CatalogIsTable`, `SentAsAsked`, `MaintenanceHolds` | pass |
| `host` | two keys and two refreshers; four keys, one bundle, two networks; two admins, seven ticks; two sources, three addresses, two cycles and edits; one panel and three views; two processes | `TrafficExact`, `AlertsAreEarned`, `BackupsAreUsable`, `RoutedAsAgreed`, `PanelIsTrue`, `ShutdownIsOrderly` | pass |
| `jobs` | the tunnel with a window of two probes; two keys, one of which refuses; databases of sixteen versions with five kinds of bad rows and two kills; fairness | `TeardownIsFinal`, `OpReturns`, `RemindedOnce`, `ExpiredGetRevoked`, `BootIsSafe` | pass |
| `xray_served` | a TCP key with a short id and an XHTTP key, one task, no hand edits; api mode | `RevokedNotServed` | violated |
| `awg_reused` | helper mode, two addresses, hand edits may bring back a used address | `DeletedStaysOut` | violated |
| `migrations_v8` | a database of version 8, one kill | `RowsSurvive` | violated |
| `anomaly_cooldown` | one VLESS key, two networks, window 2, concurrent window 1, cooldown 4, six ticks | `CooldownHolds` | violated |

Why the bounds are enough: the service lock serialises everything that touches file
and rows, so an anomaly needs one task under the lock and one that passed its checks
before it: two tasks.  A key interacts with another one only through a shared short
id or through the work list of a scan or sweep: two keys.  A second user would only
add an independent user lock.  In `xray_ops` the two keys and the two tasks are
interchangeable, so TLC reduces by symmetry (safety only).  `xray_boot` has one
key: that the scans go through two inbounds one after the other is covered by the theorem
`CleanStart`, which holds for any keys, inbounds and short ids.  `restart` is checked in
`xray_ops` and `api` in `xray_boot` and `xray_served`; the theorems hold for each of the
three apply modes.
`ReloadRebuilds` (whether a systemd reload makes Xray read its file) is TRUE: that is
what the unit of the deployment guide does.  The three tasks of `db` are one
that holds the lock, one that waits and one that arrives while it waits, each in every
kind of unit; the theorems drop the bound.  In `awg` an address has two owners
one after the other, so two keys are enough, and the only thing a waiting call can do
wrong is to act on the flag it has read: one waiting call is enough.

The modules of `keys`, `people`, `host` and `jobs` name their bounds `Max...` or
`Last...`: failures, crashes, restarts, changes by other actors, and the clock.  One
failure and one crash suffice for most: the properties that tolerate one more wrong
outcome per crash count them (`OneKeyPerTrial`, `SentAsAsked`, `RemindedOnce`).  In
`host` the constraint `FewAtOnce` bounds failures, crashes and changes also together:
one restart or failed read of the counters; of the backups' failure, crash, file change
and button two of the four; three among the cycles, edits and crashes of the feeds.
`people` has such a constraint too: one failure or crash of the requests; in the dialogs
either a race or a relay that goes away; two among the failures, crashes and reader
changes of the maintenance mode.  The theorems about these parts have no such bound.
When a part does not run, its initial state is one fixed state.  In `people` the two
updates in progress are interchangeable (safety only).  Those four runs do not check for
deadlock: a part stops when its bounds are used up.

Fairness in `xray_boot`: the event loop runs every ready task (weak fairness of
`Run`); `asyncio.Lock` wakes waiters in FIFO order, so a waiter cannot be passed over
for ever although the lock is taken and released meanwhile (strong fairness of the
two acquisitions); systemd restarts the bot and startup is a plain loop (weak
fairness of `BootStep`).  Nothing is assumed of callers, of role changes, of crashes
or of which alternative (success or failure) a step takes.  In `db` the queue of
the lock is part of the state, so weak fairness of each task's own steps is enough; a
task is not obliged to start anything, to join a block or to fail.  In `jobs` an operation
of the tunnel and the monitor go on (weak fairness of `OpStep`, `MonStep`), the teardown
gets the route lock, whose waiters are FIFO (strong fairness of `StopLock`), the loop of
the expiry job runs and days pass whenever it sleeps (`JobStep`, `NextDay`).

### What the runs show

* `NoGhostClient` - a revoked, deleted or never issued key has no client in
  `config.json`, whatever failed.  `delete_xray_key` depends on it: it skips the
  backend for a revoked key.
* `ShortIdKept` - a client never loses the short id it connects with to the removal
  of another key or to a compensation.
* `BlockedStaysOut` - after `block_user` reported no error, no key of the user is
  active or will be revived by a restart, until someone changes the role.  The
  mutant without the user lock in `create_xray_key` breaks it.
* `KeysLiveAsPromised` - the service is a `KeyLife`: no order of calls, failed steps, rollbacks,
  kills and hand edits brings a doomed key back, locks an active one out or settles a row
  against the file, and the second check of the degraded flag, under the lock, keeps the
  running bot off the backend.
* `CleanStartIsExact` - a startup that does not end degraded leaves each inbound with
  exactly the active keys.
* `CallsReturn`, `StartupEnds` - no lock is lost on any error path, and a key that
  cannot be reconciled does not hold up startup.

* `DurableIsReported` - a unit is durable as a whole, or not at all, whoever calls
  `commit()` or `rollback()` meanwhile, whatever raises, and although a cancelled job
  leaves its open transaction on the connection.  That the lock is lost then is what
  keeps the half-done unit from being committed by the next one.
* `FirstRowCommitted` - the SELECT of a reader runs on an idle connection although the
  reader does not hold the lock.
* `DatabaseCallsEnd` - no error path of `transaction()` or of the proxy loses the lock.
  The two paths that do lose it are in the statement: cancellation inside a unit, and
  a SELECT of one's own that raises inside an implicit write (`reserve_key_number`).

* `NoGhostPeer` - a revoked, deleted or never issued key has no peer in the file *or*
  in the running interface.  Unlike `remove_client` of Xray, `remove_peer` acts on the
  interface even if the file needs no change, and the mutant that does not breaks it.
* `AddressUnique` - although addresses are handed out again and the rollback of an add
  may leave its peer in the interface, no two peers ever have the same address: a row
  that may still have a peer reserves its address.
* `CleanStartIsExact` (of `AwgKeys`) - a startup that does not end degraded leaves file
  and interface with exactly the active keys.
* `KeysLiveAsPromised` (of `AwgKeys`) - the same promise, kept by the other service.

* `UnitsAreAtomic` - the connection is a `UnitStore`.
* `NothingLeftBehind`, `CompositionHolds`, `RevokedIsDead` - a bundle that is gone left no
  live key, except one whose attach raised; while it is reconciled every slot of the
  target stays served, with one fingerprint; its URL is dead from the first status of a
  revocation on.  The mutants delete before they create, or look up the token alone.
* `PurgedBeforeRemoval`, `OnlyConfirmedPlanRuns` - a backend is removed only after all its
  listed clients, and only by the plan that was on the confirmed screen.
* `RowsMatchBackend`, `OnlyLiveRowsLetIn` - the same for proxies, and for the auth process
  across a restored file.  `SwapWhileOpening` stays FALSE: a file replaced between the open
  and the stat of `_open` (`hy2_auth/store.py:80`) would be kept until the next replacement.
* `StaleApprovalKeepsBlock`, `OneKeyPerTrial` - a request older than a block does not lift
  it, even within the second; a trial is one key.
* `OncePerWizard`, `NoLeftovers` - one confirmation per wizard however often it is tapped;
  the wizards are numbered from 1, and number 0 is what a late answer stores in the FSM data
  after its wizard was ended (two races in one chat, found by the proof and not by the run:
  such a leftover can be confirmed twice, as an operation of no wizard); without races no value of another wizard is used.  With races a late tap on an old
  screen can put a value into the next wizard, so `NoLeftovers` is about the resets.
* `CatalogIsTable`, `SentAsAsked`, `MaintenanceHolds` - the snapshot follows the table; an
  announcement goes to each user once and stops at a cancel; gate and notice follow the
  switch.
* `TrafficExact`, `AlertsAreEarned`, `BackupsAreUsable` - totals never overcount; an alert
  is about connections of its own keys inside the concurrent window, and none is repeated
  within the cooldown while the last one is remembered; some backup is always young
  enough.  The last needs an age limit of an interval, another for every fault and a start
  delay per restart, since a failed attempt waits a whole interval.
* `RoutedAsAgreed`, `PanelIsTrue`, `ShutdownIsOrderly` - an approved list is the list of
  the card, hand-typed prefixes stay; samples are counted once, counts compare polls a
  cache life apart, a panel has one loop; nothing uses a closed database, a bulk run is
  not cut short unless the process is killed, or a handler starts it after the shutdown
  has looked.
* `TeardownIsFinal`, `OpReturns` - the monitor puts no routes back and blocks nobody.
* `RemindedOnce`, `ExpiredGetRevoked` - with fewer refusing keys than `RevokeLimit`; with as
  many the others are never reached.
* `BootIsSafe` - from each version, after any two kills, no statement is rejected, no rows
  are lost and the result is complete.  Version 8 is left out: see `migrations_v8`.  The
  theorem `StartsSafely` says so for the other versions and any number of kills.

Four runs show a disagreement between the code and what the repository says of it:

* `xray_served`: `remove_client` does not reload when the file needs no change.
  After a crash between `os.replace` and the reload (or an apply that failed half-way
  and could not be undone) the later removal marks the key revoked although the
  running Xray still serves it.  The docstring of `revoke_xray_key` says the client
  is removed from the running config.
* `awg_reused`: a peer of the file that has the address of an active key passes for that
  key's peer.  Brought back with an older file, the peer of a deleted key whose address
  was given to another key stays, and startup ends clean.  The operations guide says
  that a backend is DEGRADED when rows and server cannot be shown to agree.
* `migrations_v8`: `_migrate_proxy_accesses_v9` renames the table and creates the new one
  before the first write of the chain, so both are committed by themselves.  A kill
  before the copy is committed leaves the accesses in `proxy_accesses_v8`; the next start
  finds the new table complete and goes on without them.  The comment of `bootstrap`
  speaks of an all-or-nothing rollback.
* `anomaly_cooldown`: the scan forgets the time of a key's last alert together with its
  observations, and these go after a window.  A key that is used from two networks, idle for
  a window and used again is alerted inside the cooldown; with the defaults (window 3600 s,
  cooldown 7200 s) that is an hour early.  `docs/configuration.md:425` calls the cooldown
  the time before the same key is flagged again.  It came up when the proof of a cooldown
  property failed; what is proved (`AlertsAreEarned`) is the cooldown of a remembered alert.

Other gaps are hazards without a property in `PROJECT.json`: the orphan scan that cleans
the inbound of the key and not the one scanned (`CrossEdits` models such an edit), the
manual reconcile that checks the degraded flag only before the lock, and the page of
expired keys that refusing ones can fill.  Two more that the models do not tell apart:
the rows of a SELECT after the first can show uncommitted data (`dirty`), and the bot's
marker is read only in front of the first peer of the AmneziaWG file (`Marked`), so that
a managed orphan elsewhere degrades the backend.

## Proofs

`XrayKeysProofs` proves, for every set of keys, users, tasks and short ids, every
assignment of owners, inbounds and short ids and every apply mode:

* `TypeCorrect`: `Spec => []TypeOK`;
* `NoGhost`: `Spec => []NoGhostClient`.

Assumptions on the constants: `ConfigAssumption` and `KeysAssumption` (disjointness of
names, `Transport`, `Sid`, `Owner` are total, at least one user).  Nothing is assumed
finite.

`NoGhostClient` is not inductive.  `IndInv` adds

* `LockInv` - whoever is between `mark` and the end holds the service lock, and no
  task runs during startup: so at most one task has an edit in flight;
* `TaskInv`, `BootTaskInv` - what the local variables of a task are at each label: a
  task at work has a key whose row is not dead, a revoke's `prev` is a status with
  which a client may exist (its undo cannot make a dead row), the boot task's operation
  fits its stage;
* `SavedInv` - outside an apply the backup equals the file;
* `RemovedInv` - a removal that reaches its last write has the client out of the file;
* `GhostInv` - a dead key is in neither the file nor the backup that a failing apply
  would bring back (the strengthening that makes `ApplyFails` go through);
* `ScanInv` - a dead key in the file, after a hand edit, is still on the work list of
  the startup scans: this is what lets a clean end of startup clear `tampered`.

There is one lemma per action (`<Action>Ind`: the action preserves `IndInv`), with a
step per conjunct it can disturb; `ReturnFacts` is shared by the actions that leave
the service lock.  `InitInd` and `NextInd` collect them.

`HostProofs` proves of `Database`, for any set of tasks, of which any may be jobs
(`DatabaseAssumption`: the names of the free and the lost lock are not tasks):

* `Durable`: `Spec => []DurableIsReported`;
* `FirstRow`: `Spec => []FirstRowCommitted`;
* `Refinement`: `Spec => UnitsAreAtomic`, that is `Spec => Store!Spec`.

The two invariants are not inductive.  `IndInv` adds the types (`StateOK`; the queue is not needed:
its order matters for liveness only), `HolderInv` (whoever is inside a unit holds the
lock, and a free lock means that nothing is uncommitted) and `WritesInv` (every record
differs from its committed version by exactly the writes its unit has counted, unless
the lock is lost).

The refinement takes one lemma per kind of step under `IndInv`: `EnterShows` (a unit gets
the lock: Open), `EndShows` (Commit with two writes, Abandon with none or after a
rollback; `WritesInv` gives that exactly the owner's record moves), `LostShows` (Vanish or
nothing), Restart (Recover), and `Hidden` for all the rest; a stray `commit()` is hidden
because a free lock means that the connection is idle (`HolderInv`).

### XrayAccessProofs

These results follow from invariants laid over `IndInv`, again for every instance:

* `DegradedFreezes` - `FrozenInv`: nobody is past the second check of the flag while it is
  set, because the one who is past it holds the service lock and is the only one who can
  set the flag.
* `CleanStart`, if no operator puts a client in the inbound of another transport
  (`~CrossEdits`; the orphan scan would remove it from the wrong inbound, see above) -
  `StartupInv`: a client of a key that is not active is still on the list of a scan to come
  (`DriftInv`), an active key is complete or on the last list (`RestoredInv`), no key is
  half-way once the first stage is over (`SettledInv`), no scan gets past a client that the
  bot does not know (`ForeignInv`).  `PlaceInv` says in which inbound a client is.
* `NoSidLost` - `SidInv` (every client of the file *and of the backup* finds its short id
  beside it) and `InsertedInv` (a create that inserted a short id is the only one to use it
  until it gives up the lock, which is what makes its compensation safe).
* `Blocked` - while a block stands (`SweptInv`), no create for the user is past its role
  check and no revocation can fall back to a status from which the key comes to life; no
  row (`RowInv`) and neither file nor backup (`FileInv`) has a key of the user.  `UserInv`
  is the user lock.
* `LiveAsPromised`: `Spec => KeysLiveAsPromised`, without further assumptions.  `WorkInv` says
  what the row of a call under way is (`Marked`, `BootMarked`), that a create whose edit was made
  has its client in the file until it is taken out again (`AddedInv`), and that
  the backup of an edit in flight differs from the file in the edited key only (`OneEditInv`).  One lemma per kind of step maps it to a step of `KeyLife` or to
  a stutter; a clean start is a `CleanStart` without the hypothesis of the theorem `CleanStart`,
  since the file is compared key by key and not inbound by inbound.

### AwgKeysProofs

`BaseInv` (types, the call that has the lock, `HeldInv` for `client_ip`, `SavedInv`,
`FrozenInv`, `CalmInv`) gives `AwgTypeCorrect` and `AwgDegradedFreezes`.  `PeerInv` gives
the others: every peer in file, interface or backup belongs to a row that reserves its
address (`OwnedInv`), and no two of these rows or peers share one (`UniqueInv`); the scans
of startup leave less and less over (`RowPeersInv`, `FilePeersInv`, `RestoredInv`,
`RuntimeInv`).  `NoGhost`, `AddressesUnique` and `AwgCleanStart` assume
`HandEdits => ~Reuse`: an edit by hand brings in no address that is in use.  The run
`awg_reused` shows that the hypothesis is needed.

`AwgLiveAsPromised` is `Spec => KeysLiveAsPromised` under the same hypothesis (without it a start
can end clean although the file lets a deleted key in, see `awg_reused`).  It needs one more
invariant, `EditInv`: the backup of an edit in flight differs from the file in one peer, a create
reaches its last write with its peer in the file, and a revocation that startup resumes was in
doubt before.  `AwgDegradedFreezes` says for the interface what `KeyLife` says for the file.

### KeysProofs

* `HysteriaLetsIn`, for a file that is not replaced between the open and the stat
  (`~SwapWhileOpening`): the connection is never older than the inode it is compared with,
  and a handshake past the comparison reads a file at least as new as its beginning
  (`AuthInv`); what a blocked owner still has is on the list of the sweep (`SweepInv`).
* `PurgeFirst`, `ConfirmedPlan` - `UninstallInv`: a purge that has not failed has taken off
  the backend all it has looked at, and the plan under way is the confirmed one.
* `ProxyRows` - `RowsMatchBackend` with the types, the mutation under the lock
  (`ProxyTask`) and the secrets file (`StoreInv`).
* `NothingIsLeftBehind`, `BundlesKeepComposition`, `RevokedIsOver`, `DeadUrl` - `BunInv`:
  where an operation is fits what it does and the row says so (`OpFrame`), its keys are its
  own (`KidInv`, `WorkInv`), a live key is attached, about to be, or lost (`OwnInv`), what a
  revocation has not reached is on its list (`RevInv`), what a reconcile has still to make is
  all that is missing and what it will drop covers nothing (`CoverInv`), and one fingerprint
  (`PrintInv`).  `EndedInv` is the dead URL.

### PeopleProofs

* `Catalog` (`CatalogInv`), `Announced` (`AnnInv`: the batch lock, the page, what each
  recipient got, the cancel), `Gate` (`MtInv`: the gate's copy, and the people a broadcast
  has still to reach are on pages to come).
* `Trial` (`TrialInv`: a decided request and its key; a spare key is accounted for by a crash
  or a failed rollback), `StaleApproval`.
* `OneDeedPerWizard`, `ChoicesStayWithTheirWizard` - `ChatInv`.  A wizard number that was
  spent is in no update's reach any more (`SpentInv`); if the updates of a chat never
  overlap, the data of the FSM holds only choices of the wizard that is open (`Chosen`), and
  the update under way sees the data as it stands (`Unmoved`).

### HostProofs

* `Shutdown` - `LifeInv`: the single-instance lock, the loops of a stage, the bulk run, the
  marker.
* `Panel` - `StatusInv`: one loop per panel, polls a cache life apart, columns, detailed
  mode.  That the columns tile the time is stated without sums (`SamplesTile`).
* `TrafficShown` - `TrafficInv`: the counters, the refreshes in flight (two of them may cross)
  and the history; sums over the hours are compared by prefix sums, with the least hour at
  which they would differ.
* `AlertsEarned` - `AnInv`: what was observed is in the log or on the interface, and each
  alert was stamped.
* `BackupsStayUsable` - `BackupsInv`.  `ClockInv`: the newest backup, the stamp and the next
  wake-up of the loop are so close that the age limit holds, with an interval of slack for
  every fault and a start delay for every restart already used; `BuildInv`: paths seen, to do
  and listed account for the walk.  It assumes `AgeCoversFaults`, that is
  `MaxAge >= Interval * (1 + MaxBackupFaults) + StartDelay * MaxBackupCrashes`: the scheduler
  cannot keep a promise for more faults than that, since a failed attempt waits for the next
  interval.

### JobsProofs

* `Teardown`, `RoutesAreSerialised` - `TunnelInv`: a monitor beyond its start belongs to a
  running module, and the route lock is held by the one whose step it covers.
* `Reminders` - `ExpiryInv`: marks, the queue of the page, and one more message per crash.
* `RoutedStaysAgreed` - `FeedInv`.  Whoever has the lock is the one about to write
  (`LockInv`).  A hand-typed address that was reported and is routed, or in a list on its way
  to the file, is a manual row that no exclusion covers (`TypedInv`): an exclusion takes
  the reports of its address back, and is only made of an address in the file, so that an
  address typed again while its exclusion still waits is refused.  A list about to be
  written keeps the reported addresses of the one it replaces (`WriteInv`).

`MigrationsProofs` proves `StartsSafely`: if the database is not of version 8, then
`MigrationsSpec => []BootIsSafe`, for any set of versions from 0 to 40
(`VersionsAssumption`: a later version is refused), any troubles in the rows and any number
of kills.  Version 8 has to be left out: the run `migrations_v8` shows that its migration
loses rows.  (Its proxy table lacks columns that a new one has from its creation: it is the
one legacy database that does not satisfy `Fits` below.)

`BootIsSafe` speaks of the bot that is up; what makes it true is what is on disk after each
statement.  The inductive invariant is `MigrationsInv`:

* `Fits` - a table that is there has every column of its version: `Since(c)` is the version
  whose migration adds the column c to a table that is there, 0 if the table is created with
  it.  The tables themselves come from schema.sql (stage 0), the columns do not: `CREATE TABLE
  IF NOT EXISTS` leaves an old table as it is;
* `PositionInv` - a start is at a statement of its stage, and the database has the version
  before it or a later one;
* `TablesInv` - outside the four rebuilds every table and every row is there, and foreign keys
  are enforced;
* `RebuildInv` - inside v16, v17, v29 and v36 the transaction is open, the enforcement is
  off (for v36, whose table nothing references, on), and for each place of the rebuild
  (`Place`) the table or its copy holds the columns and the rows.  A kill at any of these
  places goes back to the committed database, which has the whole table; a copy left by
  a start that was killed is dropped first;
* `ProgressInv` - what the stage has added so far is there, which is what the version, set by
  the last statement of the stage, then stands for.

The proof has three layers.  `Sound1` to `Sound40`: each of the thirty-five migrations
without a rebuild needs only columns of earlier versions, or of an earlier statement of its
own, and adds all the columns of its version.  `BodyIs`, `Chain16` to `Rest36` and the
`Place...` lemmas: which statement is at each place of a rebuild.  `PlainStep`, `BaseStep`,
`NineStep`, `RebuildStep` and `LastStep`: a statement of each kind of stage keeps the
invariant; `Accepted`: none is rejected.  `LegacyFits`: what a chain of versions leaves
behind fits its version.

### Only model-checked

* Liveness, which needs fairness and is out of the prover's reach: `CallsReturn`,
  `StartupEnds`, `DatabaseCallsEnd`, `OpReturns`, `ExpiredGetRevoked`.
* What a run refutes: `RevokedNotServed`, `DeletedStaysOut`, `RowsSurvive` from version 8,
  `CooldownHolds`.

## Not modelled

* The privileged-helper apply of the Xray adapter (the helper may outlive the bot's
  90 s timeout): planned as an extension of `XrayConfig`.
* `reconcile_email_labels` / `rename_clients` (changes labels, not who has access),
  `change_fingerprint`, notes, link rendering.
* In `AwgKeys`: rows without a stored public key (the code falls back to the markers),
  the branch of `add_peer` for a managed block that is already in the file, notes,
  rendering of client configurations.
* In `Database`: child tasks that inherit the transaction of their parent and read inside
  it, and the error of `transaction()` in a task that has an uncommitted implicit write.
* The key services inside `KeyBundles`, `AccessRequests`, `KeyExpiry` and
  `ProtocolUninstall` are their possible outcomes, not `XrayKeys` itself: the product
  would be out of TLC's reach.
* The loss-ratio alert of WARP, CPU and RAM figures of the panel, recipient filters of
  announcements, labels and notes everywhere: they decide nothing the properties see.
* Telegram texts and keyboards, translations, settings, the audit log, dashboards,
  encryption, rendering of links and configurations, the root helpers other than
  AmneziaWG's, deployment scripts: no state of the core, or pure views.

## Plan

What is left, in this order:

1. The privileged-helper apply of `XrayConfig`, and the invariants extended by it.
