------------------------------ MODULE Traffic ------------------------------
(***************************************************************************)
(* services/traffic_stats.py and repositories/traffic_stats.py: the        *)
(* lifetime totals of a key are built from backend counters that restart   *)
(* from zero with their backend, sampled by background loops and by        *)
(* anyone who opens a key, while keys are hard-deleted.  The two           *)
(* directions of a counter are treated alike, so one stands for both.      *)
(***************************************************************************)
EXTENDS Integers, FiniteSets, FiniteSetsExt

CONSTANTS
    TrKeys,         \* keys
    BackendOf,      \* key -> "awg", "xray" or "hysteria2"
    Refreshers,     \* tasks that refresh: the loops and the views
    RetainHours,    \* TRAFFIC_HOURLY_RETENTION_DAYS * 24
    LastHour,       \* bound on the clock
    MaxMoved,       \* bound on the bytes moved, all keys together
    MaxRestarts,    \* bound on backend restarts
    MaxStatsFaults  \* bound on failing reads and deletes

ASSUME TrafficAssumption ==
    /\ RetainHours \in Nat \ {0} /\ LastHour \in Nat
    /\ "free" \notin Refreshers /\ DOMAIN BackendOf = TrKeys

Unread == -1        \* no counter, no raw value

VARIABLES
    moved,      \* key -> bytes it really moved
    counter,    \* key -> the backend's counter, or Unread
    stat,       \* key -> row of vpn_key_traffic_stats: [total, raw, available]
    hourly,     \* key -> hour -> bytes of the traffic_hourly bucket
    archived,   \* key -> bytes in deleted_key_traffic_archive
    deletedKeys,
    hourNow,
    forgotten,  \* key -> bytes in pruned buckets
    prunedHour, \* TrafficStatsService._pruned_hour_utc
    refresh,    \* refresher -> [at, keys, snap, rows]
    refreshLock,
    restarts, statFaults

trafficVars == <<moved, counter, stat, hourly, archived, deletedKeys, hourNow, forgotten,
                 prunedHour, refresh, refreshLock, restarts, statFaults>>

IdleRefresh == [at |-> "idle", keys |-> {}, snap |-> <<>>, rows |-> <<>>]
NoStat == [total |-> 0, raw |-> Unread, there |-> FALSE, available |-> FALSE]
LockFreeToRefresh_Always(r) == TRUE
LockFreeToRefresh(r) == refreshLock = "free"

\* wg show lists every configured peer; Xray and Hysteria2 only those with traffic
Baseline(k) == IF BackendOf[k] = "awg" THEN 0 ELSE Unread

\* The bytes of the buckets f before every hour.
Upto(f) ==
    LET sum[n \in 0 .. LastHour + 1] == IF n = 0 THEN 0 ELSE sum[n - 1] + f[n - 1] IN sum

TrafficInit ==
    /\ moved = [k \in TrKeys |-> 0]
    /\ counter = [k \in TrKeys |-> Baseline(k)]
    /\ stat = [k \in TrKeys |-> NoStat]
    /\ hourly = [k \in TrKeys |-> [h \in 0..LastHour |-> 0]]
    /\ archived = [k \in TrKeys |-> 0]
    /\ deletedKeys = {}
    /\ hourNow = 0
    /\ forgotten = [k \in TrKeys |-> 0]
    /\ prunedHour = Unread
    /\ refresh = [r \in Refreshers |-> IdleRefresh]
    /\ refreshLock = "free"
    /\ restarts = 0 /\ statFaults = 0

-----------------------------------------------------------------------------
(* The backends and the clock *)

\* What the bound MaxMoved limits.
AllMoved == MapThenSumSet(LAMBDA k : moved[k], TrKeys)

MoveBytes(k) ==
    /\ k \notin deletedKeys /\ AllMoved < MaxMoved
    /\ moved' = [moved EXCEPT ![k] = @ + 1]
    /\ counter' = [counter EXCEPT ![k] = IF @ = Unread THEN 1 ELSE @ + 1]
    /\ UNCHANGED <<stat, hourly, archived, deletedKeys, hourNow, forgotten, prunedHour, refresh,
                   refreshLock, restarts, statFaults>>

\* The backend restarts, as every Xray apply makes it: its counters start again.
RestartBackend(b) ==
    /\ restarts < MaxRestarts
    /\ restarts' = restarts + 1
    /\ counter' = [k \in TrKeys |-> IF BackendOf[k] = b THEN Baseline(k) ELSE counter[k]]
    /\ UNCHANGED <<moved, stat, hourly, archived, deletedKeys, hourNow, forgotten, prunedHour,
                   refresh, refreshLock, statFaults>>

NextHour ==
    /\ hourNow < LastHour
    /\ hourNow' = hourNow + 1
    /\ UNCHANGED <<moved, counter, stat, hourly, archived, deletedKeys, forgotten, prunedHour,
                   refresh, refreshLock, restarts, statFaults>>

-----------------------------------------------------------------------------
(* TrafficStatsService.refresh_views *)

\* refresh_all_awg/xray/hysteria: the keys of one backend as listed before the
\* lock; refresh_for_actor: one key.
RefreshAll(r, b) ==
    LET listed == { k \in TrKeys \ deletedKeys : BackendOf[k] = b }
    IN  /\ refresh[r].at = "idle" /\ listed # {}
        /\ refresh' = [refresh EXCEPT ![r] = [@ EXCEPT !.at = "listed", !.keys = listed]]
        /\ UNCHANGED <<moved, counter, stat, hourly, archived, deletedKeys, hourNow, forgotten,
                       prunedHour, refreshLock, restarts, statFaults>>
RefreshForActor(r, k) ==
    /\ refresh[r].at = "idle" /\ k \notin deletedKeys
    /\ refresh' = [refresh EXCEPT ![r] = [@ EXCEPT !.at = "listed", !.keys = {k}]]
    /\ UNCHANGED <<moved, counter, stat, hourly, archived, deletedKeys, hourNow, forgotten,
                   prunedHour, refreshLock, restarts, statFaults>>

\* Under the lock: the counters are sampled; a failed read is remembered.
LoadCounters(r) ==
    /\ refresh[r].at = "listed" /\ LockFreeToRefresh(r)
    /\ refreshLock' = r
    /\ \E down \in BOOLEAN :
        /\ down => statFaults < MaxStatsFaults
        /\ statFaults' = IF down THEN statFaults + 1 ELSE statFaults
        /\ refresh' = [refresh EXCEPT ![r] = [@ EXCEPT
                !.at = "sampled",
                !.snap = [k \in refresh[r].keys |-> [raw |-> counter[k], down |-> down]]]]
    /\ UNCHANGED <<moved, counter, stat, hourly, archived, deletedKeys, hourNow, forgotten,
                   prunedHour, restarts>>

\* TrafficStatsRepository.list_by_key_ids, ahead of the transaction
ReadRows(r) ==
    /\ refresh[r].at = "sampled"
    /\ refresh' = [refresh EXCEPT ![r] = [@ EXCEPT !.at = "read",
                                          !.rows = [k \in refresh[r].keys |-> stat[k]]]]
    /\ UNCHANGED <<moved, counter, stat, hourly, archived, deletedKeys, hourNow, forgotten,
                   prunedHour, refreshLock, restarts, statFaults>>

\* _next_total: a counter below the last one has been reset
NextTotal(total, prev, raw) ==
    IF prev = Unread THEN Max({total, raw})
    ELSE IF raw < prev THEN total + raw
    ELSE total + (raw - prev)
\* what the hour's bucket gets: the difference of the totals, so that both agree
HourlyDelta(row, raw) == NextTotal(row.total, row.raw, raw) - row.total

\* upsert_success, touch_attempt and upsert_unavailable: a missing AWG peer is
\* drift, a missing Xray or Hysteria2 counter only means no traffic yet.
Refreshed(k, row, sample) ==
    IF sample.down \/ (sample.raw = Unread /\ BackendOf[k] = "awg")
    THEN [row EXCEPT !.there = TRUE, !.available = FALSE]
    ELSE IF sample.raw = Unread
    THEN [row EXCEPT !.there = TRUE, !.available = row.available \/ ~row.there]
    ELSE [total |-> NextTotal(row.total, row.raw, sample.raw), raw |-> sample.raw,
          there |-> TRUE, available |-> TRUE]

Stored(sample) == ~sample.down /\ sample.raw # Unread

\* One transaction over all the keys: a key hard-deleted since it was listed
\* fails its foreign key and takes the whole batch with it.
StoreBatch(r) ==
    LET f == refresh[r]
    IN  /\ f.at = "read"
        /\ IF f.keys \cap deletedKeys = {}
           THEN /\ stat' = [k \in TrKeys |-> IF k \in f.keys
                                             THEN Refreshed(k, f.rows[k], f.snap[k]) ELSE stat[k]]
                /\ hourly' = [k \in TrKeys |->
                        IF k \in f.keys /\ Stored(f.snap[k])
                        THEN [hourly[k] EXCEPT ![hourNow] = @ + HourlyDelta(f.rows[k], f.snap[k].raw)]
                        ELSE hourly[k]]
           ELSE UNCHANGED <<stat, hourly>>
        /\ refresh' = [refresh EXCEPT ![r] = IdleRefresh]
        /\ refreshLock' = "free"
        /\ UNCHANGED <<moved, counter, archived, deletedKeys, hourNow, forgotten, prunedHour,
                       restarts, statFaults>>

-----------------------------------------------------------------------------
(* Retention and deletion *)

\* How many hours are beyond the retention.
OldHours == IF hourNow < RetainHours THEN 0 ELSE hourNow - RetainHours + 1

\* prune_hourly_history: the hour is claimed before the DELETE, and given back
\* when it fails.
PruneHourly ==
    /\ prunedHour # hourNow
    /\ \E fails \in BOOLEAN :
        IF fails
        THEN /\ statFaults < MaxStatsFaults /\ statFaults' = statFaults + 1
             /\ prunedHour' = Unread
             /\ UNCHANGED <<hourly, forgotten>>
        ELSE /\ prunedHour' = hourNow
             /\ forgotten' = [k \in TrKeys |-> forgotten[k] + Upto(hourly[k])[OldHours]]
             /\ hourly' = [k \in TrKeys |-> [h \in 0..LastHour |->
                    IF h <= hourNow - RetainHours THEN 0 ELSE hourly[k][h]]]
             /\ UNCHANGED statFaults
    /\ UNCHANGED <<moved, counter, stat, archived, deletedKeys, hourNow, refresh, refreshLock, restarts>>

\* VpnKeyRepository.hard_delete_with_stats, one transaction; its backend client
\* is gone by then, the buckets of the key stay.
HardDelete(k) ==
    /\ k \notin deletedKeys
    /\ deletedKeys' = deletedKeys \cup {k}
    /\ archived' = [archived EXCEPT ![k] = stat[k].total]
    /\ stat' = [stat EXCEPT ![k] = NoStat]
    /\ counter' = [counter EXCEPT ![k] = Unread]
    /\ UNCHANGED <<moved, hourly, hourNow, forgotten, prunedHour, refresh, refreshLock, restarts,
                   statFaults>>

TrafficNext ==
    \/ \E k \in TrKeys : MoveBytes(k) \/ HardDelete(k)
    \/ \E b \in {BackendOf[k] : k \in TrKeys} : RestartBackend(b)
    \/ NextHour
    \/ \E r \in Refreshers, b \in {BackendOf[k] : k \in TrKeys} : RefreshAll(r, b)
    \/ \E r \in Refreshers, k \in TrKeys : RefreshForActor(r, k)
    \/ \E r \in Refreshers : LoadCounters(r) \/ ReadRows(r) \/ StoreBatch(r)
    \/ PruneHourly

TrafficSpec == TrafficInit /\ [][TrafficNext]_trafficVars

-----------------------------------------------------------------------------
(* The dashboard's figures and the properties *)

\* traffic_totals: live rows and the archive together
TrafficTotal(k) == stat[k].total + archived[k]

\* traffic_windows: the buckets from window_start_hour on, deleted keys too
WindowStart(hours) == IF hourNow < hours THEN 0 ELSE hourNow - hours + 1
TrafficWindow(k, hours) == Upto(hourly[k])[LastHour + 1] - Upto(hourly[k])[WindowStart(hours)]

TrafficTypeOK ==
    /\ DOMAIN stat = TrKeys /\ \A k \in TrKeys : stat[k].total \in Nat
    /\ refreshLock \in Refreshers \cup {"free"}
    /\ hourNow \in 0..LastHour

\* The total of a key, live or archived, never exceeds what it really moved: no
\* stale sample is taken for a counter reset, no deletion counts a total twice
\* (the comment on the lock of refresh_views).
NeverOvercounts == \A k \in TrKeys : TrafficTotal(k) <= moved[k]

\* The hourly history and the totals cannot disagree: what the buckets hold, and
\* what retention took from them, is the total; and a window as long as the
\* retention sees every bucket that is left (HourlyTrafficDelta, prune_hourly).
HistoryAgrees ==
    \A k \in TrKeys :
        /\ Upto(hourly[k])[LastHour + 1] + forgotten[k] = TrafficTotal(k)
        /\ prunedHour = hourNow =>
             TrafficWindow(k, RetainHours) + forgotten[k] = TrafficTotal(k)

\* What the bot shows of a key's traffic is never more than it moved, and the same
\* in the totals and in the hourly history.
TrafficExact == NeverOvercounts /\ HistoryAgrees
=============================================================================
