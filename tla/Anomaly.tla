------------------------------ MODULE Anomaly ------------------------------
(***************************************************************************)
(* services/anomaly_detection.py: the scan that alerts when one key is     *)
(* used from several networks at once, rolls the children of a bundle into *)
(* one alert and may revoke them.  An address is identified with its       *)
(* network (adapters/ip_asn.py); the texts of the alerts are left out.     *)
(***************************************************************************)
EXTENDS Integers, FiniteSets, FiniteSetsExt

CONSTANTS
    AnKeys,         \* keys
    Protocol,       \* key -> "xray", "awg" or "hysteria2"
    ParentOf,       \* key -> its bundle, or NoParent
    NoParent,
    Nets,           \* networks clients connect from
    RelayNets,      \* those that a relay may have as its source addresses
    ScanWindow,     \* ANOMALY_WINDOW_SECONDS
    Concurrent,     \* ANOMALY_CONCURRENT_WINDOW_SECONDS; 0: the whole window
    UniqueNets,     \* ANOMALY_UNIQUE_NETS
    Cooldown,       \* ANOMALY_COOLDOWN_SECONDS
    MaxConn,        \* HYSTERIA2_MAX_CONN
    AutoRevoke,     \* ANOMALY_AUTO_REVOKE
    LastTick,       \* bound on the clock
    FutureSkew,     \* _XRAY_LOG_FUTURE_SKEW_SECONDS
    MaxUses         \* bound on connections, moves and new relays

\* A bundle is a row of another table, never one of the keys.
ASSUME AnomalyAssumption ==
    /\ \A k \in AnKeys : Protocol[k] \in {"xray", "awg", "hysteria2"}
    /\ \A k \in AnKeys : ParentOf[k] \notin AnKeys
    /\ ScanWindow \in Nat \ {0} /\ Concurrent \in 0..ScanWindow
    /\ UniqueNets \in Nat \ {0} /\ Cooldown \in Nat /\ AutoRevoke \in BOOLEAN
    /\ FutureSkew \in Nat /\ LastTick \in Nat

VARIABLES
    tick,       \* the clock, from 1
    accessLog,  \* Xray's access log: set of [key, net, ts]
    endpoint,   \* AWG: key -> the net of its peer's last packet, or "none"
    conns,      \* Hysteria2: key -> open connections
    keyActive,  \* key -> its status is active
    relayTable, \* source networks of the relays
    relaysSeen, \* AnomalyDetectionService._relay_source_ips
    observed,   \* _observations: key -> set of [net, ts]
    lastAlert,  \* _last_alerted: key -> tick, 0 when there is none
    highWater,  \* _xray_log_high_water
    scan,       \* the scan under way: [at, now, todo, triggered]
    alerts,     \* alerts sent: set of [signal, subject, keys, ts, nets, n]
    uses        \* connections, moves and new relays so far

anomalyVars == <<tick, accessLog, endpoint, conns, keyActive, relayTable, relaysSeen, observed,
                 lastAlert, highWater, scan, alerts, uses>>
scanVars == <<relaysSeen, observed, lastAlert, highWater, scan, alerts>>

NoScan == [at |-> "sleep", now |-> 0, todo |-> {}, triggered |-> {}]
OfProtocol(p) == { k \in AnKeys : Protocol[k] = p }
Active(p) == { k \in OfProtocol(p) : keyActive[k] }

AnomalyInit ==
    /\ tick = 1
    /\ accessLog = {}
    /\ endpoint = [k \in OfProtocol("awg") |-> "none"]
    /\ conns = [k \in OfProtocol("hysteria2") |-> 0]
    /\ keyActive = [k \in AnKeys |-> TRUE]
    /\ relayTable = {} /\ relaysSeen = {}
    /\ observed = [k \in AnKeys |-> {}]
    /\ lastAlert = [k \in AnKeys |-> 0]
    /\ highWater = 0
    /\ scan = NoScan
    /\ alerts = {}
    /\ uses = 0

-----------------------------------------------------------------------------
(* Clients, relays and the clock *)

Used == uses < MaxUses /\ uses' = uses + 1

ConnectXray(k, net) ==
    /\ k \in Active("xray") /\ Used
    /\ accessLog' = accessLog \cup {[key |-> k, net |-> net, ts |-> tick]}
    /\ UNCHANGED <<tick, endpoint, conns, keyActive, relayTable, scanVars>>
MoveAwg(k, net) ==
    /\ k \in Active("awg") /\ Used
    /\ endpoint' = [endpoint EXCEPT ![k] = net]
    /\ UNCHANGED <<tick, accessLog, conns, keyActive, relayTable, scanVars>>
ConnectHysteria(k) ==
    /\ k \in Active("hysteria2") /\ conns[k] < MaxConn /\ Used
    /\ conns' = [conns EXCEPT ![k] = @ + 1]
    /\ UNCHANGED <<tick, accessLog, endpoint, keyActive, relayTable, scanVars>>
AddRelay(net) ==
    /\ relayTable = {} /\ Used
    /\ relayTable' = {net}
    /\ UNCHANGED <<tick, accessLog, endpoint, conns, keyActive, scanVars>>
ClockTick ==
    /\ tick < LastTick
    /\ tick' = tick + 1
    /\ UNCHANGED <<accessLog, endpoint, conns, keyActive, relayTable, uses, scanVars>>

-----------------------------------------------------------------------------
(* AnomalyDetectionService.check_all, one step for each of its awaits *)

\* _evict_stale_last_alerted
Evicted(now) == [k \in AnKeys |-> IF lastAlert[k] < now - Cooldown THEN 0 ELSE lastAlert[k]]

\* check_all up to its first sample; a relay table read now is used to the end.
BeginScan ==
    /\ scan.at = "sleep"
    /\ scan' = [NoScan EXCEPT !.at = "awg", !.now = tick]
    /\ relaysSeen' = relayTable
    /\ lastAlert' = Evicted(tick)
    /\ UNCHANGED <<tick, uses, accessLog, endpoint, conns, keyActive, relayTable, observed, highWater,
                   alerts>>

\* _record_ip, of a whole sample
Recorded(k, seen) == observed[k] \cup { o \in seen : o.net \notin relaysSeen }

\* _sample_awg_endpoints: where every active peer is now
SampleAwg ==
    /\ scan.at = "awg"
    /\ scan' = [scan EXCEPT !.at = "xray"]
    /\ observed' = [k \in AnKeys |->
            IF k \in Active("awg") /\ endpoint[k] # "none"
            THEN Recorded(k, {[net |-> endpoint[k], ts |-> scan.now]}) ELSE observed[k]]
    /\ UNCHANGED <<tick, uses, accessLog, endpoint, conns, keyActive, relayTable, relaysSeen, lastAlert,
                   highWater, alerts>>

\* _parse_xray_log_tail: the lines of active keys inside the window
LogTail == { e \in accessLog : e.key \in Active("xray") /\ e.ts >= scan.now - ScanWindow }

\* _sample_xray_log: only lines past the high-water mark, each at its own time
StampOf_Now(e) == scan.now
StampOf(e) == e.ts
NewLines == { e \in LogTail : e.ts > highWater /\ e.ts <= scan.now + FutureSkew }
SampleXray ==
    /\ scan.at = "xray"
    /\ observed' = [k \in AnKeys |->
            Recorded(k, { [net |-> e.net, ts |-> StampOf(e)] : e \in { l \in NewLines : l.key = k } })]
    /\ scan' = [scan EXCEPT !.at = "judge", !.todo = { k \in AnKeys : observed'[k] # {} }]
    /\ highWater' = Max({highWater} \cup { e.ts : e \in NewLines })
    /\ UNCHANGED <<tick, uses, accessLog, endpoint, conns, keyActive, relayTable, relaysSeen, lastAlert,
                   alerts>>

\* _unique_ips_in_window drops what aged out; the concurrent window is shorter
InWindow(k) == { o \in observed[k] : o.ts >= scan.now - ScanWindow }
Triggering(k) == { o.net : o \in { x \in InWindow(k) :
                        Concurrent > 0 => x.ts >= scan.now - Concurrent } }

\* The loop body of _check_thresholds.  A key with nothing left in the window is
\* dropped, its cooldown with it.  The order of the keys does not matter.
JudgeKey ==
    LET k == CHOOSE x \in scan.todo : TRUE
        nets == Triggering(k)
        last == IF InWindow(k) = {} THEN 0 ELSE lastAlert[k]
        over == /\ Cardinality(nets) >= UniqueNets
                /\ last # 0 => scan.now - last >= Cooldown
                /\ keyActive[k]
    IN  /\ scan.at = "judge" /\ scan.todo # {}
        /\ observed' = [observed EXCEPT ![k] = InWindow(k)]
        /\ lastAlert' = [lastAlert EXCEPT ![k] = last]
        /\ scan' = [scan EXCEPT !.todo = @ \ {k},
                                !.triggered = IF over THEN @ \cup {[key |-> k, nets |-> nets]} ELSE @]
        /\ UNCHANGED <<tick, uses, accessLog, endpoint, conns, keyActive, relayTable, relaysSeen,
                       highWater, alerts>>

Judged ==
    /\ scan.at = "judge" /\ scan.todo = {}
    /\ scan' = [scan EXCEPT !.at = "alert"]
    /\ UNCHANGED <<tick, uses, accessLog, endpoint, conns, keyActive, relayTable, relaysSeen, observed,
                   lastAlert, highWater, alerts>>

\* _try_auto_revoke: only on a concurrency signal
AutoRevokeEffective == AutoRevoke /\ Concurrent > 0
AfterRevoke(keys, enabled) == [k \in AnKeys |-> IF enabled /\ k \in keys THEN FALSE ELSE keyActive[k]]

Alert(signal, subject, keys, nets) ==
    [signal |-> signal, subject |-> subject, keys |-> keys, ts |-> scan.now, nets |-> nets,
     n |-> Cardinality({ a \in alerts : a.signal = signal /\ a.subject = subject /\ a.ts = scan.now })]

\* _dispatch_alerts, a standalone key: _fire_alert
FireAlert(t) ==
    /\ scan.at = "alert" /\ t \in scan.triggered
    /\ ParentOf[t.key] = NoParent
    /\ lastAlert' = [lastAlert EXCEPT ![t.key] = scan.now]
    /\ alerts' = alerts \cup {Alert("ip", t.key, {t.key}, t.nets)}
    /\ keyActive' = AfterRevoke({t.key}, AutoRevokeEffective)
    /\ scan' = [scan EXCEPT !.triggered = @ \ {t}]
    /\ UNCHANGED <<tick, uses, accessLog, endpoint, conns, relayTable, relaysSeen, observed, highWater>>

\* _stamp_bundle_cooldown: every child of the bundle, not only those that fired
Stamped(b, members) == members \cup { k \in AnKeys : ParentOf[k] = b }

\* _fire_bundle_alert: one alert for all the children that crossed the threshold
FireBundleAlert(b) ==
    LET mine == { t \in scan.triggered : ParentOf[t.key] = b }
        members == { t.key : t \in mine }
    IN  /\ scan.at = "alert" /\ mine # {}
        /\ { t \in scan.triggered : ParentOf[t.key] = NoParent } = {}
        /\ lastAlert' = [k \in AnKeys |-> IF k \in Stamped(b, members) THEN scan.now ELSE lastAlert[k]]
        /\ alerts' = alerts \cup {Alert("ip", b, members, UNION { t.nets : t \in mine })}
        /\ keyActive' = AfterRevoke(members, AutoRevokeEffective)
        /\ scan' = [scan EXCEPT !.triggered = @ \ mine]
        /\ UNCHANGED <<tick, uses, accessLog, endpoint, conns, relayTable, relaysSeen, observed, highWater>>

Dispatched ==
    /\ scan.at = "alert" /\ scan.triggered = {}
    /\ scan' = [scan EXCEPT !.at = "online", !.todo = OfProtocol("hysteria2")]
    /\ UNCHANGED <<tick, uses, accessLog, endpoint, conns, keyActive, relayTable, relaysSeen, observed,
                   lastAlert, highWater, alerts>>

\* _check_hysteria_online and _fire_hysteria_alert: open connections, per key
CheckOnline(k) ==
    /\ scan.at = "online"
    /\ scan' = [scan EXCEPT !.todo = @ \ {k}]
    /\ IF /\ conns[k] >= MaxConn /\ keyActive[k]
          /\ lastAlert[k] # 0 => scan.now - lastAlert[k] >= Cooldown
       THEN /\ lastAlert' = [lastAlert EXCEPT ![k] = scan.now]
            /\ alerts' = alerts \cup {Alert("conn", k, {k}, {})}
            /\ keyActive' = AfterRevoke({k}, AutoRevoke)
       ELSE UNCHANGED <<lastAlert, alerts, keyActive>>
    /\ UNCHANGED <<tick, uses, accessLog, endpoint, conns, relayTable, relaysSeen, observed, highWater>>

EndScan ==
    /\ scan.at = "online" /\ scan.todo = {}
    /\ scan' = NoScan
    /\ UNCHANGED <<tick, uses, accessLog, endpoint, conns, keyActive, relayTable, relaysSeen, observed,
                   lastAlert, highWater, alerts>>

Scans ==
    \/ BeginScan \/ SampleAwg \/ SampleXray
    \/ JudgeKey \/ Judged
    \/ \E t \in scan.triggered : FireAlert(t)
    \/ \E b \in {ParentOf[k] : k \in AnKeys} \ {NoParent} : FireBundleAlert(b)
    \/ Dispatched \/ (\E k \in scan.todo : CheckOnline(k)) \/ EndScan

AnomalyNext ==
    \/ Scans
    \/ \E k \in AnKeys, net \in Nets : ConnectXray(k, net) \/ MoveAwg(k, net)
    \/ \E k \in AnKeys : ConnectHysteria(k)
    \/ \E net \in RelayNets : AddRelay(net)
    \/ ClockTick

AnomalySpec == AnomalyInit /\ [][AnomalyNext]_anomalyVars

-----------------------------------------------------------------------------
(* Properties *)

AnomalyTypeOK ==
    /\ tick \in 1..LastTick /\ highWater \in 0..LastTick
    /\ \A k \in AnKeys : lastAlert[k] \in 0..LastTick /\ keyActive[k] \in BOOLEAN
    /\ scan.at \in {"sleep", "awg", "xray", "judge", "alert", "online"}

\* Every network an alert counts was really used by a key it names inside the
\* concurrent window that ended with the scan: re-reading the log tail never makes an
\* old connection new (the comment of _sample_xray_log).  An AWG peer is where it was
\* sampled.
AlertIsConcurrent ==
    \A a \in alerts : (a.signal = "ip" /\ Concurrent > 0) =>
        \A net \in a.nets : \E k \in a.keys :
            \/ Protocol[k] = "awg"
            \/ \E e \in accessLog : /\ e.key = k /\ e.net = net
                                   /\ e.ts >= a.ts - Concurrent /\ e.ts <= a.ts + FutureSkew

Apart(a, b, gap) == a.ts - b.ts >= gap \/ b.ts - a.ts >= gap

\* What the documentation says: the same key or bundle is not flagged twice by the
\* same signal within the cooldown (docs/configuration.md, ANOMALY_COOLDOWN_SECONDS).
CooldownHolds ==
    \A a, b \in alerts :
        a.signal = b.signal /\ a.subject = b.subject /\ a # b => Apart(a, b, Cooldown)

\* How long the code remembers an alert about k: a key whose observations have all
\* left the window loses its cooldown with them, but for Hysteria2 keys, which have
\* none.
Counted == IF Concurrent > 0 THEN Concurrent ELSE ScanWindow
Remembers(k) ==
    IF Protocol[k] = "hysteria2" \/ Cooldown <= ScanWindow - Counted THEN Cooldown
    ELSE ScanWindow - Counted + 1

\* A key is not flagged again while its last alert is remembered, by itself or with its
\* bundle; and a bundle is flagged once a second, whichever of its children are used
\* (_stamp_bundle_cooldown, which puts all of them on cooldown).
AlertsAreSpaced ==
    \A a, b \in alerts : a # b =>
        /\ \A k \in a.keys \cap b.keys : Apart(a, b, Remembers(k))
        /\ a.signal = b.signal /\ a.subject = b.subject /\ Cooldown > 0 => a.ts # b.ts

\* An alert is about traffic of the window, and comes once per remembered cooldown.
AlertsAreEarned == AlertIsConcurrent /\ AlertsAreSpaced
=============================================================================
