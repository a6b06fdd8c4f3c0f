----------------------------- MODULE JobsProofs -----------------------------
(***************************************************************************)
(* Proofs about what runs by itself: the WARP tunnel with its monitor, the *)
(* expiry job, and the refresh of the list that is routed into the tunnel. *)
(***************************************************************************)
EXTENDS WarpTunnel, KeyExpiry, WarpFeeds, TLAPS

-----------------------------------------------------------------------------
(* The tunnel                                                              *)

\* What a route change needs is there only while the module runs: a monitor
\* beyond its start belongs to a running module, and the teardown ended it
\* before it let go of the module; a start finds no module running.
MonitorInv ==
  /\ DOMAIN mon = {"pc", "healthy", "run", "act"}
  /\ mon.pc \in {"off", "sleep", "want", "helper"}
  /\ op \in [kind : {"none", "start", "stop", "install", "delete"}, was : BOOLEAN,
             pc : {"idle", "up", "routes", "lock", "cancel", "teardown", "helper"}]
  /\ running \in BOOLEAN
  /\ mon.pc # "off" => running
  /\ op.pc = "teardown" => mon.pc = "off"
  /\ op.pc \in {"helper", "up", "routes"} => ~running

\* The route lock is held by the one whose step it covers.
RouteLockInv ==
  /\ rlock = "mon" <=> mon.pc = "helper"
  /\ rlock = "op" <=> op.pc \in {"cancel", "teardown"}

\* The routes of a stopped module whose removal succeeded are gone.
GoneInv == ~observer /\ ~running /\ removed => ~routes

TunnelInv == MonitorInv /\ RouteLockInv /\ GoneInv

\* The module starts with no monitor, no operation and nothing removed.
LEMMA TunnelStarts == TunnelInit => TunnelInv
<1> SUFFICES ASSUME TunnelInit PROVE TunnelInv
  OBVIOUS
<1>1. mon = MonOff /\ op = NoOp /\ rlock = NoHolder /\ running = FALSE /\ removed = FALSE
  BY DEF TunnelInit
<1>2. GoneInv
  BY <1>1, Zenon DEF GoneInv
<1>3. MonitorInv /\ RouteLockInv
  BY <1>1 DEF MonitorInv, RouteLockInv, MonOff, NoOp, NoHolder
<1>. QED BY <1>2, <1>3 DEF TunnelInv

\* The steps of an operation keep the invariant: the monitor is ended under the
\* route lock before the module stops running.
LEMMA OpStepKeeps == ASSUME TunnelInv, OpStep PROVE TunnelInv'
<1> USE DEF TunnelInv, MonitorInv, RouteLockInv, GoneInv, NoHolder, hostVars, countVars
<1>1. ASSUME NEW ok \in BOOLEAN, StartIface(ok) PROVE TunnelInv'
  BY <1>1 DEF StartIface, NoOp
<1>2. ASSUME NEW ok \in BOOLEAN, StartRoutes(ok) PROVE TunnelInv'
  <2>1. op' = NoOp /\ running' = TRUE /\ mon' = MonStart(ok) /\ rlock' = rlock /\ op.pc = "routes"
    BY <1>2 DEF StartRoutes
  <2>2. DOMAIN mon' = {"pc", "healthy", "run", "act"} /\ mon'.pc = "sleep"
    BY <2>1 DEF MonStart
  <2>. QED BY <2>1, <2>2 DEF NoOp
<1>3. ASSUME NEW ok \in BOOLEAN, ConfigHelper(ok) PROVE TunnelInv'
  <2>1. op' \in [kind : {"none", "start", "stop", "install", "delete"}, was : BOOLEAN,
                 pc : {"idle", "up"}]
    BY <1>3 DEF ConfigHelper, NoOp
  <2>. QED BY <1>3, <2>1 DEF ConfigHelper
<1>4. ASSUME NEW ok \in BOOLEAN, NEW down \in BOOLEAN, StopTeardown(ok, down) PROVE TunnelInv'
  <2>1. op' \in [kind : {"none", "start", "stop", "install", "delete"}, was : BOOLEAN,
                 pc : {"idle", "helper"}]
    BY <1>4 DEF StopTeardown, NoOp
  <2>2. running' = FALSE /\ rlock' = "free" /\ mon' = mon /\ mon.pc = "off"
    BY <1>4 DEF StopTeardown
  <2>3. GoneInv'
    BY <1>4 DEF StopTeardown
  <2>. QED BY <2>1, <2>2, <2>3
<1>5. CASE StartObserver
  <2>1. op' = NoOp /\ running' = TRUE /\ mon' = MonStart(iface) /\ rlock' = rlock /\ op.pc = "up"
    BY <1>5 DEF StartObserver
  <2>2. DOMAIN mon' = {"pc", "healthy", "run", "act"} /\ mon'.pc = "sleep"
    BY <2>1 DEF MonStart
  <2>. QED BY <2>1, <2>2 DEF NoOp
<1>6. CASE StopLock
  BY <1>6 DEF StopLock
<1>7. CASE StopMonitor
  BY <1>7 DEF StopMonitor, MonOff
<1>. QED BY <1>1, <1>2, <1>3, <1>4, <1>5, <1>6, <1>7 DEF OpStep

\* The monitor and the users of the module keep it: only a running module's
\* monitor reaches the routes.
LEMMA OthersKeep ==
  ASSUME TunnelInv, TunnelNext, ~OpStep PROVE TunnelInv'
<1> USE DEF TunnelInv, MonitorInv, RouteLockInv, GoneInv, NoHolder, hostVars, countVars
<1>1. CASE WarpStart \/ WarpStop \/ InstallConfig \/ DeleteConfig
  BY <1>1 DEF WarpStart, WarpStop, InstallConfig, DeleteConfig, BeginOp
<1>2. CASE SetKillSwitch
  BY <1>2 DEF SetKillSwitch
<1>3. CASE MonStep
  BY <1>3 DEF MonStep, MonRouted
<1>4. CASE MonLock
  BY <1>4 DEF MonLock
<1>5. ASSUME NEW ok \in BOOLEAN, MonProbe(ok) PROVE TunnelInv'
  BY <1>5 DEF MonProbe
<1>6. ASSUME NEW ok \in BOOLEAN, WarpEnable(ok) \/ WarpDisable(ok) \/ WarpRestart(ok) PROVE TunnelInv'
  BY <1>6 DEF WarpEnable, WarpDisable, WarpRestart, RunState
<1>7. CASE WarpCrash
  <2>1. mon' = MonOff /\ op' = NoOp /\ rlock' = NoHolder /\ running' = FALSE /\ removed' = FALSE
    BY <1>7 DEF WarpCrash
  <2>2. GoneInv'
    BY <2>1, Zenon DEF GoneInv
  <2>. QED BY <2>1, <2>2 DEF MonOff, NoOp
<1>. QED BY <1>1, <1>2, <1>3, <1>4, <1>5, <1>6, <1>7 DEF TunnelNext

\* The tunnel's invariant holds in every state.
LEMMA TunnelHolds == TunnelSpec => []TunnelInv
<1>1. TunnelInit => TunnelInv
  BY TunnelStarts
<1>2. ASSUME TunnelInv, [TunnelNext]_tunnelVars PROVE TunnelInv'
  <2>1. CASE TunnelNext
    BY <1>2, <2>1, OpStepKeeps, OthersKeep
  <2>2. CASE UNCHANGED tunnelVars
    BY <1>2, <2>2 DEF tunnelVars, TunnelInv, MonitorInv, RouteLockInv, GoneInv
  <2>. QED BY <1>2, <2>1, <2>2
<1>. QED BY <1>1, <1>2, PTL DEF TunnelSpec

\* Once a stopped module's routes were removed they stay removed: the monitor,
\* which changes routes outside the state lock, is ended before the teardown
\* removes them (_stop_locked).
THEOREM Teardown == TunnelSpec => []TeardownIsFinal
<1>1. TunnelInv => TeardownIsFinal
  BY DEF TunnelInv, GoneInv, TeardownIsFinal
<1>. QED BY <1>1, TunnelHolds, PTL

\* The route lock does its work: the monitor's helper and the teardown never run
\* together, and a lock that is taken is always one of theirs (_route_lock of
\* WarpManager).
THEOREM RoutesAreSerialised == TunnelSpec => []RouteLockInv
<1>1. TunnelInv => RouteLockInv
  BY DEF TunnelInv
<1>. QED BY <1>1, TunnelHolds, PTL


-----------------------------------------------------------------------------
(* The expiry job                                                          *)

ExpiryTypes ==
  /\ job \in [pc : {"sleep", "remind", "key", "mark", "revoke"}, todo : SUBSET Thresholds,
              queue : SUBSET EKeys, done : SUBSET EKeys]
  /\ noted \in [EKeys -> SUBSET Thresholds] /\ activeKeys \in SUBSET EKeys
  /\ sent \in [EKeys -> [Thresholds -> Nat]] /\ jobCrashes \in Nat

\* A key still in line has no record of the threshold under way.
QueueInv == job.pc \in {"key", "mark"} =>
  \A k \in job.queue, t \in Thresholds : Threshold(t) => t \notin noted[k]

\* A reminder was sent and its record is the next step.
Unrecorded(k, t) == job.pc = "mark" /\ NextRow(k) /\ Threshold(t)

\* Beyond the crashes, one reminder, and none unless it is recorded or about to be.
CountInv == \A k \in EKeys, t \in Thresholds :
  /\ sent[k][t] <= 1 + jobCrashes
  /\ t \notin noted[k] /\ ~Unrecorded(k, t) => sent[k][t] <= jobCrashes

ExpiryInv == ExpiryTypes /\ QueueInv /\ CountInv

\* The first row in line and the smallest threshold are one each.
LEMMA OneAtATime ==
  /\ \A k, j \in EKeys : NextRow(k) /\ NextRow(j) => k = j
  /\ \A t, u \in Thresholds : Threshold(t) /\ Threshold(u) => t = u
<1>1. ASSUME NEW k \in EKeys, NEW j \in EKeys, NextRow(k), NextRow(j), k # j PROVE FALSE
  <2>1. ExpiresAt[k] \in Nat /\ ExpiresAt[j] \in Nat /\ k \in Nat /\ j \in Nat
    BY ExpiryAssumption
  <2>2. Earlier(k, j) /\ Earlier(j, k)
    BY <1>1 DEF NextRow
  <2>. QED BY <1>1, <2>1, <2>2 DEF Earlier
<1>2. ASSUME NEW t \in Thresholds, NEW u \in Thresholds, Threshold(t), Threshold(u) PROVE t = u
  <2>1. t \in Nat /\ u \in Nat /\ t <= u /\ u <= t
    BY <1>2, ExpiryAssumption DEF Threshold
  <2>. QED BY <2>1
<1>. QED BY <1>1, <1>2

\* Nothing is sent, recorded or in line before the first pass.
LEMMA ExpiryStarts == ExpiryInit => ExpiryInv
  BY ExpiryAssumption DEF ExpiryInit, ExpiryInv, ExpiryTypes, QueueInv, CountInv, JobIdle, Unrecorded

\* A step of the job keeps the types.
LEMMA JobTypes == ASSUME ExpiryTypes, JobStep PROVE ExpiryTypes'
<1>l. ListExpired \in SUBSET EKeys /\ \A t : ListExpiring(t) \in SUBSET EKeys
  BY DEF ExpiryTypes, ListExpired, ListExpiring, FirstRows
<1> USE DEF ExpiryTypes, Passed
<1>0. CASE JobStart
  BY <1>0 DEF JobStart
<1>1. CASE JobRevokeList \/ JobSleep
  <2>1. PICK q \in SUBSET EKeys, pc \in {"sleep", "revoke"} :
             job' = [pc |-> pc, todo |-> {}, queue |-> q, done |-> {}]
    <3>1. CASE JobRevokeList
      BY <3>1, <1>l DEF JobRevokeList, JobIdle
    <3>2. CASE JobSleep
      BY <3>2 DEF JobSleep, JobIdle
    <3>. QED BY <1>1, <3>1, <3>2
  <2>2. UNCHANGED <<noted, activeKeys, sent, jobCrashes>>
    BY <1>1 DEF JobRevokeList, JobSleep
  <2>. QED BY <2>1, <2>2
<1>2. ASSUME NEW t \in Thresholds, JobList(t) \/ JobThresholdDone(t) PROVE ExpiryTypes'
  <2>1. CASE JobList(t)
    <3>1. PICK q \in SUBSET EKeys : job' = [job EXCEPT !.queue = q, !.pc = "key"]
      BY <2>1, <1>l DEF JobList
    <3>. QED BY <2>1, <3>1 DEF JobList
  <2>2. CASE JobThresholdDone(t)
    BY <2>2 DEF JobThresholdDone
  <2>. QED BY <1>2, <2>1, <2>2
<1>3. ASSUME NEW k \in EKeys, NEW t \in Thresholds, Remind(k, t) PROVE ExpiryTypes'
  <2>1. job' \in {Passed(k), [job EXCEPT !.pc = "mark"]}
    BY <1>3 DEF Remind
  <2>2. noted' \in {noted, [noted EXCEPT ![k] = noted[k] \cup {t}]}
    BY <1>3 DEF Remind, Recorded
  <2>3. sent' \in {sent, [sent EXCEPT ![k][t] = @ + 1]}
    BY <1>3 DEF Remind
  <2>4. noted' \in [EKeys -> SUBSET Thresholds] /\ sent' \in [EKeys -> [Thresholds -> Nat]]
    <3>1. noted' \in [EKeys -> SUBSET Thresholds]
      BY <2>2
    <3>2. sent[k][t] + 1 \in Nat /\ sent[k] \in [Thresholds -> Nat]
      OBVIOUS
    <3>3. [sent[k] EXCEPT ![t] = @ + 1] \in [Thresholds -> Nat]
      BY <3>2
    <3>4. sent' \in {sent, [sent EXCEPT ![k] = [sent[k] EXCEPT ![t] = @ + 1]]}
      BY <2>3
    <3>. QED BY <3>1, <3>3, <3>4
  <2>5. UNCHANGED <<activeKeys, jobCrashes>>
    BY <1>3 DEF Remind
  <2>. QED BY <2>1, <2>4, <2>5
<1>4. ASSUME NEW k \in EKeys, NEW t \in Thresholds, MarkNotified(k, t) PROVE ExpiryTypes'
  BY <1>4 DEF MarkNotified, Recorded
<1>5. ASSUME NEW k \in EKeys, RevokeExpired(k) PROVE ExpiryTypes'
  BY <1>5 DEF RevokeExpired
<1>. QED BY <1>0, <1>1, <1>2, <1>3, <1>4, <1>5 DEF JobStep

\* A reminder goes out for a threshold that was not recorded, and is recorded
\* before the job turns to another row.
LEMMA JobCounts == ASSUME ExpiryInv, JobStep PROVE QueueInv' /\ CountInv'
<1>0. ExpiryTypes /\ ExpiryTypes'
  BY JobTypes DEF ExpiryInv
<1> USE <1>0 DEF ExpiryTypes
<1>1. CASE JobStart \/ JobRevokeList \/ JobSleep
  <2>1. job.pc # "mark" /\ job'.pc \notin {"key", "mark"} /\ UNCHANGED <<noted, sent, jobCrashes>>
    <3>1. CASE JobStart
      BY <3>1 DEF JobStart
    <3>2. CASE JobRevokeList
      BY <3>2 DEF JobRevokeList, JobIdle
    <3>3. CASE JobSleep
      BY <3>3 DEF JobSleep, JobIdle
    <3>. QED BY <1>1, <3>1, <3>2, <3>3
  <2>. QED BY <2>1 DEF ExpiryInv, QueueInv, CountInv, Unrecorded
<1>2. ASSUME NEW t \in Thresholds, JobList(t) PROVE QueueInv' /\ CountInv'
  <2>1. \A u \in Thresholds : Threshold(u)' => u = t
    BY <1>2, OneAtATime DEF JobList, Threshold
  <2>2. QueueInv'
    BY <1>2, <2>1 DEF JobList, QueueInv, ListExpiring, FirstRows
  <2>3. CountInv'
    BY <1>2 DEF JobList, ExpiryInv, CountInv, Unrecorded
  <2>. QED BY <2>2, <2>3
<1>3. ASSUME NEW t \in Thresholds, JobThresholdDone(t) PROVE QueueInv' /\ CountInv'
  BY <1>3 DEF JobThresholdDone, ExpiryInv, QueueInv, CountInv, Unrecorded
<1>4. ASSUME NEW k \in EKeys, NEW t \in Thresholds, Remind(k, t) PROVE QueueInv' /\ CountInv'
  <2>1. t \notin noted[k] /\ k \in job.queue /\ job.pc = "key" /\ NextRow(k) /\ Threshold(t)
    BY <1>4 DEF Remind, ExpiryInv, QueueInv, NextRow
  <2>2. job'.todo = job.todo /\ \A u : Threshold(u)' <=> Threshold(u)
    BY <1>4 DEF Remind, Passed, Threshold
  <2>3. jobCrashes' = jobCrashes
    BY <1>4 DEF Remind
  <2>4. CASE noted' = [noted EXCEPT ![k] = Recorded(k, t)] /\ job' = Passed(k) /\ sent' = sent
    <3>1. job'.pc = "key" /\ job'.queue = job.queue \ {k}
      BY <2>4 DEF Passed
    <3>2. QueueInv'
      BY <2>1, <2>2, <2>4, <3>1 DEF ExpiryInv, QueueInv
    <3>3. CountInv'
      BY <2>1, <2>3, <2>4, <3>1 DEF ExpiryInv, CountInv, Unrecorded, Recorded
    <3>. QED BY <3>2, <3>3
  <2>5. CASE noted' = noted /\ job' = Passed(k) /\ sent' = sent
    <3>1. job'.pc = "key" /\ job'.queue = job.queue \ {k}
      BY <2>5 DEF Passed
    <3>2. QueueInv'
      BY <2>1, <2>2, <2>5, <3>1 DEF ExpiryInv, QueueInv
    <3>3. CountInv'
      BY <2>1, <2>3, <2>5, <3>1 DEF ExpiryInv, CountInv, Unrecorded
    <3>. QED BY <3>2, <3>3
  <2>6. CASE /\ sent' = [sent EXCEPT ![k][t] = @ + 1] /\ job' = [job EXCEPT !.pc = "mark"]
             /\ noted' = noted
    <3>1. job'.pc = "mark" /\ job'.queue = job.queue
      BY <2>6
    <3>2. QueueInv'
      BY <2>1, <2>2, <2>6, <3>1 DEF ExpiryInv, QueueInv
    <3>3. Unrecorded(k, t)' /\ sent[k][t] <= jobCrashes
      BY <2>1, <2>2, <3>1 DEF ExpiryInv, CountInv, Unrecorded, NextRow
    <3>4. CountInv'
      BY <2>1, <2>3, <2>6, <3>3 DEF ExpiryInv, CountInv, Unrecorded
    <3>. QED BY <3>2, <3>4
  <2>. QED BY <1>4, <2>4, <2>5, <2>6 DEF Remind
<1>5. ASSUME NEW k \in EKeys, NEW t \in Thresholds, MarkNotified(k, t) PROVE QueueInv' /\ CountInv'
  <2>1. job.pc = "mark" /\ NextRow(k) /\ Threshold(t) /\ k \in job.queue
    BY <1>5 DEF MarkNotified, NextRow
  <2>2. /\ job'.pc = "key" /\ job'.queue = job.queue \ {k} /\ job'.todo = job.todo
        /\ jobCrashes' = jobCrashes /\ sent' = sent /\ noted' = [noted EXCEPT ![k] = noted[k] \cup {t}]
    BY <1>5 DEF MarkNotified, Passed, Recorded
  <2>3. QueueInv'
    BY <2>1, <2>2 DEF ExpiryInv, QueueInv, Threshold
  <2>4. \A j \in EKeys, u \in Thresholds : Unrecorded(j, u) => j = k /\ u = t
    BY <2>1, OneAtATime DEF Unrecorded
  <2>5. CountInv'
    BY <2>2, <2>4 DEF ExpiryInv, CountInv, Unrecorded
  <2>. QED BY <2>3, <2>5
<1>6. ASSUME NEW k \in EKeys, RevokeExpired(k) PROVE QueueInv' /\ CountInv'
  BY <1>6 DEF RevokeExpired, ExpiryInv, QueueInv, CountInv, Unrecorded
<1>. QED BY <1>1, <1>2, <1>3, <1>4, <1>5, <1>6 DEF JobStep

\* A crash may cost one more reminder, which it is counted for; days and the
\* owners' switches change nothing.
LEMMA ExpiryRestKeeps ==
  ASSUME ExpiryInv, JobCrash \/ NextDay \/ \E k \in EKeys : SetReminders(k)
  PROVE  ExpiryInv'
<1>1. CASE JobCrash
  BY <1>1 DEF JobCrash, JobIdle, ExpiryInv, ExpiryTypes, QueueInv, CountInv, Unrecorded
<1>2. CASE NextDay \/ \E k \in EKeys : SetReminders(k)
  <2>1. UNCHANGED <<activeKeys, noted, job, sent, jobCrashes>>
    BY <1>2 DEF NextDay, SetReminders
  <2>. QED BY <2>1 DEF ExpiryInv, ExpiryTypes, QueueInv, CountInv, Unrecorded, NextRow, Threshold
<1>. QED BY <1>1, <1>2

\* A reminder is sent once per key and threshold however many passes see the key,
\* and at most once more for each crash between a send and its record
\* (notify_expiring_keys, mark_expiry_notified).
THEOREM Reminders == ExpirySpec => []RemindedOnce
<1>1. ExpiryInit => ExpiryInv
  BY ExpiryStarts
<1>2. ASSUME ExpiryInv, [ExpiryNext]_expiryVars PROVE ExpiryInv'
  <2>1. CASE JobStep
    BY <1>2, <2>1, JobTypes, JobCounts DEF ExpiryInv
  <2>2. CASE ExpiryNext /\ ~JobStep
    BY <1>2, <2>2, ExpiryRestKeeps DEF ExpiryNext
  <2>3. CASE UNCHANGED expiryVars
    BY <1>2, <2>3 DEF expiryVars, ExpiryInv, ExpiryTypes, QueueInv, CountInv, Unrecorded, NextRow, Threshold
  <2>. QED BY <1>2, <2>1, <2>2, <2>3
<1>3. ExpiryInv => RemindedOnce
  BY DEF ExpiryInv, CountInv, RemindedOnce
<1>. QED BY <1>1, <1>2, <1>3, PTL DEF ExpirySpec

-----------------------------------------------------------------------------
(* The routed list                                                         *)

CyclePlaces == {"idle", "fetch", "held", "clean", "apply", "write", "after"}
Operations == {None, "add", "remove", "exclude", "migrate", "apply", "approve", "reload"}
Cycles == [pc : CyclePlaces, plan : Lists, todo : SUBSET Slugs, empties : SUBSET Slugs,
           saw : Lists]
Edits == [pc : {"idle", "apply", "write", "after"}, op : Operations, addr : SUBSET Addr,
          shown : Lists, plan : Lists]

FeedTypes ==
  /\ stored \in [Origins -> SUBSET Addr] /\ excl \subseteq Addr /\ adopted \in BOOLEAN
  /\ file \in Lists /\ pending \in Lists /\ acked \subseteq Addr
  /\ cyc \in Cycles /\ adm \in Edits

\* The lock is held exactly by whoever is about to write.
LockInv ==
  /\ lock = "cycle" <=> cyc.pc = "write"
  /\ lock = "admin" <=> adm.pc = "write"

\* What a feed contributes it has published.
FeedsInv == \A s \in Slugs : stored[s] \subseteq UNION Publish

\* The address is in the list on disk or in one on its way there.
OnItsWay(a) ==
  \/ a \in file.space
  \/ cyc.pc = "write" /\ a \in cyc.saw.space
  \/ adm.pc = "write" /\ a \in adm.plan.space

Adding == adm.op = "add" /\ adm.pc \in {"apply", "write"}

\* Hand-typed addresses that were reported, and those about to be, are manual rows, and no
\* exclusion takes them off a list; an exclusion only waits for the list that is there.
TypedInv ==
  /\ ~adopted => acked = {} /\ ~Adding
  /\ \A a \in acked \cap HandTyped : OnItsWay(a) => a \in stored[Manual] /\ a \notin excl
  /\ Adding => \A a \in adm.addr : /\ a \in stored[Manual]
                                   /\ OnItsWay(a) => a \notin excl
  /\ \A a \in excl : OnItsWay(a) => a \in file.space

\* A list about to be written keeps the reported addresses of the one it replaces, and is
\* the one on the card if a card was approved.
WriteInv ==
  /\ cyc.pc = "write" => \A a \in acked \cap HandTyped : a \in file.space => a \in cyc.saw.space
  /\ adm.pc = "write" => /\ \A a \in acked \cap HandTyped : a \in file.space => a \in adm.plan.space
                         /\ adm.op = "approve" => adm.plan = adm.shown

FeedInv == FeedTypes /\ LockInv /\ FeedsInv /\ TypedInv /\ WriteInv

-----------------------------------------------------------------------------

\* Origins of the rows.
LEMMA OriginsAre == Manual \in Origins /\ (\A s \in Slugs : s \in Origins /\ s # Manual)
BY WarpAssumption DEF Origins, WarpAssumption

\* What the merge keeps: nothing excluded, and of the hand-typed addresses the manual rows.
LEMMA MergeKeeps ==
  ASSUME FeedTypes, FeedsInv
  PROVE  /\ MergeSplitList \in Lists
         /\ \A a \in MergeSplitList.space : a \notin excl
         /\ \A a \in HandTyped : a \in MergeSplitList.space <=> a \in stored[Manual] /\ a \notin excl
<1> DEFINE u == (UNION {stored[s] \ SubtractFrom(s) : s \in Adds}) \cup stored[Manual]
           g == UNION {stored[d] : d \in {d \in Subtracts : src[d].scope = None}}
<1>1. MergeSplitList = [space |-> (u \ g) \ excl, cut |-> "merged"]
  BY DEF MergeSplitList, MergeWith
<1>2. \A s \in Slugs : stored[s] \subseteq Addr /\ stored[s] \subseteq UNION Publish
  BY OriginsAre DEF FeedTypes, FeedsInv
<1>3. stored[Manual] \subseteq Addr
  BY OriginsAre DEF FeedTypes
<1>4. Adds \subseteq Slugs /\ Subtracts \subseteq Slugs
  BY DEF Adds, Subtracts, EnabledSources
<1>5. u \subseteq Addr
  BY <1>2, <1>3, <1>4
<1>6. \A a \in HandTyped : a \in u <=> a \in stored[Manual]
  BY <1>2, <1>4 DEF HandTyped
<1>7. \A a \in HandTyped : a \notin g
  BY <1>2, <1>4 DEF HandTyped
<1> HIDE DEF u, g
<1> QED BY <1>1, <1>5, <1>6, <1>7 DEF Lists

\* The locked write leaves the file as it was or the candidate in its place.
LEMMA WriteLeaves ==
  ASSUME NEW cand \in Lists, NEW ep, NEW force, NEW r \in ApplyLocked(cand, ep, force)
  PROVE  r.file = file \/ r.file = cand
BY DEF ApplyLocked, RestorePrevious

\* A step that leaves the two lists on their way alone.
LEMMA RowsOnly ==
  ASSUME FeedInv, UNCHANGED <<file, lock, cyc, adm, acked, adopted, excl>>, pending' \in Lists,
         stored' \in [Origins -> SUBSET Addr], FeedsInv', stored'[Manual] = stored[Manual]
  PROVE  FeedInv'
BY DEF FeedInv, FeedTypes, LockInv, TypedInv, WriteInv, OnItsWay, Adding

\* A fetch changes the rows of its source alone, to what the feed published.
LEMMA FetchedRows ==
  ASSUME FeedInv, NEW s \in Slugs, NEW o \in FetchOutcomes, Fetched(s, o)
  PROVE  /\ stored' \in [Origins -> SUBSET Addr] /\ FeedsInv' /\ stored'[Manual] = stored[Manual]
<1>1. s \in Origins /\ s # Manual /\ Manual \in Origins /\ \A d \in Slugs : d \in Origins
  BY OriginsAre
<1>2. /\ stored \in [Origins -> SUBSET Addr]
      /\ \A d \in Slugs : stored[d] \subseteq UNION Publish
  BY DEF FeedInv, FeedTypes, FeedsInv
<1>3. CASE Parsed(o)
  <2>1. o.got \in Publish
    BY <1>3 DEF Parsed, FetchOutcomes
  <2>2. o.got \subseteq Addr /\ o.got \subseteq UNION Publish
    BY <2>1, WarpAssumption DEF WarpAssumption
  <2>3. stored' = [stored EXCEPT ![s] = o.got]
    BY <1>3 DEF Fetched, ReplacePrefixes
  <2>4. stored' \in [Origins -> SUBSET Addr] /\ stored'[Manual] = stored[Manual]
    BY <1>1, <1>2, <2>2, <2>3
  <2>5. \A d \in Slugs : stored'[d] \subseteq UNION Publish
    BY <1>1, <1>2, <2>2, <2>3
  <2> QED BY <2>4, <2>5 DEF FeedsInv
<1>4. CASE ~Parsed(o)
  <2>1. stored' = stored
    BY <1>4 DEF Fetched
  <2> QED BY <1>2, <2>1 DEF FeedsInv
<1> QED BY <1>3, <1>4

\* Adoption happens once, before anything was typed; afterwards it changes nothing.
LEMMA Adoption ==
  ASSUME FeedInv
  PROVE  /\ AdoptManual \in [Origins -> SUBSET Addr]
         /\ \A s \in Slugs : AdoptManual[s] = stored[s]
         /\ adopted => AdoptManual = stored
BY OriginsAre DEF AdoptManual, FeedInv, FeedTypes, Lists

\* A place of the cycle other than "write", with or without another plan.
LEMMA CycleMoved ==
  ASSUME FeedInv, UNCHANGED <<file, lock, adm, acked, adopted, excl>>, pending' \in Lists,
         stored' \in [Origins -> SUBSET Addr], FeedsInv', stored'[Manual] = stored[Manual],
         cyc.pc # "write", cyc'.pc # "write", cyc' \in Cycles
  PROVE  FeedInv'
<1>1. FeedTypes'
  BY DEF FeedInv, FeedTypes
<1>2. LockInv'
  BY DEF FeedInv, LockInv
<1>3. TypedInv'
  BY DEF FeedInv, TypedInv, OnItsWay, Adding
<1>4. WriteInv'
  BY DEF FeedInv, WriteInv
<1> QED BY <1>1, <1>2, <1>3, <1>4 DEF FeedInv

\* The cycle's record, idle or moved to another place.
LEMMA CycleRecords ==
  ASSUME FeedInv
  PROVE  /\ CycIdle \in Cycles /\ CycIdle.pc = "idle"
         /\ \A p \in CyclePlaces : /\ [cyc EXCEPT !.pc = p] \in Cycles
                                   /\ [cyc EXCEPT !.pc = p].pc = p
         /\ \A p \in CyclePlaces, x \in Lists : /\ [cyc EXCEPT !.pc = p, !.saw = x] \in Cycles
                                                /\ [cyc EXCEPT !.pc = p, !.saw = x].pc = p
                                                /\ [cyc EXCEPT !.pc = p, !.saw = x].saw = x
<1>1. cyc \in Cycles
  BY DEF FeedInv, FeedTypes
<1>2. CycIdle \in Cycles /\ CycIdle.pc = "idle"
  BY DEF CycIdle, Cycles, CyclePlaces, NoList, Lists
<1>3. \A p \in CyclePlaces : /\ [cyc EXCEPT !.pc = p] \in Cycles
                             /\ [cyc EXCEPT !.pc = p].pc = p
  BY <1>1 DEF Cycles
<1>4. \A p \in CyclePlaces, x \in Lists : /\ [cyc EXCEPT !.pc = p, !.saw = x] \in Cycles
                                          /\ [cyc EXCEPT !.pc = p, !.saw = x].pc = p
                                          /\ [cyc EXCEPT !.pc = p, !.saw = x].saw = x
  BY <1>1 DEF Cycles
<1> QED BY <1>2, <1>3, <1>4

\* The cycle starts; the first time it adopts the list it finds as manual rows.
LEMMA CycleStartInv ==
  ASSUME FeedInv, CycleStart
  PROVE  FeedInv'
<1>1. cyc.pc = "idle" /\ stored' = AdoptManual /\ adopted' = TRUE
      /\ UNCHANGED <<file, lock, adm, acked, excl, pending>>
  BY DEF CycleStart
<1>2. cyc' \in Cycles /\ cyc'.pc = "fetch"
  <2>1. cyc' = [CycIdle EXCEPT !.pc = "fetch", !.todo = EnabledSources]
    BY DEF CycleStart
  <2>2. EnabledSources \in SUBSET Slugs
    BY DEF EnabledSources
  <2> QED BY <2>1, <2>2, CycleRecords DEF Cycles, CyclePlaces
<1>3. FeedTypes'
  BY <1>1, <1>2, Adoption DEF FeedInv, FeedTypes
<1>4. FeedsInv'
  BY <1>1, Adoption DEF FeedInv, FeedsInv
<1>5. LockInv'
  BY <1>1, <1>2 DEF FeedInv, LockInv
<1>6. WriteInv'
  BY <1>1, <1>2 DEF FeedInv, WriteInv
<1>7. TypedInv'
  <2>1. CASE adopted
    BY <1>1, <1>2, <2>1, Adoption DEF FeedInv, TypedInv, OnItsWay, Adding
  <2>2. CASE ~adopted
    <3>1. acked' = {} /\ ~Adding'
      BY <1>1, <2>2 DEF FeedInv, TypedInv, Adding
    <3>2. \A a \in excl : OnItsWay(a)' => a \in file.space
      BY <1>1, <1>2 DEF FeedInv, TypedInv, OnItsWay
    <3> QED BY <1>1, <3>1, <3>2 DEF TypedInv
  <2> QED BY <2>1, <2>2 DEF FeedInv, FeedTypes
<1> QED BY <1>3, <1>4, <1>5, <1>6, <1>7 DEF FeedInv

\* A source is fetched.
LEMMA CycleFetchInv ==
  ASSUME FeedInv, CycleFetch
  PROVE  FeedInv'
<1>1. PICK s \in cyc.todo, o \in FetchOutcomes :
        /\ Fetched(s, o)
        /\ cyc' = [cyc EXCEPT !.todo = @ \ {s},
                              !.empties = IF o = [fails |-> "empty"] THEN @ \cup {s} ELSE @]
  BY DEF CycleFetch
<1>2. cyc \in Cycles /\ cyc.pc = "fetch" /\ s \in Slugs
  BY DEF FeedInv, FeedTypes, CycleFetch, Cycles
<1>3. cyc' \in Cycles /\ cyc'.pc = "fetch"
  <2> DEFINE E == IF o = [fails |-> "empty"] THEN cyc.empties \cup {s} ELSE cyc.empties
             T == cyc.todo \ {s}
  <2>1. E \in SUBSET Slugs /\ T \in SUBSET Slugs
    BY <1>2 DEF Cycles
  <2>2. cyc' = [cyc EXCEPT !.todo = T, !.empties = E]
    BY <1>1
  <2> HIDE DEF E, T
  <2> QED BY <1>2, <2>1, <2>2 DEF Cycles
<1>4. stored' \in [Origins -> SUBSET Addr] /\ FeedsInv' /\ stored'[Manual] = stored[Manual]
  BY <1>1, <1>2, FetchedRows
<1>5. UNCHANGED <<file, lock, adm, acked, adopted, excl>> /\ pending' \in Lists
  BY DEF CycleFetch, policy, FeedInv, FeedTypes
<1> QED BY <1>2, <1>3, <1>4, <1>5, CycleMoved

\* The plan is computed.
LEMMA CyclePlanInv ==
  ASSUME FeedInv, CyclePlan
  PROVE  FeedInv'
<1>1. /\ cyc.pc = "fetch" /\ UNCHANGED <<file, lock, adm, acked, adopted, excl, stored>>
      /\ cyc \in Cycles /\ file \in Lists /\ pending \in Lists
  BY DEF CyclePlan, feedRows, FeedInv, FeedTypes
<1>2. pending' \in Lists
  BY <1>1 DEF CyclePlan, NoCard, Lists
<1>3. cyc' \in Cycles /\ cyc'.pc # "write"
  <2> DEFINE c == MergeSplitList
             q == IF Suspicious(c, cyc.empties) THEN "held" ELSE "clean"
             r == [cyc EXCEPT !.pc = q, !.plan = c, !.saw = file]
  <2>1. cyc' = CycIdle \/ cyc' = r
    BY DEF CyclePlan
  <2>2. c \in Lists /\ q \in {"held", "clean"}
    BY MergeKeeps DEF FeedInv
  <2> HIDE DEF c, q
  <2>3. r \in Cycles /\ r.pc = q
    BY <1>1, <2>2 DEF Cycles, CyclePlaces
  <2> HIDE DEF r
  <2>4. CycIdle \in Cycles /\ CycIdle.pc = "idle"
    BY CycleRecords
  <2> QED BY <2>1, <2>2, <2>3, <2>4
<1>4. stored' \in [Origins -> SUBSET Addr] /\ FeedsInv'
  BY <1>1 DEF FeedInv, FeedTypes, FeedsInv
<1> QED BY <1>1, <1>2, <1>3, <1>4, CycleMoved

\* The plan is shown, held back or passed on.
LEMMA CycleDecideInv ==
  ASSUME FeedInv, CycleDecide
  PROVE  FeedInv'
<1>1. /\ cyc.pc # "write" /\ UNCHANGED <<file, lock, adm, acked, adopted, excl, stored>>
      /\ cyc \in Cycles /\ pending \in Lists
  BY DEF CycleDecide, feedRows, FeedInv, FeedTypes
<1>2. pending' \in Lists
  <2>1. pending' = pending \/ pending' = cyc.plan
    BY DEF CycleDecide
  <2> QED BY <1>1, <2>1 DEF Cycles
<1>3. cyc' \in Cycles /\ cyc'.pc # "write"
  <2>1. cyc' = CycIdle \/ cyc' = [cyc EXCEPT !.pc = "apply"]
    BY DEF CycleDecide
  <2> DEFINE r == [cyc EXCEPT !.pc = "apply"]
  <2>2. r \in Cycles /\ r.pc = "apply"
    BY <1>1 DEF Cycles, CyclePlaces
  <2> HIDE DEF r
  <2>3. CycIdle \in Cycles /\ CycIdle.pc = "idle"
    BY CycleRecords
  <2> QED BY <2>1, <2>2, <2>3 DEF r
<1>4. stored' \in [Origins -> SUBSET Addr] /\ FeedsInv'
  BY <1>1 DEF FeedInv, FeedTypes, FeedsInv
<1> QED BY <1>1, <1>2, <1>3, <1>4, CycleMoved

\* The merge is computed again under the lock.
LEMMA CycleComputeInv ==
  ASSUME FeedInv, CycleCompute
  PROVE  FeedInv'
<1>1. /\ cyc.pc = "apply" /\ lock = None
      /\ UNCHANGED <<file, adm, acked, adopted, excl, stored, pending>>
  BY DEF CycleCompute, feedRows, policy
<1>2. CASE cyc' = CycIdle /\ UNCHANGED lock
  <2>1. cyc' \in Cycles /\ cyc'.pc # "write"
    BY <1>2, CycleRecords
  <2>2. pending' \in Lists /\ stored' \in [Origins -> SUBSET Addr] /\ FeedsInv'
    BY <1>1 DEF FeedInv, FeedTypes, FeedsInv
  <2> QED BY <1>1, <1>2, <2>1, <2>2, CycleMoved
<1>3. CASE lock' = "cycle" /\ cyc' = [cyc EXCEPT !.pc = "write", !.saw = MergeSplitList]
  <2> DEFINE c == MergeSplitList
  <2>1. /\ c \in Lists /\ \A a \in c.space : a \notin excl
        /\ \A a \in HandTyped : a \in c.space <=> a \in stored[Manual] /\ a \notin excl
    BY MergeKeeps DEF FeedInv
  <2>2. cyc' = [cyc EXCEPT !.pc = "write", !.saw = c]
    BY <1>3
  <2> HIDE DEF c
  <2>3. cyc' \in Cycles /\ cyc'.pc = "write" /\ cyc'.saw = c
    BY <2>1, <2>2, CycleRecords DEF CyclePlaces
  <2>4. adm.pc # "write"
    BY <1>1 DEF FeedInv, LockInv, None
  <2>5. FeedTypes'
    BY <1>1, <2>3 DEF FeedInv, FeedTypes
  <2>6. LockInv'
    BY <1>1, <1>3, <2>3, <2>4 DEF LockInv
  <2>7. FeedsInv'
    BY <1>1 DEF FeedInv, FeedsInv
  <2>8. \A a : OnItsWay(a)' => OnItsWay(a) \/ a \in c.space
    BY <1>1, <2>3 DEF OnItsWay
  <2>9. TypedInv'
    <3>1. \A a \in acked \cap HandTyped : OnItsWay(a)' => a \in stored[Manual] /\ a \notin excl
      BY <2>1, <2>8 DEF FeedInv, TypedInv
    <3>2. Adding => \A a \in adm.addr : /\ a \in stored[Manual]
                                        /\ OnItsWay(a)' => a \notin excl
      BY <2>1, <2>8 DEF FeedInv, TypedInv
    <3>3. \A a \in excl : OnItsWay(a)' => a \in file.space
      BY <2>1, <2>8 DEF FeedInv, TypedInv
    <3>4. Adding' = Adding /\ (~adopted => acked = {} /\ ~Adding)
      BY <1>1 DEF FeedInv, TypedInv, Adding
    <3> QED BY <1>1, <3>1, <3>2, <3>3, <3>4 DEF TypedInv
  <2>10. WriteInv'
    <3>1. \A a \in acked \cap HandTyped : a \in file.space => a \in c.space
      BY <2>1 DEF FeedInv, TypedInv, OnItsWay
    <3> QED BY <1>1, <2>3, <2>4, <3>1 DEF WriteInv
  <2> QED BY <2>5, <2>6, <2>7, <2>9, <2>10 DEF FeedInv
<1> QED BY <1>2, <1>3 DEF CycleCompute

\* The cycle writes: the reported addresses stay, and what leaves the file leaves no other
\* list on its way, since nobody else holds the lock.
LEMMA CycleWriteInv ==
  ASSUME FeedInv, CycleWrite
  PROVE  FeedInv' /\ ManualStaysRouted /\ CardIsWhatIsWritten
<1>1. /\ cyc.pc = "write" /\ lock' = None /\ cyc.saw \in Lists /\ cyc \in Cycles
      /\ UNCHANGED <<adm, acked, adopted, excl, stored, pending>>
  BY DEF CycleWrite, feedRows, policy, FeedInv, FeedTypes, Cycles
<1>2. lock = "cycle" /\ adm.pc # "write"
  BY <1>1 DEF FeedInv, LockInv
<1>3. PICK probe, r \in ApplyLocked(cyc.saw, warpEndpoint', FALSE) :
        /\ file' = r.file
        /\ cyc' = IF r.ok THEN [cyc EXCEPT !.pc = "after"] ELSE CycIdle
  BY DEF CycleWrite
<1>4. file' = file \/ file' = cyc.saw
  BY <1>1, <1>3, WriteLeaves
<1>5. cyc' \in Cycles /\ cyc'.pc # "write"
  <2> DEFINE x == [cyc EXCEPT !.pc = "after"]
  <2>1. cyc' = CycIdle \/ cyc' = x
    BY <1>3
  <2>2. x \in Cycles /\ x.pc = "after"
    BY <1>1 DEF Cycles, CyclePlaces
  <2> HIDE DEF x
  <2>3. CycIdle \in Cycles /\ CycIdle.pc = "idle"
    BY CycleRecords
  <2> QED BY <2>1, <2>2, <2>3
<1>6. FeedTypes'
  BY <1>1, <1>4, <1>5 DEF FeedInv, FeedTypes
<1>7. LockInv'
  BY <1>1, <1>2, <1>5 DEF LockInv, None
<1>8. FeedsInv'
  BY <1>1 DEF FeedInv, FeedsInv
<1>9. \A a : OnItsWay(a)' => a \in file'.space /\ OnItsWay(a)
  BY <1>1, <1>2, <1>4, <1>5 DEF OnItsWay
<1>10. TypedInv'
  <2>1. Adding' = Adding
    BY <1>1 DEF Adding
  <2>2. \A a \in acked \cap HandTyped : OnItsWay(a)' => a \in stored[Manual] /\ a \notin excl
    BY <1>9 DEF FeedInv, TypedInv
  <2>3. Adding => \A a \in adm.addr : /\ a \in stored[Manual]
                                      /\ OnItsWay(a)' => a \notin excl
    BY <1>9 DEF FeedInv, TypedInv
  <2>4. \A a \in excl : OnItsWay(a)' => a \in file'.space
    BY <1>9
  <2>5. ~adopted => acked = {} /\ ~Adding
    BY DEF FeedInv, TypedInv
  <2> QED BY <1>1, <2>1, <2>2, <2>3, <2>4, <2>5 DEF TypedInv
<1>11. WriteInv'
  BY <1>1, <1>2, <1>5 DEF WriteInv
<1>12. ManualStaysRouted
  BY <1>1, <1>4 DEF ManualStaysRouted, FeedInv, WriteInv
<1>13. CardIsWhatIsWritten
  BY <1>2 DEF CardIsWhatIsWritten
<1> QED BY <1>6, <1>7, <1>8, <1>10, <1>11, <1>12, <1>13 DEF FeedInv

\* The cycle closes its books.
LEMMA CycleAfterInv ==
  ASSUME FeedInv, CycleAfter
  PROVE  FeedInv'
<1>1. /\ cyc.pc # "write" /\ UNCHANGED <<file, lock, adm, acked, adopted, excl, stored>>
      /\ cyc' = CycIdle /\ pending' = NoCard
  BY DEF CycleAfter, feedRows
<1>2. cyc' \in Cycles /\ cyc'.pc # "write"
  BY <1>1, CycleRecords
<1>3. pending' \in Lists /\ stored' \in [Origins -> SUBSET Addr] /\ FeedsInv'
  BY <1>1 DEF FeedInv, FeedTypes, FeedsInv, NoCard, Lists
<1> QED BY <1>1, <1>2, <1>3, CycleMoved

\* What an operation of the admin starts with.
LEMMA BeginIs ==
  ASSUME FeedInv, NEW what \in Operations, NEW addrs \in SUBSET Addr, NEW shown \in Lists,
         BeginApply(what, addrs, shown)
  PROVE  /\ adm.pc = "idle" /\ adm' \in Edits /\ adm'.pc = "apply"
         /\ adm'.op = what /\ adm'.addr = addrs /\ adm'.shown = shown
<1> DEFINE r == [AdmIdle EXCEPT !.pc = "apply", !.op = what, !.addr = addrs, !.shown = shown]
<1>1. adm.pc = "idle" /\ adm' = r
  BY DEF BeginApply
<1>2. AdmIdle \in Edits
  BY DEF AdmIdle, Edits, Operations, NoCard, NoList, Lists
<1>3. /\ r \in Edits /\ r.pc = "apply" /\ r.op = what /\ r.addr = addrs /\ r.shown = shown
  BY <1>2 DEF Edits
<1> HIDE DEF r
<1> QED BY <1>1, <1>3

\* The admin types an address: no guard covers it and it is not in the list yet, so an
\* exclusion that has already taken effect keeps it out for good.
LEMMA AddManualInv ==
  ASSUME FeedInv, NEW a \in Addr, AddManual(a)
  PROVE  FeedInv'
<1>1. /\ BeginApply("add", {a}, NoCard) /\ adopted' = TRUE /\ a \notin file.space
      /\ stored' = [AdoptManual EXCEPT ![Manual] = @ \cup {a}]
      /\ UNCHANGED <<file, lock, cyc, acked, excl, pending>>
  BY DEF AddManual, AddToken, policy
<1>2. NoCard \in Lists
  BY DEF NoCard, Lists
<1>3. adm.pc = "idle" /\ adm' \in Edits /\ adm'.pc = "apply" /\ adm'.op = "add" /\ adm'.addr = {a}
  BY <1>1, <1>2, BeginIs DEF Operations
<1>4. /\ stored' \in [Origins -> SUBSET Addr] /\ a \in stored'[Manual]
      /\ \A s \in Slugs : stored'[s] = stored[s]
      /\ adopted => \A b \in stored[Manual] : b \in stored'[Manual]
  <2>1. AdoptManual \in [Origins -> SUBSET Addr] /\ \A s \in Slugs : AdoptManual[s] = stored[s]
    BY Adoption
  <2>2. adopted => AdoptManual = stored
    BY Adoption
  <2> QED BY <1>1, <2>1, <2>2, OriginsAre
<1>5. FeedTypes'
  BY <1>1, <1>3, <1>4 DEF FeedInv, FeedTypes
<1>6. LockInv' /\ WriteInv'
  BY <1>1, <1>3 DEF FeedInv, LockInv, WriteInv
<1>7. FeedsInv'
  BY <1>4 DEF FeedInv, FeedsInv
<1>8. \A b : OnItsWay(b)' <=> OnItsWay(b)
  BY <1>1, <1>3 DEF OnItsWay
<1>9. TypedInv'
  <2>1. \A b \in acked \cap HandTyped : OnItsWay(b)' => b \in stored'[Manual] /\ b \notin excl
    BY <1>4, <1>8 DEF FeedInv, TypedInv
  <2>2. OnItsWay(a)' => a \notin excl
    BY <1>1, <1>8 DEF FeedInv, TypedInv
  <2>3. \A b \in excl : OnItsWay(b)' => b \in file.space
    BY <1>8 DEF FeedInv, TypedInv
  <2> QED BY <1>1, <1>3, <1>4, <2>1, <2>2, <2>3 DEF TypedInv
<1> QED BY <1>5, <1>6, <1>7, <1>9 DEF FeedInv

\* Manual rows go, and what was reported about them with them; an exclusion is only made of
\* an address in the list.
LEMMA RowsGo ==
  ASSUME FeedInv, NEW addrs \in SUBSET Addr, NEW what \in Operations \ {"add"},
         BeginApply(what, addrs, NoCard), adopted' = TRUE,
         stored' = ManualWithout(AdoptManual, addrs), acked' = acked \ addrs,
         \/ excl' = excl
         \/ \E a \in file.space \cap addrs : excl' = excl \cup {a},
         UNCHANGED <<file, lock, cyc, pending>>
  PROVE  FeedInv'
<1>1. NoCard \in Lists
  BY DEF NoCard, Lists
<1>2. adm.pc = "idle" /\ adm' \in Edits /\ adm'.pc = "apply" /\ adm'.op # "add"
  BY <1>1, BeginIs
<1>3. AdoptManual \in [Origins -> SUBSET Addr] /\ \A s \in Slugs : AdoptManual[s] = stored[s]
  BY Adoption
<1>4. adopted => AdoptManual = stored
  BY Adoption
<1>5. /\ stored' \in [Origins -> SUBSET Addr]
      /\ \A s \in Slugs : stored'[s] = stored[s]
      /\ adopted => \A b \in stored[Manual] : b \in addrs \/ b \in stored'[Manual]
  BY <1>3, <1>4, OriginsAre DEF ManualWithout
<1>6. excl' \subseteq Addr /\ \A b \in excl' : b \in excl \/ b \in file.space \cap addrs
  BY DEF FeedInv, FeedTypes
<1>7. FeedTypes'
  BY <1>2, <1>5, <1>6 DEF FeedInv, FeedTypes
<1>8. LockInv' /\ WriteInv'
  BY <1>2 DEF FeedInv, LockInv, WriteInv
<1>9. FeedsInv'
  BY <1>5 DEF FeedInv, FeedsInv
<1>10. \A b : OnItsWay(b)' <=> OnItsWay(b)
  BY <1>2 DEF OnItsWay
<1>11. TypedInv'
  <2>1. \A b \in acked' \cap HandTyped : OnItsWay(b)' => b \in stored'[Manual] /\ b \notin excl'
    BY <1>5, <1>6, <1>10 DEF FeedInv, TypedInv
  <2>2. ~Adding'
    BY <1>2 DEF Adding
  <2>3. \A b \in excl' : OnItsWay(b)' => b \in file'.space
    BY <1>6, <1>10 DEF FeedInv, TypedInv
  <2> QED BY <2>1, <2>2, <2>3 DEF TypedInv
<1> QED BY <1>7, <1>8, <1>9, <1>11 DEF FeedInv

\* A prefix is deleted, from the panel or by the command.
LEMMA RemoveManualInv ==
  ASSUME FeedInv, NEW a \in Addr, RemoveManual(a)
  PROVE  FeedInv'
BY RowsGo DEF RemoveManual, policy, Operations

\* A prefix is excluded.
LEMMA ExcludeInv ==
  ASSUME FeedInv, NEW a \in Addr, ExcludePrefix(a)
  PROVE  FeedInv'
BY RowsGo DEF ExcludePrefix, policy, Operations

\* Manual rows that the feeds cover are dropped.
LEMMA MigrateInv ==
  ASSUME FeedInv, MigrateManual
  PROVE  FeedInv'
<1> DEFINE c == AdoptManual[Manual] \cap UNION {AdoptManual[s] : s \in Adds}
<1>1. /\ BeginApply("migrate", c, NoCard) /\ adopted' = TRUE
      /\ stored' = ManualWithout(AdoptManual, c) /\ acked' = acked \ c
      /\ UNCHANGED <<file, lock, cyc, pending, excl>>
  BY DEF MigrateManual, policy
<1>2. c \in SUBSET Addr
  BY Adoption, OriginsAre
<1> HIDE DEF c
<1> QED BY <1>1, <1>2, RowsGo DEF Operations

\* The admin presses Apply, Approve or Reload.
LEMMA PressInv ==
  ASSUME FeedInv, ApplySources \/ ApprovePending \/ Reload
  PROVE  FeedInv'
<1>1. NoCard \in Lists /\ pending \in Lists
  BY DEF NoCard, Lists, FeedInv, FeedTypes
<1>2. UNCHANGED <<file, lock, cyc, pending, stored, excl, adopted, acked>>
  BY DEF ApplySources, ApprovePending, Reload, feedRows, policy
<1>3. \E what \in {"apply", "approve", "reload"}, x \in Lists : BeginApply(what, {}, x)
  BY <1>1 DEF ApplySources, ApprovePending, Reload
<1>4. adm.pc = "idle" /\ adm' \in Edits /\ adm'.pc = "apply" /\ adm'.op # "add"
  <2>1. PICK what \in {"apply", "approve", "reload"}, x \in Lists : BeginApply(what, {}, x)
    BY <1>3
  <2>2. what \in Operations /\ {} \in SUBSET Addr
    BY DEF Operations
  <2> QED BY <2>1, <2>2, BeginIs
<1>5. FeedTypes'
  BY <1>2, <1>4 DEF FeedInv, FeedTypes
<1>6. LockInv' /\ WriteInv' /\ FeedsInv'
  BY <1>2, <1>4 DEF FeedInv, LockInv, WriteInv, FeedsInv
<1>7. TypedInv'
  BY <1>2, <1>4 DEF FeedInv, TypedInv, OnItsWay, Adding
<1> QED BY <1>5, <1>6, <1>7 DEF FeedInv

\* The admin's operation is over without a write.
LEMMA EditEnds ==
  ASSUME FeedInv, UNCHANGED <<file, lock, cyc, acked, adopted, excl, stored>>, pending' \in Lists,
         adm.pc # "write", adm' = AdmIdle
  PROVE  FeedInv'
<1>1. adm' \in Edits /\ adm'.pc = "idle"
  BY DEF AdmIdle, Edits, Operations, NoCard, NoList, Lists
<1>2. FeedTypes'
  BY <1>1 DEF FeedInv, FeedTypes
<1>3. LockInv' /\ WriteInv' /\ FeedsInv'
  BY <1>1 DEF FeedInv, LockInv, WriteInv, FeedsInv
<1>4. TypedInv'
  BY <1>1 DEF FeedInv, TypedInv, OnItsWay, Adding
<1> QED BY <1>2, <1>3, <1>4 DEF FeedInv

\* The admin's operation takes the lock and computes what it will write.
LEMMA AdminComputeInv ==
  ASSUME FeedInv, AdminCompute
  PROVE  FeedInv'
<1>1. /\ adm.pc = "apply" /\ lock = None /\ adm \in Edits
      /\ UNCHANGED <<file, cyc, acked, adopted, excl, stored, pending>>
  BY DEF AdminCompute, feedRows, policy, FeedInv, FeedTypes
<1>2. CASE adm' = AdmIdle /\ UNCHANGED lock
  BY <1>1, <1>2, EditEnds DEF FeedInv, FeedTypes
<1>3. ASSUME Computes, lock' = "admin",
             adm' = [adm EXCEPT !.pc = "write",
                                !.plan = IF adm.op = "reload" THEN file ELSE MergeSplitList]
      PROVE  FeedInv'
  <2> DEFINE c == IF adm.op = "reload" THEN file ELSE MergeSplitList
  <2>1. /\ c \in Lists /\ \A a \in c.space : a \in file.space \/ a \notin excl
        /\ \A a \in HandTyped : a \in file.space /\ a \in stored[Manual] /\ a \notin excl
                                => a \in c.space
    BY MergeKeeps DEF FeedInv, FeedTypes
  <2>2. adm' = [adm EXCEPT !.pc = "write", !.plan = c]
    BY <1>3
  <2>3. adm.op = "approve" => c = adm.shown
    BY <1>3 DEF Computes
  <2> HIDE DEF c
  <2>4. /\ adm' \in Edits /\ adm'.pc = "write" /\ adm'.plan = c
        /\ adm'.op = adm.op /\ adm'.addr = adm.addr /\ adm'.shown = adm.shown
    BY <1>1, <2>1, <2>2 DEF Edits
  <2>5. cyc.pc # "write"
    BY <1>1 DEF FeedInv, LockInv, None
  <2>6. FeedTypes'
    BY <1>1, <2>4 DEF FeedInv, FeedTypes
  <2>7. LockInv'
    BY <1>1, <1>3, <2>4, <2>5 DEF LockInv
  <2>8. FeedsInv'
    BY <1>1 DEF FeedInv, FeedsInv
  <2>9. \A a : OnItsWay(a)' => a \in file.space \/ a \in c.space
    BY <1>1, <2>4, <2>5 DEF OnItsWay
  <2>10. \A a \in file.space : OnItsWay(a)
    BY DEF OnItsWay
  <2>11. Adding' = Adding
    BY <1>1, <2>4 DEF Adding
  <2>12. TypedInv'
    <3>1. \A a \in acked \cap HandTyped : OnItsWay(a)' => a \in stored[Manual] /\ a \notin excl
      <4> SUFFICES ASSUME NEW a \in acked \cap HandTyped, OnItsWay(a)'
                   PROVE  a \in stored[Manual] /\ a \notin excl
        OBVIOUS
      <4>1. CASE a \in file.space
        BY <4>1, <2>10 DEF FeedInv, TypedInv
      <4>2. CASE a \notin file.space
        <5>1. a \in c.space /\ a \notin excl
          BY <4>2, <2>1, <2>9
        <5>2. a \in stored[Manual]
          <6>1. c = MergeSplitList
            BY <4>2, <5>1 DEF c
          <6> QED BY <5>1, <6>1, MergeKeeps DEF FeedInv
        <5> QED BY <5>1, <5>2
      <4> QED BY <4>1, <4>2
    <3>2. Adding => \A a \in adm.addr : /\ a \in stored[Manual]
                                        /\ OnItsWay(a)' => a \notin excl
      BY <2>1, <2>9, <2>10 DEF FeedInv, TypedInv
    <3>3. \A a \in excl : OnItsWay(a)' => a \in file.space
      BY <2>1, <2>9
    <3>4. ~adopted => acked = {} /\ ~Adding
      BY DEF FeedInv, TypedInv
    <3> QED BY <1>1, <2>4, <2>11, <3>1, <3>2, <3>3, <3>4 DEF TypedInv
  <2>13. WriteInv'
    <3>1. \A a \in acked \cap HandTyped : a \in file.space => a \in c.space
      BY <2>1, <2>10 DEF FeedInv, TypedInv
    <3> QED BY <1>1, <2>3, <2>4, <2>5, <3>1 DEF WriteInv
  <2> QED BY <2>6, <2>7, <2>8, <2>12, <2>13 DEF FeedInv
<1> QED BY <1>2, <1>3 DEF AdminCompute

\* The admin's operation writes; only the addition of an address is reported.
LEMMA AdminWriteInv ==
  ASSUME FeedInv, AdminWrite
  PROVE  FeedInv' /\ ManualStaysRouted /\ CardIsWhatIsWritten
<1>1. /\ adm.pc = "write" /\ lock' = None /\ adm.plan \in Lists /\ adm \in Edits
      /\ UNCHANGED <<cyc, adopted, excl, stored, pending>>
  BY DEF AdminWrite, feedRows, policy, FeedInv, FeedTypes, Edits
<1>2. lock = "admin" /\ cyc.pc # "write"
  BY <1>1 DEF FeedInv, LockInv
<1>3. PICK probe, r \in ApplyLocked(adm.plan, warpEndpoint', adm.op = "reload") :
        /\ file' = r.file
        /\ acked' = IF r.ok /\ adm.op = "add" THEN acked \cup adm.addr ELSE acked
        /\ adm' = IF r.ok /\ adm.op \in {"apply", "approve"}
                  THEN [adm EXCEPT !.pc = "after"] ELSE AdmIdle
  BY DEF AdminWrite
<1>4. file' = file \/ file' = adm.plan
  BY <1>1, <1>3, WriteLeaves
<1>5. adm' \in Edits /\ adm'.pc \notin {"apply", "write"}
  <2> DEFINE x == [adm EXCEPT !.pc = "after"]
  <2>1. adm' = AdmIdle \/ adm' = x
    BY <1>3
  <2>2. x \in Edits /\ x.pc = "after"
    BY <1>1 DEF Edits
  <2> HIDE DEF x
  <2>3. AdmIdle \in Edits /\ AdmIdle.pc = "idle"
    BY DEF AdmIdle, Edits, Operations, NoCard, NoList, Lists
  <2> QED BY <2>1, <2>2, <2>3
<1>6. /\ adm.addr \subseteq Addr
      /\ acked' \subseteq acked \cup adm.addr
      /\ Adding \/ acked' = acked
  BY <1>1, <1>3 DEF Adding, Edits
<1>7. FeedTypes'
  BY <1>1, <1>4, <1>5, <1>6 DEF FeedInv, FeedTypes
<1>8. LockInv'
  BY <1>1, <1>2, <1>5 DEF LockInv, None
<1>9. FeedsInv'
  BY <1>1 DEF FeedInv, FeedsInv
<1>10. \A a : OnItsWay(a)' => a \in file'.space /\ OnItsWay(a)
  BY <1>1, <1>2, <1>4, <1>5 DEF OnItsWay
<1>11. TypedInv'
  <2>1. ~Adding'
    BY <1>5 DEF Adding
  <2>2. \A a \in acked' \cap HandTyped : OnItsWay(a)' => a \in stored[Manual] /\ a \notin excl
    BY <1>6, <1>10 DEF FeedInv, TypedInv
  <2>3. \A a \in excl : OnItsWay(a)' => a \in file'.space
    BY <1>10
  <2>4. ~adopted => acked' = {}
    BY <1>6 DEF FeedInv, TypedInv
  <2> QED BY <1>1, <2>1, <2>2, <2>3, <2>4 DEF TypedInv
<1>12. WriteInv'
  BY <1>1, <1>2, <1>5 DEF WriteInv
<1>13. ManualStaysRouted
  BY <1>1, <1>4 DEF ManualStaysRouted, FeedInv, WriteInv
<1>14. CardIsWhatIsWritten
  BY <1>1, <1>4 DEF CardIsWhatIsWritten, FeedInv, WriteInv
<1> QED BY <1>7, <1>8, <1>9, <1>11, <1>12, <1>13, <1>14 DEF FeedInv

\* The admin's operation closes its books.
LEMMA AdminAfterInv ==
  ASSUME FeedInv, AdminAfter
  PROVE  FeedInv'
BY EditEnds DEF AdminAfter, feedRows, FeedInv, FeedTypes, NoCard, Lists

\* A button of the sources panel, a rejected card or a feed that ages.
LEMMA ButtonInv ==
  ASSUME FeedInv,
         \/ \E s \in Slugs : \/ PreviewFetch(s) \/ DeleteSource(s) \/ FeedAges(s)
                             \/ \E on \in BOOLEAN : SetEnabled(s, on)
                             \/ \E m, sc : AddSource(s, m, sc)
         \/ RejectPending
  PROVE  FeedInv'
<1>1. UNCHANGED <<file, lock, cyc, adm, acked, adopted, excl>>
  BY Zenon DEF PreviewFetch, DeleteSource, FeedAges, SetEnabled, AddSource, RejectPending, feedRows
<1>2. pending' \in Lists
  <2>1. pending' = pending \/ pending' = NoCard
    BY Zenon DEF PreviewFetch, DeleteSource, FeedAges, SetEnabled, AddSource, RejectPending, policy
  <2> QED BY <2>1 DEF FeedInv, FeedTypes, NoCard, Lists
<1>3. stored' \in [Origins -> SUBSET Addr] /\ FeedsInv' /\ stored'[Manual] = stored[Manual]
  <2>1. CASE stored' = stored
    BY <2>1 DEF FeedInv, FeedTypes, FeedsInv
  <2>2. CASE \E s \in Slugs : PreviewFetch(s)
    BY <2>2, FetchedRows DEF PreviewFetch
  <2>3. CASE \E s \in Slugs : DeleteSource(s)
    <3>1. PICK s \in Slugs : stored' = [stored EXCEPT ![s] = {}]
      BY <2>3 DEF DeleteSource
    <3>2. s \in Origins /\ s # Manual /\ Manual \in Origins /\ \A d \in Slugs : d \in Origins
      BY OriginsAre
    <3>3. stored \in [Origins -> SUBSET Addr] /\ \A d \in Slugs : stored[d] \subseteq UNION Publish
      BY DEF FeedInv, FeedTypes, FeedsInv
    <3>4. \A d \in Slugs : stored'[d] \subseteq UNION Publish
      BY <3>1, <3>2, <3>3
    <3> QED BY <3>1, <3>2, <3>3, <3>4 DEF FeedsInv
  <2>4. stored' = stored \/ (\E s \in Slugs : PreviewFetch(s)) \/ (\E s \in Slugs : DeleteSource(s))
    BY Zenon DEF FeedAges, SetEnabled, AddSource, RejectPending, feedRows
  <2> QED BY <2>1, <2>2, <2>3, <2>4
<1> QED BY <1>1, <1>2, <1>3, RowsOnly

\* The process dies: the file is the one that was there or the one on its way.
LEMMA CrashInv ==
  ASSUME FeedInv, FeedsCrash
  PROVE  FeedInv' /\ ManualStaysRouted /\ CardIsWhatIsWritten
<1>1. /\ cyc' = CycIdle /\ adm' = AdmIdle /\ lock' = None
      /\ UNCHANGED <<stored, excl, adopted, pending, acked>>
  BY DEF FeedsCrash, feedRows, policy
<1>2. /\ cyc' \in Cycles /\ cyc'.pc = "idle"
      /\ adm' \in Edits /\ adm'.pc = "idle"
  BY <1>1, CycleRecords DEF AdmIdle, Edits, Operations, NoCard, NoList, Lists
<1>3. \/ file' = file
      \/ cyc.pc = "write" /\ file' = cyc.saw
      \/ adm.pc = "write" /\ file' = adm.plan
  <2>1. \A f \in InFlight : \/ cyc.pc = "write" /\ f = cyc.saw
                            \/ adm.pc = "write" /\ f = adm.plan
    <3>1. CASE lock = "cycle"
      BY <3>1 DEF InFlight, FeedInv, LockInv
    <3>2. CASE lock = "admin"
      BY <3>2 DEF InFlight, FeedInv, LockInv
    <3>3. CASE lock \notin {"cycle", "admin"}
      BY <3>3 DEF InFlight
    <3> QED BY <3>1, <3>2, <3>3
  <2> QED BY <2>1 DEF FeedsCrash
<1>4. cyc.saw \in Lists /\ adm.plan \in Lists /\ file \in Lists
  BY DEF FeedInv, FeedTypes, Cycles, Edits
<1>5. FeedTypes'
  BY <1>1, <1>2, <1>3, <1>4 DEF FeedInv, FeedTypes
<1>6. LockInv' /\ WriteInv'
  BY <1>1, <1>2 DEF LockInv, WriteInv, None
<1>7. FeedsInv'
  BY <1>1 DEF FeedInv, FeedsInv
<1>8. \A a : OnItsWay(a)' => a \in file'.space /\ OnItsWay(a)
  BY <1>2, <1>3 DEF OnItsWay
<1>9. TypedInv'
  BY <1>1, <1>2, <1>8 DEF FeedInv, TypedInv, Adding
<1>10. ManualStaysRouted
  BY <1>1, <1>3 DEF ManualStaysRouted, FeedInv, WriteInv
<1>11. CardIsWhatIsWritten
  <2>1. adm.pc = "write" => cyc.pc # "write"
    BY DEF FeedInv, LockInv
  <2> QED BY <1>3, <2>1 DEF CardIsWhatIsWritten, FeedInv, WriteInv
<1> QED BY <1>5, <1>6, <1>7, <1>9, <1>10, <1>11 DEF FeedInv

\* A step that does not touch the list drops nothing from it.
LEMMA FileKept ==
  ASSUME UNCHANGED file
  PROVE  ManualStaysRouted /\ CardIsWhatIsWritten
BY DEF ManualStaysRouted, CardIsWhatIsWritten

\* Only the two locked writes and a crash touch the list.
LEMMA FileMoves ==
  ASSUME WarpNext
  PROVE  CycleWrite \/ AdminWrite \/ FeedsCrash \/ UNCHANGED file
BY Zenon DEF WarpNext, CycleStart, CycleFetch, CyclePlan, CycleDecide, CycleCompute, CycleAfter,
   AddManual, PanelDelete, CommandDelete, RemoveManual, ExcludePrefix, MigrateManual, ApplySources,
   ApprovePending, Reload, AdminCompute, AdminAfter, PreviewFetch, DeleteSource, FeedAges,
   SetEnabled, AddSource, RejectPending

\* The invariant of the routed list is inductive.
LEMMA FeedStep ==
  ASSUME FeedInv, WarpNext
  PROVE  FeedInv' /\ ManualStaysRouted /\ CardIsWhatIsWritten
<1>1. FeedInv'
  <2>1. CASE CycleStart \/ CycleFetch \/ CyclePlan \/ CycleDecide
    BY <2>1, CycleStartInv, CycleFetchInv, CyclePlanInv, CycleDecideInv
  <2>2. CASE CycleCompute \/ CycleWrite \/ CycleAfter
    BY <2>2, CycleComputeInv, CycleWriteInv, CycleAfterInv
  <2>3. CASE \E a \in Addr : AddManual(a) \/ PanelDelete(a) \/ CommandDelete(a) \/ ExcludePrefix(a)
    BY <2>3, AddManualInv, RemoveManualInv, ExcludeInv DEF PanelDelete, CommandDelete
  <2>4. CASE MigrateManual \/ ApplySources \/ ApprovePending \/ Reload
    BY <2>4, MigrateInv, PressInv
  <2>5. CASE AdminCompute \/ AdminWrite \/ AdminAfter \/ FeedsCrash
    BY <2>5, AdminComputeInv, AdminWriteInv, AdminAfterInv, CrashInv
  <2>6. CASE \/ \E s \in Slugs : \/ PreviewFetch(s) \/ DeleteSource(s) \/ FeedAges(s)
                                 \/ \E on \in BOOLEAN : SetEnabled(s, on)
                                 \/ \E m, sc : AddSource(s, m, sc)
             \/ RejectPending
    BY <2>6, ButtonInv
  <2> QED BY Zenon, <2>1, <2>2, <2>3, <2>4, <2>5, <2>6 DEF WarpNext
<1>2. ManualStaysRouted /\ CardIsWhatIsWritten
  BY FileMoves, FileKept, CycleWriteInv, AdminWriteInv, CrashInv
<1> QED BY <1>1, <1>2

\* Nothing was typed and nobody holds the lock when the installation starts.
LEMMA FeedStart ==
  ASSUME WarpInit
  PROVE  FeedInv
<1>1. FeedTypes
  <2>1. CycIdle \in Cycles /\ AdmIdle \in Edits /\ NoCard \in Lists
    BY DEF CycIdle, Cycles, CyclePlaces, AdmIdle, Edits, Operations, NoCard, NoList, Lists
  <2>2. FirstFile \in Lists
    BY WarpAssumption DEF WarpAssumption
  <2> QED BY <2>1, <2>2 DEF WarpInit, FeedTypes
<1>2. LockInv /\ WriteInv
  BY DEF WarpInit, LockInv, WriteInv, CycIdle, AdmIdle, None
<1>3. FeedsInv
  BY OriginsAre DEF WarpInit, FeedsInv
<1>4. TypedInv
  BY DEF WarpInit, TypedInv, Adding, AdmIdle, None
<1> QED BY <1>1, <1>2, <1>3, <1>4 DEF FeedInv

\* The inductive invariant of the split's prefix list holds of every state: whoever holds
\* the manager's lock is the one who writes, a reported hand-typed address that is routed or
\* on its way is a manual row that no exclusion covers (warp_split_feeds.py, split_manager.py).
THEOREM FeedInductive == WarpSpec => []FeedInv
<1>1. WarpInit => FeedInv
  BY FeedStart
<1>2. FeedInv /\ [WarpNext]_warpVars => FeedInv'
  <2>1. CASE WarpNext
    BY <2>1, FeedStep
  <2>2. CASE UNCHANGED warpVars
    BY <2>2 DEF warpVars, feedRows, policy, FeedInv, FeedTypes, LockInv, FeedsInv, TypedInv,
                WriteInv, OnItsWay, Adding
  <2> QED BY <2>1, <2>2
<1> QED BY <1>1, <1>2, PTL DEF WarpSpec

\* However refreshes, edits, crashes and failing helpers interleave, a write changes the
\* routed list to the card that was approved or not at all, and no write drops a hand-typed
\* prefix that was reported as added (apply_computed recomputes under the manager's lock).
THEOREM RoutedStaysAgreed == WarpSpec => RoutedAsAgreed
<1>1. FeedInv /\ [WarpNext]_warpVars => [CardIsWhatIsWritten /\ ManualStaysRouted]_warpVars
  BY FeedStep
<1> QED BY <1>1, FeedInductive, PTL DEF WarpSpec, RoutedAsAgreed
===============================================================================
