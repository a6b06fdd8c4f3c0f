----------------------------- MODULE HostStatus -----------------------------
(***************************************************************************)
(* The live server-status panel: the sampler of services/server_status.py  *)
(* that reads /proc once a second, the network columns that each render    *)
(* cuts off, the online counter with its cache (online_clients.py), and    *)
(* the refresh loop of every open panel (auto_refresh.py), driven by the   *)
(* handlers of admin_dashboard.py.                                         *)
(*                                                                         *)
(* Of the metrics only the received bytes are modelled: CPU and sent bytes *)
(* take the same path, RAM, disk and load keep no state.  Columns hold the *)
(* numbers of the samples they average.                                    *)
(***************************************************************************)
EXTENDS Integers, FiniteSets, SequencesExt

CONSTANTS
    Panels,     \* messages that show the panel
    SampleWin,  \* _AVERAGING_SAMPLES
    Points,     \* _SPARKLINE_POINTS
    Ttl,        \* the life of a cached online count, in seconds
    LastSecond, \* bound: seconds
    MaxViews    \* bound: handlers and loops ever started

ASSUME StatusAssumption ==
    /\ {SampleWin, Points, Ttl} \subseteq Nat \ {0} /\ MaxViews \in Nat
    /\ LastSecond \in Nat /\ Ttl <= LastSecond

VARIABLES
    second,      \* the monotonic clock
    hostBytes,   \* the counter of /proc/net/dev, a byte more every second
    prevNet,     \* _prev_net
    firstNet,    \* history: the first reading
    measured,    \* history: the bytes of all the windows measured so far
    recentOf,    \* _recent: was each cached sample taken in detailed mode
    sampleNo,    \* history: samples fed to the columns
    acc, columns, \* _bucket_in_samples, _net_in_buckets
    detailed, detailedRow, \* the flag of the sampler and its row
    views,       \* the handlers and refresh loops under way
    registry,    \* LiveRefreshManager._tasks
    onlineLock, cachedAt, baseline, \* of OnlineClientsService; baseline: when _prev_wg was read
    shortest,    \* history: the shortest window an online count compared
    cutOff       \* history: the last poll was cancelled before its count was cached

samplerVars == <<hostBytes, prevNet, firstNet, measured, sampleNo>>
historyVars == <<recentOf, acc, columns>>
modeVars == <<detailed, detailedRow>>
onlineVars == <<onlineLock, cachedAt, baseline, shortest, cutOff>>
statusVars == <<second, samplerVars, historyVars, modeVars, views, registry, onlineVars>>

NotRead == -1
NoView == [kind |-> "none", panel |-> "", pc |-> "off", want |-> FALSE, cancelled |-> FALSE]
ViewIds == 1 .. MaxViews
StartedViews == { v \in ViewIds : views[v].kind # "none" }
LiveView(v) == views[v].pc \notin {"off", "ended"} /\ ~views[v].cancelled

StatusInit ==
    /\ second = 0 /\ hostBytes = 0 /\ prevNet = NotRead /\ firstNet = 0 /\ measured = 0
    /\ recentOf = <<>> /\ sampleNo = 0 /\ acc = <<>> /\ columns = <<>>
    /\ detailedRow \in BOOLEAN /\ detailed = detailedRow
    /\ views = [v \in ViewIds |-> NoView]
    /\ registry = [p \in Panels |-> 0]
    /\ onlineLock = 0 /\ cachedAt = NotRead /\ baseline = NotRead /\ shortest = LastSecond /\ cutOff = FALSE

-----------------------------------------------------------------------------
(* The sampler *)

LastOf(s, n) == IF Len(s) <= n THEN s ELSE SubSeq(s, Len(s) - n + 1, Len(s))

\* _sample_once, a second after the last: the rate is taken against the previous
\* good reading, however old, and a reading that fails leaves that one in place.
Sample(readable) ==
    LET now == hostBytes + 1
        ok == readable /\ prevNet # NotRead
    IN  /\ second < LastSecond /\ second' = second + 1
        /\ hostBytes' = now
        /\ prevNet' = IF readable THEN now ELSE prevNet
        /\ firstNet' = IF readable /\ prevNet = NotRead THEN now ELSE firstNet
        /\ measured' = IF ok THEN measured + now - prevNet ELSE measured
        /\ recentOf' = LastOf(Append(recentOf, detailed), SampleWin)
        /\ sampleNo' = IF ok /\ detailed THEN sampleNo + 1 ELSE sampleNo
        /\ acc' = IF ok /\ detailed THEN Append(acc, sampleNo + 1) ELSE acc
        /\ UNCHANGED <<columns, modeVars, views, registry, onlineVars>>

\* snapshot_averaged: in detailed mode a render freezes what was gathered since
\* the last one into a column.
Flush ==
    IF recentOf # <<>> /\ Last(recentOf) /\ acc # <<>>
    THEN columns' = LastOf(Append(columns, acc), Points) /\ acc' = <<>>
    ELSE UNCHANGED <<columns, acc>>

ResetNetworkHistory == acc' = <<>> /\ columns' = <<>>

\* set_detailed: turning it off clears the history and the cached samples
SetDetailed(on) ==
    /\ detailed' = on
    /\ IF detailed /\ ~on
       THEN ResetNetworkHistory /\ recentOf' = [i \in DOMAIN recentOf |-> FALSE]
       ELSE UNCHANGED historyVars

-----------------------------------------------------------------------------
(* Handlers and loops *)

ViewAt(v, pc) == views' = [views EXCEPT ![v].pc = pc]
EndedView == [NoView EXCEPT !.kind = "done", !.pc = "ended"]
ViewIsAt(v, pc) == views[v].pc = pc /\ ~views[v].cancelled

NewView(kind, p, pc, want) ==
    [kind |-> kind, panel |-> p, pc |-> pc, want |-> want, cancelled |-> FALSE]
FreeView == { v \in ViewIds : views[v].kind = "none" /\ \A u \in ViewIds : u < v => views[u].kind # "none" }

\* admin_server_status: past the gate the history starts anew, for every panel
OpenStatus(p) == \E v \in FreeView :
    /\ views' = [views EXCEPT ![v] = NewView("open", p, "render", FALSE)]
    /\ ResetNetworkHistory
    /\ UNCHANGED <<second, samplerVars, recentOf, modeVars, registry, onlineVars>>

\* admin_server_status_toggle_detailed reads the flag, and awaits its row ...
ToggleDetailed(p) == \E v \in FreeView :
    /\ views' = [views EXCEPT ![v] = NewView("toggle", p, "row", ~detailed)]
    /\ UNCHANGED <<second, samplerVars, historyVars, modeVars, registry, onlineVars>>

\* ... and then sets it.
ToggleSet(v) ==
    /\ ViewIsAt(v, "row")
    /\ detailedRow' = views[v].want
    /\ SetDetailed(views[v].want)
    /\ ViewAt(v, "render")
    /\ UNCHANGED <<second, samplerVars, registry, onlineVars>>

\* _render_server_status and the refresh of a loop: the snapshot, then the online count
RenderStatus(v) ==
    /\ ViewIsAt(v, "render")
    /\ Flush
    /\ ViewAt(v, "online")
    /\ UNCHANGED <<second, samplerVars, recentOf, modeVars, registry, onlineVars>>

FreshCount == cachedAt # NotRead /\ second - cachedAt < Ttl

OnlineCached(v) ==
    /\ ViewIsAt(v, "online") /\ FreshCount
    /\ ViewAt(v, "edit")
    /\ UNCHANGED <<second, samplerVars, historyVars, modeVars, registry, onlineVars>>

OnlineWait(v) ==
    /\ ViewIsAt(v, "online") /\ ~FreshCount
    /\ ViewAt(v, "lock")
    /\ UNCHANGED <<second, samplerVars, historyVars, modeVars, registry, onlineVars>>

\* Mutant: who waited for the lock counts again
AfterLock_Recounts == "poll"

\* under the lock the cache is looked at again
AfterLock == IF FreshCount THEN "edit" ELSE "poll"

OnlineLocked(v) ==
    /\ ViewIsAt(v, "lock") /\ onlineLock = 0
    /\ ViewAt(v, AfterLock)
    /\ onlineLock' = IF AfterLock = "poll" THEN v ELSE 0
    /\ UNCHANGED <<second, samplerVars, historyVars, modeVars, registry, cachedAt, baseline, shortest, cutOff>>

\* _count_wg, _count_xray: clients whose counter grew since the previous poll; a
\* read that fails leaves that poll as the baseline.
CountIncreased(v, ok) ==
    /\ ViewIsAt(v, "poll")
    /\ shortest' = IF ok /\ ~cutOff /\ baseline # NotRead /\ second - baseline < shortest
                   THEN second - baseline ELSE shortest
    /\ baseline' = IF ok THEN second ELSE baseline
    /\ cutOff' = (cutOff /\ ~ok)
    /\ ViewAt(v, "store")
    /\ UNCHANGED <<second, samplerVars, historyVars, modeVars, registry, onlineLock, cachedAt>>

StoreOnline(v) ==
    /\ ViewIsAt(v, "store")
    /\ cachedAt' = second /\ onlineLock' = 0
    /\ ViewAt(v, "edit")
    /\ UNCHANGED <<second, samplerVars, historyVars, modeVars, registry, baseline, shortest, cutOff>>

-----------------------------------------------------------------------------
(* LiveRefreshManager *)

\* cancel: the entry goes at once, the task at its next await
CancelIn(vs, p) == IF registry[p] = 0 THEN vs ELSE [vs EXCEPT ![registry[p]].cancelled = TRUE]

\* The handler's card is edited: start() replaces the loop of the message.
StartRefresh(v) == \E new \in FreeView :
    LET p == views[v].panel IN
    /\ ViewIsAt(v, "edit") /\ views[v].kind # "loop"
    /\ views' = [CancelIn(views, p) EXCEPT ![v] = EndedView, ![new] = NewView("loop", p, "sleep", FALSE)]
    /\ registry' = [registry EXCEPT ![p] = new]
    /\ UNCHANGED <<second, samplerVars, historyVars, modeVars, onlineVars>>

\* The handler could not edit its card, or the message is gone.
HandlerFails(v) ==
    /\ ViewIsAt(v, "edit") /\ views[v].kind # "loop"
    /\ views' = [views EXCEPT ![v] = EndedView]
    /\ UNCHANGED <<second, samplerVars, historyVars, modeVars, registry, onlineVars>>

\* A loop sleeps its interval and renders again.
RefreshAgain(v) ==
    /\ views[v].kind = "loop" /\ (ViewIsAt(v, "sleep") \/ ViewIsAt(v, "edit"))
    /\ ViewAt(v, IF views[v].pc = "sleep" THEN "render" ELSE "sleep")
    /\ UNCHANGED <<second, samplerVars, historyVars, modeVars, registry, onlineVars>>

\* _forget, the done callback
Forget(v) ==
    registry' = [registry EXCEPT ![views[v].panel] = IF @ = v THEN 0 ELSE @]

\* A loop ends: its message is gone, its hour is over, or its cancellation arrives,
\* which gives back the lock of the online count.
RefreshEnds(v) ==
    /\ views[v].kind = "loop" /\ views[v].pc # "ended"
    /\ views[v].cancelled \/ views[v].pc \in {"sleep", "edit"}
    /\ views' = [views EXCEPT ![v] = EndedView]
    /\ Forget(v)
    /\ onlineLock' = IF onlineLock = v THEN 0 ELSE onlineLock
    /\ cutOff' = (cutOff \/ views[v].pc = "store")
    /\ UNCHANGED <<second, samplerVars, historyVars, modeVars, cachedAt, baseline, shortest>>

\* stop_server_status_auto_refresh: the admin goes to another screen
NavigateAway(p) ==
    /\ registry[p] # 0
    /\ views' = CancelIn(views, p)
    /\ registry' = [registry EXCEPT ![p] = 0]
    /\ UNCHANGED <<second, samplerVars, historyVars, modeVars, onlineVars>>

StatusNext ==
    \/ \E readable \in BOOLEAN : Sample(readable)
    \/ \E p \in Panels : OpenStatus(p) \/ ToggleDetailed(p) \/ NavigateAway(p)
    \/ \E v \in StartedViews : \/ ToggleSet(v) \/ RenderStatus(v) \/ OnlineCached(v) \/ OnlineWait(v)
                          \/ OnlineLocked(v) \/ StoreOnline(v) \/ StartRefresh(v)
                          \/ HandlerFails(v) \/ RefreshAgain(v) \/ RefreshEnds(v)
                          \/ \E ok \in BOOLEAN : CountIncreased(v, ok)

StatusSpec == StatusInit /\ [][StatusNext]_statusVars

-----------------------------------------------------------------------------
(* Properties *)

\* "Every sampled second feeds exactly one column": whoever renders, opens or
\* toggles, the columns and the one in progress hold consecutive samples, up to
\* the last; and the windows of the rates tile the time between the readings.
SamplesTile ==
    LET next(j) == IF j < Len(columns) THEN Head(columns[j + 1]) ELSE sampleNo - Len(acc) + 1
    IN  /\ \A i \in DOMAIN acc : acc[i] = sampleNo - Len(acc) + i
        /\ \A j \in DOMAIN columns :
              /\ columns[j] # <<>>
              /\ \A i \in DOMAIN columns[j] : columns[j][i] = next(j) - 1 - Len(columns[j]) + i
        /\ prevNet # NotRead => measured = prevNet - firstNet

\* Without detailed mode nothing of it is left to show.
DetailIsGone == ~detailed => acc = <<>> /\ columns = <<>> /\ \A i \in DOMAIN recentOf : ~recentOf[i]

\* An online count compares polls that are a whole cache life apart, however many
\* panels ask for it at once (OnlineClientsService.get): a shorter window would
\* show idle clients as offline.  The one exception is the count after a poll that
\* was cancelled with its panel between the new baseline and the cache.
OnlineWindow == shortest >= Ttl

\* "a panel never has two loops fighting over the same message", and the one it
\* has is the one that leaving the screen cancels (LiveRefreshManager).
OneLoopPerPanel == \A v \in StartedViews : views[v].kind = "loop" /\ LiveView(v) => registry[views[v].panel] = v

\* The panel shows what the host did, and stops when it is left.
PanelIsTrue == SamplesTile /\ DetailIsGone /\ OnlineWindow /\ OneLoopPerPanel
=============================================================================
