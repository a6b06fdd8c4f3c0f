------------------------------ MODULE WarpFeeds ------------------------------
(***************************************************************************)
(* The prefix list of the WARP selective split: the feeds that supply it,  *)
(* the merge, the supervised refresh cycle, the admin's edits, and the     *)
(* manager that writes the routed file under one lock                      *)
(* (services/warp_split_feeds.py, warp/split_manager.py,                   *)
(* warp/split_merge.py, warp/split_analysis.py,                            *)
(* repositories/warp_split_sources.py, adapters/warp_feed_fetcher.py and   *)
(* the handlers bot/handlers/admin_warp_split*.py).                        *)
(*                                                                         *)
(* A prefix set is the set of addresses it covers, which is what collapse  *)
(* and subtract_networks compute over; how those addresses are cut into    *)
(* CIDR blocks is the one bit `cut' of the file.  A list hash is the list. *)
(* The refresh cycle and one admin's operation run concurrently and meet   *)
(* at the manager's lock; another admin presses the buttons that only      *)
(* touch the database at any moment.  One repository call is one step.     *)
(***************************************************************************)
EXTENDS Integers, FiniteSets

CONSTANTS
  Slugs,          \* slugs a source may have
  Addr,           \* addresses
  Publish,        \* what a feed may publish: a set of non-empty sets of addresses
  Endpoints,      \* addresses the tunnel's peer may have
  Guarded,        \* addresses no list may hold (AWG network, WAN, gateway)
  MaxPrefixes,    \* WARP_SPLIT_MAX_PREFIXES, counted in addresses
  MaxShrinkPct, MaxGrowthPct, ConfirmStreak,   \* the thresholds of auto mode
  FirstFile,      \* the list file the installation starts with
  FirstAdd,       \* the add source of the seeded rows, the scope of the others
  FirstEnabled,   \* the sources an admin has enabled so far
  MaxCycles, MaxEdits, MaxCrashes              \* bounds on the environment

Manual == "manual"
None == "none"
Origins == Slugs \cup {Manual}
NoList == [space |-> {}, cut |-> "merged"]
NoCard == [space |-> {}, cut |-> "raw"]
Lists == [space : SUBSET Addr, cut : {"raw", "merged"}]

ASSUME WarpAssumption ==
  /\ Manual \notin Slugs /\ None \notin Slugs
  /\ Publish \subseteq (SUBSET Addr) \ {{}} /\ FirstFile \in Lists
  /\ ConfirmStreak \in Nat \ {0}
  /\ MaxShrinkPct \in Nat /\ MaxGrowthPct \in Nat

VARIABLES
  mode,       \* WARP_SPLIT_FEEDS_MODE
  src,        \* warp_split_sources: [mode, scope, enabled, fresh], mode None if absent
  stored,     \* warp_split_prefixes, by origin
  excl,       \* warp_split_exclusions
  adopted,    \* the meta flag of the one-time adoption
  file,       \* the routed list on disk
  base,       \* warp_split_baseline: the list and each origin's coverage, -1 if none
  pending,    \* the candidate waiting for approval, or NoCard
  streak,     \* how often the same candidate was seen in a row
  warpEndpoint, \* the last WARP endpoint the manager read, or None
  lock,       \* holder of the manager's lock
  cyc,        \* the refresh cycle
  adm,        \* the admin operation that is under way
  acked,      \* hand-typed addresses whose addition was reported done
  cycles, edits, crashes

feedRows == <<src, stored, excl, adopted>>
policy == <<base, pending, streak>>
bounds == <<cycles, edits, crashes>>
warpVars == <<mode, feedRows, file, policy, warpEndpoint, lock, cyc, adm, acked, bounds>>

Source(m, sc) == [mode |-> m, scope |-> sc, enabled |-> FALSE, fresh |-> "never"]
NoSource == Source(None, None)
Exists(s) == src[s].mode # None
Enabled(s) == src[s].enabled
EnabledSources == {s \in Slugs : Enabled(s)}
Adds == {s \in EnabledSources : src[s].mode = "add"}
Subtracts == {s \in EnabledSources : src[s].mode = "subtract"}

CycIdle == [pc |-> "idle", plan |-> NoList, todo |-> {}, empties |-> {}, saw |-> NoList]
AdmIdle == [pc |-> "idle", op |-> None, addr |-> {}, shown |-> NoCard, plan |-> NoList]

-----------------------------------------------------------------------------
(* The merge.                                                              *)

\* A scoped subtraction leaves the other contributions alone; a scope that is
\* absent or disabled makes the operand inert.
SubtractFrom(s) == UNION {stored[d] : d \in {d \in Subtracts : src[d].scope = s}}

MergeWith(manual) ==
  LET union == (UNION {stored[s] \ SubtractFrom(s) : s \in Adds}) \cup manual
      global == UNION {stored[d] : d \in {d \in Subtracts : src[d].scope = None}}
  IN  [space |-> (union \ global) \ excl, cut |-> "merged"]

MergeSplitList == MergeWith(stored[Manual])

\* build_plan refuses to merge without the contribution of an enabled operand.
CanMerge == \A s \in EnabledSources : stored[s] # {}

-----------------------------------------------------------------------------
(* The analysis of a candidate.                                            *)

Shrank(s) == base.per[s] > 0
             /\ (base.per[s] - Cardinality(stored[s])) * 100 > MaxShrinkPct * base.per[s]
Stale(s) == src[s].fresh # "fresh" /\ base.per[s] >= 0
Vanished(s, empties) == s \in empties \/ (stored[s] = {} /\ base.per[s] >= 0)
Grew(cand) ==
  LET n == Cardinality(base.list.space)
  IN  n > 0 /\ (Cardinality(cand.space) - n) * 100 > MaxGrowthPct * n

Suspicious(cand, empties) ==
  \/ \E s \in EnabledSources : Shrank(s) \/ Stale(s) \/ Vanished(s, empties)
  \/ Grew(cand)

PureAggregation(cand, old) == cand # old /\ cand.space = old.space

-----------------------------------------------------------------------------
(* The manager: guards, the locked write, the baseline.                    *)

\* One probe of the tunnel: a failure keeps the endpoint that was seen last.
RefreshEndpoint(probe) == IF probe = None THEN warpEndpoint ELSE probe

Guards(ep) == Guarded \cup {ep}

CheckCandidate(cand, ep) ==
  /\ Cardinality(cand.space) <= MaxPrefixes
  /\ cand.space \cap Guards(ep) = {}

\* A typed prefix is accepted if no guard covers it and it is not there yet.
AddToken(a, ep, known) == a \notin Guards(ep) \cup known

\* A prefix is deleted only if it is routed and is not the whole list.
DelToken(a) == a \in file.space /\ file.space # {a}

\* A failed helper may have renamed the file already; the previous list is
\* put back by a second call of the helper, which may fail in turn.
RestorePrevious(cand) == {[file |-> file, ok |-> FALSE], [file |-> cand, ok |-> FALSE]}

\* The files the write may leave behind, with whether it is reported as done.
\* A refused candidate and a byte-identical one call no helper.
ApplyLocked(cand, ep, force) ==
  IF cand.space = {} \/ ~CheckCandidate(cand, ep) THEN {[file |-> file, ok |-> FALSE]}
  ELSE IF ~force /\ cand = file THEN {[file |-> file, ok |-> TRUE]}
  ELSE {[file |-> cand, ok |-> TRUE]} \cup RestorePrevious(cand)

\* The coverage of what is stored, recorded with the list that was written.
CaptureBaseline ==
  IF file.space = {} THEN base
  ELSE [list |-> file,
        per |-> [o \in Origins |-> IF stored[o] = {} THEN -1 ELSE Cardinality(stored[o])]]

ReconcileBaseline == IF file.space = {} \/ base.list = file THEN base ELSE CaptureBaseline

AdoptManual == IF adopted \/ file.space = {} THEN stored ELSE [stored EXCEPT ![Manual] = file.space]

\* The manual rows without one range: rows inside it go, a wider row is split.
ManualWithout(rows, addrs) == [rows EXCEPT ![Manual] = @ \ addrs]

-----------------------------------------------------------------------------
(* Fetching one source: record_attempt, fetch, parse_feed and then either  *)
(* replace_prefixes with record_success or record_failure.                 *)

FetchOutcomes == [got : Publish] \cup {[fails |-> "error"], [fails |-> "empty"]}

Parsed(o) == "got" \in DOMAIN o
ReplacePrefixes(o, addrs) == [stored EXCEPT ![o] = addrs]
\* A row that was deleted during the fetch stays deleted.
RecordSuccess(s) == IF Exists(s) THEN [src EXCEPT ![s].fresh = "fresh"] ELSE src

Fetched(s, o) ==
  IF Parsed(o)
  THEN stored' = ReplacePrefixes(s, o.got) /\ src' = RecordSuccess(s)
  ELSE UNCHANGED <<stored, src>>

-----------------------------------------------------------------------------
(* The unattended cycle.                                                   *)

CycleStart ==
  /\ cyc.pc = "idle" /\ cycles < MaxCycles
  /\ cycles' = cycles + 1
  /\ stored' = AdoptManual /\ adopted' = TRUE
  /\ base' = ReconcileBaseline
  /\ cyc' = [CycIdle EXCEPT !.pc = "fetch", !.todo = EnabledSources]
  /\ UNCHANGED <<mode, src, excl, file, pending, streak, warpEndpoint, lock, adm, acked, edits, crashes>>

CycleFetch ==
  /\ cyc.pc = "fetch"
  /\ \E s \in cyc.todo, o \in FetchOutcomes :
       /\ Fetched(s, o)
       /\ cyc' = [cyc EXCEPT !.todo = @ \ {s},
                             !.empties = IF o = [fails |-> "empty"] THEN @ \cup {s} ELSE @]
  /\ UNCHANGED <<mode, excl, adopted, file, policy, warpEndpoint, lock, adm, acked, bounds>>

\* build_plan and the comparison with the file: a merge that cannot be
\* computed ends the run, an identical candidate closes the open card.
CyclePlan ==
  /\ cyc.pc = "fetch" /\ cyc.todo = {}
  /\ LET cand == MergeSplitList IN
       IF ~CanMerge THEN cyc' = CycIdle /\ UNCHANGED pending
       ELSE IF cand = file
       THEN cyc' = CycIdle /\ pending' = NoCard
       ELSE /\ cyc' = [cyc EXCEPT !.pc = IF Suspicious(cand, cyc.empties) THEN "held" ELSE "clean",
                                  !.plan = cand, !.saw = file]
            /\ UNCHANGED pending
  /\ UNCHANGED <<mode, feedRows, file, base, streak, warpEndpoint, lock, adm, acked, bounds>>

BumpStreak(cand) == [hash |-> cand, count |-> IF streak.hash = cand THEN streak.count + 1 ELSE 1]
NoStreak == [hash |-> NoList, count |-> 0]

\* After the guards: review mode and a suspicious change go to the card, an
\* unconfirmed change waits for the next run, the rest is applied.
CycleDecide ==
  /\ cyc.pc \in {"held", "clean"}
  /\ \E probe \in Endpoints \cup {None} :
       /\ warpEndpoint' = RefreshEndpoint(probe)
       /\ IF ~CheckCandidate(cyc.plan, warpEndpoint')
          THEN cyc' = CycIdle /\ UNCHANGED <<pending, streak>>
          ELSE IF mode = "review" \/ cyc.pc = "held"
          THEN pending' = cyc.plan /\ cyc' = CycIdle /\ UNCHANGED streak
          ELSE IF PureAggregation(cyc.plan, cyc.saw)
          THEN cyc' = [cyc EXCEPT !.pc = "apply"] /\ UNCHANGED <<pending, streak>>
          ELSE /\ streak' = BumpStreak(cyc.plan)
               /\ cyc' = IF streak'.count < ConfirmStreak THEN CycIdle
                         ELSE [cyc EXCEPT !.pc = "apply"]
               /\ UNCHANGED pending
  /\ UNCHANGED <<mode, feedRows, file, base, lock, adm, acked, bounds>>

\* The bug of a refresh that writes the list it computed before the lock.
CycleCompute_Captured ==
  /\ cyc.pc = "apply" /\ lock = None
  /\ lock' = "cycle"
  /\ cyc' = [cyc EXCEPT !.pc = "write", !.saw = cyc.plan]
  /\ UNCHANGED <<mode, feedRows, file, policy, warpEndpoint, adm, acked, bounds>>

\* apply_plan recomputes the merge under the lock.
CycleCompute ==
  /\ cyc.pc = "apply" /\ lock = None
  /\ IF CanMerge
     THEN /\ lock' = "cycle"
          /\ cyc' = [cyc EXCEPT !.pc = "write", !.saw = MergeSplitList]
     ELSE cyc' = CycIdle /\ UNCHANGED lock
  /\ UNCHANGED <<mode, feedRows, file, policy, warpEndpoint, adm, acked, bounds>>

CycleWrite ==
  /\ cyc.pc = "write"
  /\ \E probe \in Endpoints \cup {None} :
       /\ warpEndpoint' = RefreshEndpoint(probe)
       /\ \E r \in ApplyLocked(cyc.saw, warpEndpoint', FALSE) :
            /\ file' = r.file
            /\ cyc' = IF r.ok THEN [cyc EXCEPT !.pc = "after"] ELSE CycIdle
  /\ lock' = None
  /\ UNCHANGED <<mode, feedRows, policy, adm, acked, bounds>>

CycleAfter ==
  /\ cyc.pc = "after"
  /\ base' = CaptureBaseline
  /\ streak' = NoStreak /\ pending' = NoCard
  /\ cyc' = CycIdle
  /\ UNCHANGED <<mode, feedRows, file, warpEndpoint, lock, adm, acked, bounds>>

-----------------------------------------------------------------------------
(* The admin's operations.  Each writes the database first and then calls  *)
(* apply_computed, which takes the lock and recomputes.                    *)

BeginApply(what, addrs, shown) ==
  /\ adm.pc = "idle" /\ edits < MaxEdits
  /\ edits' = edits + 1
  /\ adm' = [AdmIdle EXCEPT !.pc = "apply", !.op = what, !.addr = addrs, !.shown = shown]

AddManual(a) ==
  /\ BeginApply("add", {a}, NoCard)
  /\ adopted' = TRUE
  /\ \E probe \in Endpoints \cup {None} :
       /\ warpEndpoint' = RefreshEndpoint(probe)
       /\ AddToken(a, warpEndpoint', AdoptManual[Manual] \cup file.space)
  /\ stored' = [AdoptManual EXCEPT ![Manual] = @ \cup {a}]
  /\ UNCHANGED <<mode, src, excl, file, policy, lock, cyc, acked, cycles, crashes>>

RemoveManual(a) ==
  /\ BeginApply("remove", {a}, NoCard)
  /\ adopted' = TRUE
  /\ stored' = ManualWithout(AdoptManual, {a})
  /\ acked' = acked \ {a}
  /\ UNCHANGED <<mode, src, excl, file, policy, warpEndpoint, lock, cyc, cycles, crashes>>

\* Would the feeds keep the prefix routed without its manual rows?
FeedKeeps(a) == a \in MergeWith(stored[Manual] \ {a}).space

\* The panel deletes the manual rows of any routed prefix; the command leaves
\* alone what a feed supplies, and asks for a merge to find out.
PanelDelete(a) == DelToken(a) /\ RemoveManual(a)
CommandDelete(a) == DelToken(a) /\ CanMerge /\ ~FeedKeeps(a) /\ RemoveManual(a)

ExcludePrefix(a) ==
  /\ BeginApply("exclude", {a}, NoCard)
  /\ a \in file.space
  /\ adopted' = TRUE
  /\ excl' = excl \cup {a}
  /\ stored' = ManualWithout(AdoptManual, {a})
  /\ acked' = acked \ {a}
  /\ UNCHANGED <<mode, src, file, policy, warpEndpoint, lock, cyc, cycles, crashes>>

MigrateManual ==
  LET rows == AdoptManual
      covered == rows[Manual] \cap UNION {rows[s] : s \in Adds}
  IN  /\ BeginApply("migrate", covered, NoCard)
      /\ covered # {}
      /\ adopted' = TRUE
      /\ stored' = ManualWithout(rows, covered)
      /\ acked' = acked \ covered
      /\ UNCHANGED <<mode, src, excl, file, policy, warpEndpoint, lock, cyc, cycles, crashes>>

\* The sources panel's Apply: the plan is built once to report an error.
ApplySources ==
  /\ BeginApply("apply", {}, NoCard)
  /\ CanMerge
  /\ UNCHANGED <<mode, feedRows, file, policy, warpEndpoint, lock, cyc, acked, cycles, crashes>>

\* The card's Apply: the hash is compared once before the lock is taken.
ApprovePending ==
  /\ pending # NoCard
  /\ BeginApply("approve", {}, pending)
  /\ CanMerge /\ MergeSplitList = pending
  /\ UNCHANGED <<mode, feedRows, file, policy, warpEndpoint, lock, cyc, acked, cycles, crashes>>

\* Re-apply the file that is there, to reconcile the routing table.
Reload ==
  /\ BeginApply("reload", {}, NoCard)
  /\ file.space # {}
  /\ UNCHANGED <<mode, feedRows, file, policy, warpEndpoint, lock, cyc, acked, cycles, crashes>>

\* What the operation computes once it holds the lock, or that it gives up.
Computes == IF adm.op = "reload" THEN file.space # {}
            ELSE CanMerge /\ (adm.op = "approve" => MergeSplitList = adm.shown)

AdminCompute ==
  /\ adm.pc = "apply" /\ lock = None
  /\ IF Computes
     THEN /\ lock' = "admin"
          /\ adm' = [adm EXCEPT !.pc = "write",
                                !.plan = IF adm.op = "reload" THEN file ELSE MergeSplitList]
     ELSE adm' = AdmIdle /\ UNCHANGED lock
  /\ UNCHANGED <<mode, feedRows, file, policy, warpEndpoint, cyc, acked, bounds>>

AdminWrite ==
  /\ adm.pc = "write"
  /\ \E probe \in Endpoints \cup {None} :
       /\ warpEndpoint' = RefreshEndpoint(probe)
       /\ \E r \in ApplyLocked(adm.plan, warpEndpoint', adm.op = "reload") :
            /\ file' = r.file
            /\ acked' = IF r.ok /\ adm.op = "add" THEN acked \cup adm.addr ELSE acked
            /\ adm' = IF r.ok /\ adm.op \in {"apply", "approve"}
                      THEN [adm EXCEPT !.pc = "after"] ELSE AdmIdle
  /\ lock' = None
  /\ UNCHANGED <<mode, feedRows, policy, cyc, bounds>>

AdminAfter ==
  /\ adm.pc = "after"
  /\ base' = CaptureBaseline
  /\ IF adm.op = "approve" THEN pending' = NoCard /\ streak' = NoStreak ELSE UNCHANGED <<pending, streak>>
  /\ adm' = AdmIdle
  /\ UNCHANGED <<mode, feedRows, file, warpEndpoint, lock, cyc, acked, bounds>>

-----------------------------------------------------------------------------
(* The buttons that only change rows, pressed by any admin at any moment.  *)

Edit == edits < MaxEdits /\ edits' = edits + 1

\* The source panel's refresh: one source is fetched, nothing is applied.
PreviewFetch(s) ==
  /\ Edit /\ Enabled(s)
  /\ \E o \in FetchOutcomes : Fetched(s, o)
  /\ UNCHANGED <<mode, excl, adopted, file, policy, warpEndpoint, lock, cyc, adm, acked, cycles, crashes>>

SetEnabled(s, on) ==
  /\ Edit /\ Exists(s) /\ src[s].enabled # on
  /\ src' = [src EXCEPT ![s].enabled = on]
  /\ UNCHANGED <<mode, stored, excl, adopted, file, policy, warpEndpoint, lock, cyc, adm, acked, cycles, crashes>>

\* A scope is for a subtraction, and names an existing add source.
ValidRelations(s, m, sc) == sc # None => m = "subtract" /\ sc # s /\ src[sc].mode = "add"

AddSource(s, m, sc) ==
  /\ Edit /\ ~Exists(s)
  /\ ValidRelations(s, m, sc)
  /\ src' = [src EXCEPT ![s] = Source(m, sc)]
  /\ UNCHANGED <<mode, stored, excl, adopted, file, policy, warpEndpoint, lock, cyc, adm, acked, cycles, crashes>>

\* A subtraction scoped onto the deleted source is disabled, its scope cleared.
DeleteSource(s) ==
  /\ Edit /\ Exists(s)
  /\ src' = [d \in Slugs |->
               IF d = s THEN NoSource
               ELSE IF src[d].scope = s THEN [src[d] EXCEPT !.scope = None, !.enabled = FALSE]
               ELSE src[d]]
  /\ stored' = [stored EXCEPT ![s] = {}]
  /\ UNCHANGED <<mode, excl, adopted, file, policy, warpEndpoint, lock, cyc, adm, acked, cycles, crashes>>

RejectPending ==
  /\ Edit /\ pending # NoCard
  /\ pending' = NoCard
  /\ UNCHANGED <<mode, feedRows, file, base, streak, warpEndpoint, lock, cyc, adm, acked, cycles, crashes>>

\* A feed goes unanswered for longer than WARP_SPLIT_FEED_STALE_AFTER_SEC.
FeedAges(s) ==
  /\ Enabled(s) /\ src[s].fresh = "fresh" /\ cyc.pc = "idle"
  /\ src' = [src EXCEPT ![s].fresh = "stale"]
  /\ UNCHANGED <<mode, stored, excl, adopted, file, policy, warpEndpoint, lock, cyc, adm, acked, bounds>>

InFlight == CASE lock = "cycle" -> {cyc.saw} [] lock = "admin" -> {adm.plan} [] OTHER -> {}

\* The process dies: operations and the endpoint are forgotten, a helper that
\* was called has replaced the file or not.
FeedsCrash ==
  /\ crashes < MaxCrashes
  /\ crashes' = crashes + 1
  /\ file' \in {file} \cup {f \in InFlight : f.space # {} /\ CheckCandidate(f, warpEndpoint)}
  /\ cyc' = CycIdle /\ adm' = AdmIdle /\ lock' = None /\ warpEndpoint' = None
  /\ UNCHANGED <<mode, feedRows, policy, acked, cycles, edits>>

-----------------------------------------------------------------------------
\* The rows the migration seeds, some of them enabled, nothing fetched yet.
WarpInit ==
  /\ mode \in {"review", "auto"}
  /\ src = [d \in Slugs |->
             [(IF d = FirstAdd THEN Source("add", None) ELSE Source("subtract", FirstAdd))
              EXCEPT !.enabled = d \in FirstEnabled]]
  /\ stored = [o \in Origins |-> {}] /\ excl = {} /\ adopted = FALSE
  /\ file = FirstFile
  /\ base = [list |-> NoList, per |-> [o \in Origins |-> -1]]
  /\ pending = NoCard /\ streak = NoStreak /\ warpEndpoint = None /\ lock = None
  /\ cyc = CycIdle /\ adm = AdmIdle /\ acked = {}
  /\ cycles = 0 /\ edits = 0 /\ crashes = 0

WarpNext ==
  \/ CycleStart \/ CycleFetch \/ CyclePlan \/ CycleDecide
  \/ CycleCompute \/ CycleWrite \/ CycleAfter
  \/ \E a \in Addr : AddManual(a) \/ PanelDelete(a) \/ CommandDelete(a) \/ ExcludePrefix(a)
  \/ MigrateManual \/ ApplySources \/ ApprovePending \/ Reload
  \/ AdminCompute \/ AdminWrite \/ AdminAfter
  \/ \E s \in Slugs : \/ PreviewFetch(s) \/ DeleteSource(s) \/ FeedAges(s)
                      \/ \E on \in BOOLEAN : SetEnabled(s, on)
                      \/ \E m \in {"add", "subtract"}, sc \in Slugs \cup {None} : AddSource(s, m, sc)
  \/ RejectPending \/ FeedsCrash

WarpSpec == WarpInit /\ [][WarpNext]_warpVars

-----------------------------------------------------------------------------
WarpTypeOK ==
  /\ mode \in {"review", "auto"}
  /\ stored \in [Origins -> SUBSET Addr] /\ excl \subseteq Addr
  /\ file \in Lists /\ pending \in Lists
  /\ lock \in {None, "cycle", "admin"} /\ acked \subseteq Addr

\* What an admin approves on a card is what is written: however the rows move
\* between the press and the locked write (another admin's edit, a feed that
\* is fetched again), the file changes to the list of the card or not at all
\* (apply_pending compares the hash again under the lock).
CardIsWhatIsWritten ==
  adm.pc = "write" /\ adm.op = "approve" /\ file' # file => file' = adm.shown

\* A hand-typed prefix that was reported as added stays routed: no refresh,
\* approval or edit of another prefix that was computed concurrently drops it
\* (the manager recomputes the merge under its lock).  Prefixes a feed may
\* publish are left out: a subtraction removes those on purpose.
HandTyped == Addr \ UNION Publish
ManualStaysRouted ==
  \A a \in acked \cap acked' \cap HandTyped : a \in file.space => a \in file'.space

\* Every step that changes the routed list respects what the admins approved and typed.
RoutedAsAgreed == [][CardIsWhatIsWritten /\ ManualStaysRouted]_warpVars
=============================================================================
