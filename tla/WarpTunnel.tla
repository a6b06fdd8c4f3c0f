------------------------------ MODULE WarpTunnel ------------------------------
(***************************************************************************)
(* The WARP module: its lifecycle under the state lock (warp/manager.py),  *)
(* the health monitor that pulls and restores the routes outside that lock *)
(* (warp/health.py), the kill-switch, and the on/off verbs of the split    *)
(* routing (warp/split_manager.py, bot/handlers/admin_warp.py).            *)
(*                                                                         *)
(* Every operation of the manager holds the state lock from end to end, so *)
(* `op' is the holder and its progress.  Route changes are serialised by a *)
(* second lock, `rlock'.  The down and recovery windows are counted in     *)
(* probes.  The loss-ratio alert and the source-rule alert change no state *)
(* but their own latch and are left out.                                   *)
(***************************************************************************)
EXTENDS Naturals

CONSTANTS Window,        \* probes in a row that make the tunnel down, or up again
          MaxWarpFaults, \* failing helper calls
          MaxWarpCrashes

ASSUME TunnelAssumption == Window \in Nat \ {0}

VARIABLES
  observer,   \* WARP_MONITOR_OBSERVER_MODE
  settings,   \* warp_settings: [enabled, installed, kill]
  running, killMem,
  iface, routes,  \* the host: interface up, routes installed
  mon,        \* the monitor: [pc, healthy, run, act]
  op,         \* the operation that holds the state lock: [kind, pc, was running]
  rlock,      \* holder of the route lock
  removed,    \* the last teardown's route removal succeeded
  split,      \* split routing: [marker, table]
  warpFaults, warpCrashes

tunnelVars == <<observer, settings, running, killMem, iface, routes, mon, op, rlock,
                removed, split, warpFaults, warpCrashes>>
hostVars == <<iface, routes, removed>>
countVars == <<warpFaults, warpCrashes>>

NoHolder == "free"
NoOp == [kind |-> "none", pc |-> "idle", was |-> FALSE]
MonOff == [pc |-> "off", healthy |-> TRUE, run |-> 0, act |-> "none"]
MonStart(ok) == [pc |-> "sleep", healthy |-> ok, run |-> 0, act |-> "none"]

Outcome(ok) == IF ok THEN UNCHANGED warpFaults
               ELSE warpFaults < MaxWarpFaults /\ warpFaults' = warpFaults + 1

-----------------------------------------------------------------------------
(* Operations under the state lock.                                        *)

BeginOp(kind, pc) ==
  /\ op.pc = "idle"
  /\ op' = [kind |-> kind, pc |-> pc, was |-> running]

\* main.py starts the module if it is enabled; an error is logged.
WarpStart ==
  /\ settings.enabled /\ ~running /\ settings.installed
  /\ BeginOp("start", "up")
  /\ UNCHANGED <<observer, settings, running, killMem, hostVars, mon, rlock, split, countVars>>

WarpStop ==
  /\ running /\ BeginOp("stop", "lock")
  /\ UNCHANGED <<observer, settings, running, killMem, hostVars, mon, rlock, split, countVars>>

InstallConfig ==
  /\ BeginOp("install", IF running THEN "lock" ELSE "helper")
  /\ UNCHANGED <<observer, settings, running, killMem, hostVars, mon, rlock, split, countVars>>

DeleteConfig ==
  /\ settings.installed /\ BeginOp("delete", "lock")
  /\ UNCHANGED <<observer, settings, running, killMem, hostVars, mon, rlock, split, countVars>>

SetKillSwitch ==
  /\ op.pc = "idle"
  /\ settings' = [settings EXCEPT !.kill = ~@]
  /\ killMem' = ~settings.kill
  /\ UNCHANGED <<observer, running, hostVars, mon, op, rlock, split, countVars>>

\* A stale interface is taken down, then the interface is brought up.
StartIface(ok) ==
  /\ op.pc = "up" /\ ~observer /\ Outcome(ok)
  /\ killMem' = settings.kill
  /\ iface' = ok
  /\ op' = IF ok THEN [op EXCEPT !.pc = "routes"] ELSE NoOp
  /\ UNCHANGED <<observer, settings, running, mon, routes, removed, rlock, split, warpCrashes>>

\* The monitor starts latched on whether the routes were installed.
StartRoutes(ok) ==
  /\ op.pc = "routes" /\ Outcome(ok)
  /\ routes' = (routes \/ ok)
  /\ running' = TRUE /\ mon' = MonStart(ok) /\ op' = NoOp
  /\ UNCHANGED <<observer, settings, killMem, iface, removed, rlock, split, warpCrashes>>

\* As an observer the module only asks whether the interface is up and starts
\* to watch.
StartObserver ==
  /\ op.pc = "up" /\ observer
  /\ killMem' = settings.kill
  /\ running' = TRUE /\ mon' = MonStart(iface) /\ op' = NoOp
  /\ UNCHANGED <<observer, settings, hostVars, rlock, split, countVars>>

\* The teardown takes the route lock first, so a route change under way ends.
StopLock ==
  /\ op.pc = "lock" /\ rlock = NoHolder
  /\ rlock' = "op" /\ op' = [op EXCEPT !.pc = "cancel"]
  /\ UNCHANGED <<observer, settings, running, killMem, hostVars, mon, split, countVars>>

\* The bug of a teardown that forgets the monitor it started.
StopMonitor_Forgets ==
  /\ op.pc = "cancel"
  /\ op' = [op EXCEPT !.pc = "teardown"]
  /\ UNCHANGED <<observer, settings, running, killMem, hostVars, mon, rlock, split, countVars>>

\* The task is cancelled wherever it waits, in the queue of the route lock too.
StopMonitor ==
  /\ op.pc = "cancel"
  /\ mon' = MonOff
  /\ op' = [op EXCEPT !.pc = "teardown"]
  /\ UNCHANGED <<observer, settings, running, killMem, hostVars, rlock, split, countVars>>

\* Routes and interface are removed by two calls, and a failure of either is
\* only logged.
StopTeardown(ok, down) ==
  /\ op.pc = "teardown" /\ Outcome(ok /\ down)
  /\ IF observer \/ ~running
     THEN ok /\ down /\ UNCHANGED hostVars
     ELSE /\ routes' = (routes /\ ~ok)
          /\ iface' = (iface /\ ~down)
          /\ removed' = ok
  /\ rlock' = NoHolder /\ running' = FALSE
  /\ op' = IF op.kind = "stop" THEN NoOp ELSE [op EXCEPT !.pc = "helper"]
  /\ UNCHANGED <<observer, settings, killMem, mon, split, warpCrashes>>

\* The install helper, then the start of a module that was running, after a
\* failure too; the remove helper, then the module is disabled.
ConfigHelper(ok) ==
  /\ op.pc = "helper" /\ Outcome(ok)
  /\ settings' = CASE op.kind = "install" /\ ok -> [settings EXCEPT !.installed = TRUE]
                   [] op.kind = "delete" /\ ok ->
                        [settings EXCEPT !.installed = FALSE, !.enabled = FALSE]
                   [] OTHER -> settings
  /\ op' = IF op.kind = "install" /\ op.was /\ settings'.installed
           THEN [op EXCEPT !.kind = "start", !.pc = "up"] ELSE NoOp
  /\ UNCHANGED <<observer, running, killMem, hostVars, mon, rlock, split, warpCrashes>>

-----------------------------------------------------------------------------
(* The health monitor.                                                     *)

\* One probe.  A run of probes as long as the window crosses the latch, and
\* the routes are then removed or restored: never as an observer, and never
\* removed while the kill-switch is on.
Crossed(ok) == ok # mon.healthy /\ mon.run + 1 >= Window

RouteAct(ok) == IF observer \/ (~ok /\ killMem) THEN "none" ELSE IF ok THEN "add" ELSE "remove"

MonProbe(ok) ==
  /\ mon.pc = "sleep"
  /\ mon' = IF Crossed(ok)
            THEN [mon EXCEPT !.healthy = ok, !.run = 0, !.act = RouteAct(ok),
                             !.pc = IF RouteAct(ok) = "none" THEN "sleep" ELSE "want"]
            ELSE [mon EXCEPT !.run = IF ok = mon.healthy THEN 0 ELSE @ + 1]
  /\ UNCHANGED <<observer, settings, running, killMem, hostVars, op, rlock, split, countVars>>

MonLock ==
  /\ mon.pc = "want" /\ rlock = NoHolder
  /\ rlock' = "mon" /\ mon' = [mon EXCEPT !.pc = "helper"]
  /\ UNCHANGED <<observer, settings, running, killMem, hostVars, op, split, countVars>>

\* The bug of a route callback that keeps the lock when its helper fails.
MonRouted_Keeps(ok) ==
  /\ mon.pc = "helper" /\ Outcome(ok)
  /\ routes' = IF ok THEN mon.act = "add" ELSE routes
  /\ rlock' = IF ok THEN NoHolder ELSE rlock
  /\ mon' = [mon EXCEPT !.pc = "sleep", !.act = "none"]
  /\ UNCHANGED <<observer, settings, running, killMem, iface, removed, op, split, warpCrashes>>

\* A failed helper is logged and not tried again before the latch next crosses.
MonRouted(ok) ==
  /\ mon.pc = "helper" /\ Outcome(ok)
  /\ routes' = IF ok THEN mon.act = "add" ELSE routes
  /\ rlock' = NoHolder
  /\ mon' = [mon EXCEPT !.pc = "sleep", !.act = "none"]
  /\ UNCHANGED <<observer, settings, running, killMem, iface, removed, op, split, warpCrashes>>

-----------------------------------------------------------------------------
(* Split routing on, off and restart: the marker and table T.              *)

\* The helper writes the marker first; if it fails after that, table T holds
\* anything.
RunState(wanted, ok) ==
  /\ Outcome(ok)
  /\ \E table \in {split.table, "list", "empty"} :
       split' = [marker |-> wanted,
                 table |-> IF ~ok THEN table ELSE IF wanted = "on" THEN "list" ELSE "empty"]
  /\ UNCHANGED <<observer, settings, running, killMem, hostVars, mon, op, rlock, warpCrashes>>

WarpEnable(ok) == RunState("on", ok)
WarpDisable(ok) == RunState("off", ok)

\* Off and on again, refused while the marker says off.
WarpRestart(ok) == split.marker = "on" /\ RunState("on", ok)

\* The process dies: the host keeps what the helpers did, the one that was
\* running included.
WarpCrash ==
  /\ warpCrashes < MaxWarpCrashes /\ warpCrashes' = warpCrashes + 1
  /\ \E done \in BOOLEAN :
       routes' = IF mon.pc = "helper" /\ done THEN mon.act = "add" ELSE routes
  /\ removed' = FALSE
  /\ running' = FALSE /\ killMem' = FALSE
  /\ mon' = MonOff /\ op' = NoOp /\ rlock' = NoHolder
  /\ UNCHANGED <<observer, settings, iface, split, warpFaults>>

TunnelInit ==
  /\ observer \in BOOLEAN
  /\ settings \in [enabled : BOOLEAN, installed : BOOLEAN, kill : BOOLEAN]
  /\ running = FALSE /\ killMem = FALSE
  /\ iface = observer /\ routes = observer /\ removed = FALSE
  /\ mon = MonOff /\ op = NoOp /\ rlock = NoHolder
  /\ split = [marker |-> "on", table |-> "list"]
  /\ warpFaults = 0 /\ warpCrashes = 0

\* The steps of an operation that holds the state lock, and of the monitor
\* that holds the route lock: helper calls have a timeout and return.
OpStep ==
  \/ \E ok \in BOOLEAN : StartIface(ok) \/ StartRoutes(ok) \/ ConfigHelper(ok)
  \/ \E ok, down \in BOOLEAN : StopTeardown(ok, down)
  \/ StartObserver \/ StopLock \/ StopMonitor

MonStep == \E ok \in BOOLEAN : MonRouted(ok)

TunnelNext ==
  \/ WarpStart \/ WarpStop \/ InstallConfig \/ DeleteConfig \/ SetKillSwitch
  \/ OpStep \/ MonStep \/ MonLock
  \/ \E ok \in BOOLEAN : MonProbe(ok)
  \/ \E ok \in BOOLEAN : WarpEnable(ok) \/ WarpDisable(ok) \/ WarpRestart(ok)
  \/ WarpCrash

\* asyncio.Lock is fair, so a teardown that waits for the route lock gets it
\* although the monitor takes it again and again.
TunnelFairness == SF_tunnelVars(StopLock) /\ WF_tunnelVars(OpStep) /\ WF_tunnelVars(MonStep)

TunnelSpec == TunnelInit /\ [][TunnelNext]_tunnelVars /\ TunnelFairness

-----------------------------------------------------------------------------
TunnelTypeOK ==
  /\ observer \in BOOLEAN /\ running \in BOOLEAN /\ killMem \in BOOLEAN
  /\ settings \in [enabled : BOOLEAN, installed : BOOLEAN, kill : BOOLEAN]
  /\ iface \in BOOLEAN /\ routes \in BOOLEAN /\ removed \in BOOLEAN
  /\ mon \in [pc : {"off", "sleep", "want", "helper"}, healthy : BOOLEAN,
              run : 0 .. Window, act : {"none", "add", "remove"}]
  /\ op \in [kind : {"none", "start", "stop", "install", "delete"}, was : BOOLEAN,
             pc : {"idle", "up", "routes", "lock", "cancel", "teardown", "helper"}]
  /\ rlock \in {NoHolder, "mon", "op"}
  /\ split \in [marker : {"on", "off"}, table : {"list", "empty"}]

\* Once a stopped module's routes were removed they stay removed: the monitor,
\* which changes routes outside the state lock, puts none back
\* (_stop_locked: its calls "can never race this teardown").
TeardownIsFinal ==
  ~observer /\ ~running /\ op.pc = "idle" /\ removed => ~routes

\* Every operation that took the state lock gives it back: the teardown that
\* waits for the route lock and the monitor that waits for it too do not block
\* each other (_stop_locked, _activate_routes).
OpReturns == op.pc # "idle" ~> op.pc = "idle"
=============================================================================
