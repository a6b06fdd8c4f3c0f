------------------------------ MODULE Lifecycle ------------------------------
(***************************************************************************)
(* The life of a bot process (main.py, create_app of bot/app.py): the      *)
(* single-instance lock, the database, the background loops, the bulk      *)
(* bundle run of a handler (ReconcileRunner of admin_bundles.py), and the  *)
(* order in which `finally` takes them down.  Two processes are started    *)
(* beside each other (a restart, a second unit, a shell).                  *)
(*                                                                         *)
(* No loop is started or cancelled but by main; between the start of the   *)
(* first loop and the health server main does not await, so all of them    *)
(* start in one step.  A cancelled task ends at its next await.  Handlers  *)
(* under way when polling stops are not waited for.                        *)
(***************************************************************************)
EXTENDS Integers, Sequences, SequencesExt

CONSTANTS
    Procs,       \* processes
    LoopOrder,   \* the loops, in the order `finally` cancels them
    ProbeLoop,   \* the one that probes hy2_auth
    MaxStarts,   \* bound: starts of a process
    MaxPasses,   \* bound: passes of the loops
    MaxBulks     \* bound: bulk runs

ASSUME LifecycleAssumption ==
    /\ LoopOrder \in Seq(ToSet(LoopOrder)) /\ ProbeLoop \in ToSet(LoopOrder)
    /\ "free" \notin Procs

VARIABLES
    flock,      \* the holder of the single-instance lock, or "free"
    main,       \* where main() of each process is
    dbOpen,     \* processes whose connection is open
    loopAt,     \* each loop: "off", "work" (in the database or a backend), "sleep"
    cancelling, \* the loop whose end main waits for
    handlers,   \* processes with a handler of admin_bundles_run under way
    bulk,       \* the bulk run: "none", "bundle" (inside a bundle), "between"
    stopFlag,   \* ReconcileRunner._stop
    lateBulk,   \* history: this run was started after ReconcileRunner.shutdown
    halfBuilt,  \* history: a bundle was abandoned half-way, and how
    marked,     \* BackendHealth of Hysteria2: [degraded, uninstalled]
    hostRemoved,\* the uninstall marker of Hysteria2
    starts, passes, bulks

lifeVars == <<flock, main, dbOpen, loopAt, cancelling, handlers, bulk, stopFlag, lateBulk, halfBuilt,
              marked, hostRemoved, starts, passes, bulks>>

Loops == ToSet(LoopOrder)
AllOff == [l \in Loops |-> "off"]
NoCancel == 0
Clean == [degraded |-> FALSE, uninstalled |-> FALSE]
Closing == {"runner", "drain", "loops", "servers", "database", "session"}

LifeInit ==
    /\ flock = "free" /\ main = [p \in Procs |-> "off"] /\ dbOpen = {}
    /\ loopAt = [p \in Procs |-> AllOff] /\ cancelling = [p \in Procs |-> NoCancel]
    /\ handlers = {} /\ bulk = [p \in Procs |-> "none"] /\ stopFlag = [p \in Procs |-> FALSE]
    /\ lateBulk = [p \in Procs |-> FALSE] /\ halfBuilt = {}
    /\ marked = [p \in Procs |-> Clean] /\ hostRemoved = FALSE
    /\ starts = 0 /\ passes = 0 /\ bulks = 0

MainTo(p, pc) == main' = [main EXCEPT ![p] = pc]

-----------------------------------------------------------------------------
(* Start *)

\* flock(LOCK_EX | LOCK_NB)
InstanceFree == flock = "free"

\* SingleInstanceLock.__enter__; a second instance exits with SingleInstanceError.
Enter(p) ==
    /\ main[p] = "off" /\ starts < MaxStarts /\ starts' = starts + 1
    /\ InstanceFree
    /\ flock' = p /\ MainTo(p, "connect")
    /\ marked' = [marked EXCEPT ![p] = Clean]
    /\ UNCHANGED <<dbOpen, loopAt, cancelling, handlers, bulk, stopFlag, lateBulk, halfBuilt,
                   hostRemoved, passes, bulks>>

\* SingleInstanceLock.__exit__, with whatever this process still has gone
ProcessGone(p) ==
    /\ flock' = IF flock = p THEN "free" ELSE flock
    /\ MainTo(p, "off") /\ dbOpen' = dbOpen \ {p}
    /\ loopAt' = [loopAt EXCEPT ![p] = AllOff] /\ cancelling' = [cancelling EXCEPT ![p] = NoCancel]
    /\ handlers' = handlers \ {p} /\ bulk' = [bulk EXCEPT ![p] = "none"]
    /\ stopFlag' = [stopFlag EXCEPT ![p] = FALSE] /\ lateBulk' = [lateBulk EXCEPT ![p] = FALSE]
    /\ UNCHANGED <<marked, hostRemoved, starts, passes, bulks>>

\* create_app: connect; then bootstrap, seeding and the startup reconciliations, of
\* which only MTProto's is fatal.  A failure closes the database and ends the process.
ConnectDb(p, ok) ==
    /\ main[p] = "connect"
    /\ IF ok
       THEN /\ dbOpen' = dbOpen \cup {p} /\ MainTo(p, "build")
            /\ UNCHANGED <<flock, loopAt, cancelling, handlers, bulk, stopFlag, lateBulk, marked,
                           hostRemoved, starts, passes, bulks>>
       ELSE ProcessGone(p)
    /\ UNCHANGED halfBuilt

BuildApp(p, ok) ==
    /\ main[p] = "build"
    /\ IF ok
       THEN /\ MainTo(p, "start")
            /\ marked' = [marked EXCEPT ![p].uninstalled = hostRemoved]
            /\ UNCHANGED <<flock, dbOpen, loopAt, cancelling, handlers, bulk, stopFlag, lateBulk,
                           hostRemoved, starts, passes, bulks>>
       ELSE ProcessGone(p)
    /\ UNCHANGED halfBuilt

\* main, up to the health server: the loops the settings ask for
StartLoops(p) == \E chosen \in {Loops, {ProbeLoop}} :
    /\ main[p] = "start" /\ MainTo(p, "serve")
    /\ loopAt' = [loopAt EXCEPT ![p] = [l \in Loops |-> IF l \in chosen THEN "sleep" ELSE "off"]]
    /\ UNCHANGED <<flock, dbOpen, cancelling, handlers, bulk, stopFlag, lateBulk, halfBuilt, marked,
                   hostRemoved, starts, passes, bulks>>

\* The health server, WARP, the webhook and the commands: each may raise, or main
\* be interrupted, and `finally` runs.
Serve(p, ok) ==
    /\ main[p] = "serve" /\ MainTo(p, IF ok THEN "polling" ELSE "runner")
    /\ UNCHANGED <<flock, dbOpen, loopAt, cancelling, handlers, bulk, stopFlag, lateBulk, halfBuilt,
                   marked, hostRemoved, starts, passes, bulks>>

-----------------------------------------------------------------------------
(* Loops *)

\* A pass begins; only a loop of a protocol that is still there calls its backend,
\* and the loop of a removed one says so instead of probing.
PassBegins(p, l) ==
    /\ loopAt[p][l] = "sleep" /\ passes < MaxPasses /\ passes' = passes + 1
    /\ IF l = ProbeLoop /\ hostRemoved
       THEN /\ marked' = [marked EXCEPT ![p] = [degraded |-> FALSE, uninstalled |-> TRUE]]
            /\ UNCHANGED loopAt
       ELSE /\ loopAt' = [loopAt EXCEPT ![p][l] = "work"]
            /\ UNCHANGED marked
    /\ UNCHANGED <<flock, main, dbOpen, cancelling, handlers, bulk, stopFlag, lateBulk, halfBuilt,
                   hostRemoved, starts, bulks>>

\* mark_degraded
MarkDegraded(p) == IF marked[p].uninstalled THEN marked[p] ELSE [marked[p] EXCEPT !.degraded = TRUE]

\* The pass ends, well or not; the probe reports what it found.
PassEnds(p, l, ok) ==
    /\ loopAt[p][l] = "work"
    /\ loopAt' = [loopAt EXCEPT ![p][l] = "sleep"]
    /\ marked' = IF l # ProbeLoop THEN marked
                 ELSE [marked EXCEPT ![p] = IF ok THEN [@ EXCEPT !.degraded = FALSE] ELSE MarkDegraded(p)]
    /\ UNCHANGED <<flock, main, dbOpen, cancelling, handlers, bulk, stopFlag, lateBulk, halfBuilt,
                   hostRemoved, starts, passes, bulks>>

\* ProtocolUninstallService: the marker is written, and the backend marked
RemoveProtocol(p) ==
    /\ main[p] = "polling" /\ ~hostRemoved
    /\ hostRemoved' = TRUE
    /\ marked' = [marked EXCEPT ![p] = [degraded |-> FALSE, uninstalled |-> TRUE]]
    /\ UNCHANGED <<flock, main, dbOpen, loopAt, cancelling, handlers, bulk, stopFlag, lateBulk,
                   halfBuilt, starts, passes, bulks>>

-----------------------------------------------------------------------------
(* Bulk runs *)

\* admin_bundles_run is called, and awaits its checks ...
ConfirmBulk(p) ==
    /\ main[p] = "polling" /\ p \notin handlers /\ handlers' = handlers \cup {p}
    /\ UNCHANGED <<flock, main, dbOpen, loopAt, cancelling, bulk, stopFlag, lateBulk, halfBuilt,
                   marked, hostRemoved, starts, passes, bulks>>

\* ... and starts the run, unless one is running: the check and the start are one step.
StartBulk(p) ==
    /\ p \in handlers /\ bulks < MaxBulks
    /\ handlers' = handlers \ {p}
    /\ IF bulk[p] = "none"
       THEN /\ bulk' = [bulk EXCEPT ![p] = "between"] /\ bulks' = bulks + 1
            /\ stopFlag' = [stopFlag EXCEPT ![p] = FALSE]
            /\ lateBulk' = [lateBulk EXCEPT ![p] = main[p] \in Closing \ {"runner"}]
       ELSE UNCHANGED <<bulk, bulks, stopFlag, lateBulk>>
    /\ UNCHANGED <<flock, main, dbOpen, loopAt, cancelling, halfBuilt, marked, hostRemoved, starts, passes>>

\* reconcile_all looks at the stop flag between two bundles.
NextBundle(p) ==
    /\ bulk[p] = "between" /\ ~stopFlag[p]
    /\ bulk' = [bulk EXCEPT ![p] = "bundle"]
    /\ UNCHANGED <<flock, main, dbOpen, loopAt, cancelling, handlers, stopFlag, lateBulk, halfBuilt,
                   marked, hostRemoved, starts, passes, bulks>>

\* The bundle is reconciled, and the run goes on, ends or is told to stop.
BundleDone(p) ==
    /\ \/ bulk[p] = "bundle" /\ \E next \in {"between", "none"} : bulk' = [bulk EXCEPT ![p] = next]
       \/ bulk[p] = "between" /\ stopFlag[p] /\ bulk' = [bulk EXCEPT ![p] = "none"]
    /\ UNCHANGED <<flock, main, dbOpen, loopAt, cancelling, handlers, stopFlag, lateBulk, halfBuilt,
                   marked, hostRemoved, starts, passes, bulks>>

-----------------------------------------------------------------------------
(* Stop *)

\* SIGTERM, or start_polling raises
StopPolling(p) ==
    /\ main[p] = "polling" /\ MainTo(p, "runner")
    /\ UNCHANGED <<flock, dbOpen, loopAt, cancelling, handlers, bulk, stopFlag, lateBulk, halfBuilt,
                   marked, hostRemoved, starts, passes, bulks>>

\* ReconcileRunner.shutdown: with a run under way, ask it to stop and wait
ShutdownRunner(p) ==
    /\ main[p] = "runner"
    /\ MainTo(p, IF bulk[p] = "none" THEN "loops" ELSE "drain")
    /\ stopFlag' = [stopFlag EXCEPT ![p] = bulk[p] # "none"]
    /\ UNCHANGED <<flock, dbOpen, loopAt, cancelling, handlers, bulk, lateBulk, halfBuilt, marked,
                   hostRemoved, starts, passes, bulks>>

\* Mutant: the run is asked to stop but not waited for
Drained_AtOnce(p) == TRUE

\* wait_for(shield(task)) returns: the run it was given has ended, though another may
\* have begun since
Drained(p) == bulk[p] = "none" \/ lateBulk[p]

RunnerDrained(p) ==
    /\ main[p] = "drain" /\ Drained(p) /\ MainTo(p, "loops")
    /\ UNCHANGED <<flock, dbOpen, loopAt, cancelling, handlers, bulk, stopFlag, lateBulk, halfBuilt,
                   marked, hostRemoved, starts, passes, bulks>>

\* ... or a minute has passed, and the run is cancelled where it is.
RunnerTimeout(p) ==
    /\ main[p] = "drain" /\ ~Drained(p) /\ MainTo(p, "loops")
    /\ halfBuilt' = IF bulk[p] = "bundle" THEN halfBuilt \cup {"timeout"} ELSE halfBuilt
    /\ bulk' = [bulk EXCEPT ![p] = "none"]
    /\ UNCHANGED <<flock, dbOpen, loopAt, cancelling, handlers, stopFlag, lateBulk, marked,
                   hostRemoved, starts, passes, bulks>>

\* The loops are cancelled one after the other, each waited for before the next.
CancelLoop(p) ==
    /\ main[p] = "loops" /\ cancelling[p] < Len(LoopOrder)
    /\ cancelling[p] # NoCancel => loopAt[p][LoopOrder[cancelling[p]]] = "off"
    /\ cancelling' = [cancelling EXCEPT ![p] = @ + 1]
    /\ UNCHANGED <<flock, main, dbOpen, loopAt, handlers, bulk, stopFlag, lateBulk, halfBuilt, marked,
                   hostRemoved, starts, passes, bulks>>

LoopEnds(p) ==
    /\ main[p] = "loops" /\ cancelling[p] # NoCancel
    /\ LET l == LoopOrder[cancelling[p]] IN
       loopAt[p][l] # "off" /\ loopAt' = [loopAt EXCEPT ![p][l] = "off"]
    /\ UNCHANGED <<flock, main, dbOpen, cancelling, handlers, bulk, stopFlag, lateBulk, halfBuilt,
                   marked, hostRemoved, starts, passes, bulks>>

LoopsEnded(p) ==
    /\ main[p] = "loops" /\ cancelling[p] = Len(LoopOrder) /\ loopAt[p][LoopOrder[cancelling[p]]] = "off"
    /\ MainTo(p, "servers")
    /\ UNCHANGED <<flock, dbOpen, loopAt, cancelling, handlers, bulk, stopFlag, lateBulk, halfBuilt,
                   marked, hostRemoved, starts, passes, bulks>>

\* warp.stop and the health server, errors logged; then db.close
StopServers(p) ==
    /\ main[p] = "servers" /\ MainTo(p, "database")
    /\ UNCHANGED <<flock, dbOpen, loopAt, cancelling, handlers, bulk, stopFlag, lateBulk, halfBuilt,
                   marked, hostRemoved, starts, passes, bulks>>

CloseDatabase(p) ==
    /\ main[p] = "database" /\ MainTo(p, "session") /\ dbOpen' = dbOpen \ {p}
    /\ UNCHANGED <<flock, loopAt, cancelling, handlers, bulk, stopFlag, lateBulk, halfBuilt, marked,
                   hostRemoved, starts, passes, bulks>>

\* The session is closed, main returns, and asyncio.run cancels what is left.
Exit(p) ==
    /\ main[p] = "session" /\ ProcessGone(p)
    /\ halfBuilt' = IF bulk[p] = "bundle" THEN halfBuilt \cup {IF lateBulk[p] THEN "late" ELSE "exit"} ELSE halfBuilt

\* SIGKILL, or the host goes down: the kernel drops the lock.
KillProcess(p) ==
    /\ main[p] # "off" /\ ProcessGone(p)
    /\ halfBuilt' = IF bulk[p] = "bundle" THEN halfBuilt \cup {"kill"} ELSE halfBuilt

LifeNext == \E p \in Procs :
    \/ Enter(p) \/ StartLoops(p) \/ RemoveProtocol(p) \/ ConfirmBulk(p) \/ StartBulk(p) \/ NextBundle(p)
    \/ BundleDone(p) \/ StopPolling(p) \/ ShutdownRunner(p) \/ RunnerDrained(p) \/ RunnerTimeout(p)
    \/ CancelLoop(p) \/ LoopEnds(p) \/ LoopsEnded(p) \/ StopServers(p) \/ CloseDatabase(p) \/ Exit(p) \/ KillProcess(p)
    \/ \E ok \in BOOLEAN : ConnectDb(p, ok) \/ BuildApp(p, ok) \/ Serve(p, ok)
    \/ \E l \in Loops : PassBegins(p, l) \/ \E ok \in BOOLEAN : PassEnds(p, l, ok)

LifeSpec == LifeInit /\ [][LifeNext]_lifeVars

-----------------------------------------------------------------------------
(* Properties *)

\* The database is never open in two processes (SingleInstanceLock around create_app,
\* whose failures close it), and nothing main started uses it once it is closed: the
\* loops have ended, and so has a bulk run begun before the shutdown.
DatabaseOutlivesItsUsers ==
    /\ \A p, q \in dbOpen : p = q
    /\ \A p \in Procs \ dbOpen : /\ loopAt[p] = AllOff
                                 /\ bulk[p] # "none" => lateBulk[p]

\* "a bulk All-in-One reconcile finishes the bundle it is on and stops, so no bundle
\* is left half-provisioned" (main.py): but for a kill, the last resort after a minute,
\* and a run a handler starts when the shutdown has already looked.
NoBundleCutShort == "exit" \notin halfBuilt

\* A removed protocol is never reported degraded, though a probe of it may have been
\* in flight (BackendHealth.mark_degraded).
RemovedIsNotDegraded == \A p \in Procs : ~(marked[p].degraded /\ marked[p].uninstalled)

\* The process is taken down in an order that leaves nothing behind.
ShutdownIsOrderly == DatabaseOutlivesItsUsers /\ NoBundleCutShort /\ RemovedIsNotDegraded
=============================================================================
